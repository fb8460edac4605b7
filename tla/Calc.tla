-------------------------------- MODULE Calc --------------------------------
(***************************************************************************)
(* `calc`: the recursive-descent evaluator of kernel/calc/calc.c, in signed *)
(* arithmetic that wraps at Wide (2^64; built without optimisation, what C  *)
(* leaves undefined wraps), and the printing of its result with kprintf's   *)
(* %d, which takes the value modulo Narrow (2^32). The line is a sequence   *)
(* of characters, typed here one by one.                                    *)
(***************************************************************************)
EXTENDS Integers, Sequences

CONSTANTS
    Wide, Narrow,
    Typed,              \* the characters a user types
    MaxTyped            \* bound: the length of the line

VARIABLE line           \* what follows "calc"

CalcInit == line = <<>>
CalcNext == Len(line) < MaxTyped /\ \E c \in Typed : line' = Append(line, c)

Signed(v, span) == IF v % span >= span \div 2 THEN (v % span) - span ELSE v % span

DIGITS == <<"0", "1", "2", "3", "4", "5", "6", "7", "8", "9">>
IsDigit(c) == \E d \in 1 .. 10 : DIGITS[d] = c
DigitValue(c) == CHOOSE d \in 0 .. 9 : DIGITS[d + 1] = c

Magnitude(v) == IF v < 0 THEN -v ELSE v
Quotient(a, b) == (IF (a < 0) = (b < 0) THEN 1 ELSE -1) * (Magnitude(a) \div Magnitude(b))

-----------------------------------------------------------------------------
(* The evaluator. A result is a status, the place to read on, and a value.  *)

Ok(at, v) == [status |-> "ok", at |-> at, value |-> Signed(v, Wide)]
Refused == [status |-> "error", at |-> 0, value |-> 0]
DivideFault == [status |-> "fault", at |-> 0, value |-> 0]      \* the CPU's exception 0

calc_apply_op(left, right, op, at) ==
    CASE op = "+" -> Ok(at, left + right)
      [] op = "-" -> Ok(at, left - right)
      [] op = "*" -> Ok(at, left * right)
      [] right = 0 -> Refused
      [] left = -(Wide \div 2) /\ right = -1 -> DivideFault
      [] op = "/" -> Ok(at, Quotient(left, right))
      [] OTHER -> Ok(at, left - right * Quotient(left, right))

At(p) == IF p \in DOMAIN line THEN line[p] ELSE "end"

RECURSIVE calc_skip_spaces(_)
calc_skip_spaces(p) == IF At(p) = " " THEN calc_skip_spaces(p + 1) ELSE p

RECURSIVE Digits(_, _)
Digits(p, v) == IF IsDigit(At(p)) THEN Digits(p + 1, Signed(v * 10 + DigitValue(At(p)), Wide)) ELSE Ok(p, v)

calc_parse_number(p) == IF IsDigit(At(p)) THEN Digits(p, 0) ELSE Refused

RECURSIVE calc_parse_factor(_), Chain(_, _)

\* calc_parse_term and calc_parse_expr, one loop over operands of the level below.
Operators(level) == IF level = "term" THEN {"*", "/", "%"} ELSE {"+", "-"}
Parse(level, p) ==
    Chain(level, IF level = "term" THEN calc_parse_factor(p) ELSE Chain("term", calc_parse_factor(p)))

\* Mutant: the operand on the right takes all that follows.
ChainRight(level, left) ==
    LET p == calc_skip_spaces(left.at)
        right == Parse(level, p + 1)
    IN IF left.status # "ok" \/ At(p) \notin Operators(level) THEN left
       ELSE IF right.status # "ok" THEN right
       ELSE calc_apply_op(left.value, right.value, At(p), right.at)

Chain(level, left) ==
    LET p == calc_skip_spaces(left.at)
        right == IF level = "term" THEN calc_parse_factor(p + 1) ELSE Parse("term", p + 1)
    IN IF left.status # "ok" \/ At(p) \notin Operators(level) THEN left
       ELSE IF right.status # "ok" THEN right
       ELSE Chain(level, calc_apply_op(left.value, right.value, At(p), right.at))

calc_parse_factor(start) ==
    LET p == calc_skip_spaces(start)
        inner == Parse("expr", p + 1)
        close == calc_skip_spaces(inner.at)
        operand == calc_parse_factor(p + 1)
    IN IF At(p) = "("
       THEN IF inner.status # "ok" THEN inner
            ELSE IF At(close) = ")" THEN Ok(close + 1, inner.value) ELSE Refused
       ELSE IF At(p) \in {"+", "-"}
       THEN IF operand.status # "ok" THEN operand
            ELSE Ok(operand.at, IF At(p) = "-" THEN -operand.value ELSE operand.value)
       ELSE calc_parse_number(p)

calc_evaluate ==
    LET result == Parse("expr", 1)
    IN IF result.status # "ok" \/ At(calc_skip_spaces(result.at)) = "end" THEN result ELSE Refused

-----------------------------------------------------------------------------
(* kprintf("%d", (int32_t) value).                                          *)

RECURSIVE DigitsOf(_)
DigitsOf(v) == IF v = 0 THEN <<>> ELSE Append(DigitsOf(v \div 10), DIGITS[(v % 10) + 1])

kprint_uint(v) == IF v = 0 THEN <<"0">> ELSE DigitsOf(v)

kprint_int(v) == IF v < 0 THEN <<"-">> \o kprint_uint((-v) % Narrow) ELSE kprint_uint(v)

PrintedResult == kprint_int(Signed(calc_evaluate.value, Narrow))

-----------------------------------------------------------------------------
(* Reference: the values of text[i .. j] read as a factor, a term or an     *)
(* expression; none if it is not one, or divides by zero.                   *)

Apply(a, op, b) ==
    CASE op = "+" -> {Signed(a + b, Wide)} [] op = "-" -> {Signed(a - b, Wide)}
      [] op = "*" -> {Signed(a * b, Wide)} [] b = 0 -> {}
      [] op = "/" -> {Signed(Quotient(a, b), Wide)} [] OTHER -> {a - b * Quotient(a, b)}

RECURSIVE Meaning(_, _, _, _)
Meaning(text, kind, i, j) ==
    IF i > j THEN {}
    ELSE IF text[i] = " " THEN Meaning(text, kind, i + 1, j)
    ELSE IF text[j] = " " THEN Meaning(text, kind, i, j - 1)
    ELSE IF kind = "number"
    THEN IF i = j /\ IsDigit(text[i]) THEN {DigitValue(text[i])}
         ELSE IF IsDigit(text[j]) /\ text[j - 1] # " "
         THEN {Signed(10 * v + DigitValue(text[j]), Wide) : v \in Meaning(text, kind, i, j - 1)} ELSE {}
    ELSE IF kind = "factor"
    THEN Meaning(text, "number", i, j)
         \cup (IF text[i] = "-" THEN {Signed(-v, Wide) : v \in Meaning(text, kind, i + 1, j)} ELSE {})
         \cup (IF text[i] = "+" THEN Meaning(text, kind, i + 1, j) ELSE {})
         \cup (IF text[i] = "(" /\ text[j] = ")" THEN Meaning(text, "expr", i + 1, j - 1) ELSE {})
    ELSE LET operand == IF kind = "term" THEN "factor" ELSE "term"
         IN Meaning(text, operand, i, j) \cup UNION
              {UNION {Apply(a, text[k], b) :
                        a \in Meaning(text, kind, i, k - 1), b \in Meaning(text, operand, k + 1, j)} :
                 k \in {at \in i .. j : text[at] \in Operators(kind)}}

\* calc.c and kio.c: a line is refused exactly if it is no expression or divides by
\* zero; of any other, what is printed denotes the value by precedence and
\* association to the left, modulo 2^32. (The quotient that the CPU refuses to
\* compute, of the least number by -1, ends in a divide fault instead.)
PrintsTheValue ==
    LET reference == Meaning(line, "expr", 1, Len(line)) IN
    CASE calc_evaluate.status = "error" -> reference = {}
      [] calc_evaluate.status = "ok" ->
           /\ reference # {}
           /\ {Signed(v, Narrow) : v \in reference}
                = Meaning(PrintedResult, "factor", 1, Len(PrintedResult))
      [] OTHER -> TRUE
=============================================================================
