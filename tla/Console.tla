------------------------------- MODULE Console -------------------------------
(***************************************************************************)
(* The cursor of drivers/vga/vga.c, which a thread that prints and the      *)
(* keyboard handler that echoes share. The build has no optimisation, so    *)
(* every use of a static is a load or a store of its own, and the handler   *)
(* may run to its end between any two: the thread waits while it prints.    *)
(* Cells and colours are left out.                                          *)
(***************************************************************************)
EXTENDS Integers

CONSTANTS
    VGA_ROWS, VGA_COLS,
    EchoPrefix          \* letters the handler prints before the key, "[kbd]"

ASSUME ConsoleAssumption ==
    /\ VGA_ROWS \in Nat \ {0, 1} /\ VGA_COLS \in Nat \ {0} /\ EchoPrefix \in Nat \ {0}

VARIABLES
    vga_cursor_row, vga_cursor_col,
    step,               \* where in vga_putchar or vga_clear the thread is
    loaded,             \* the static it is about to change, as it was read
    echo                \* characters the handler still has to print
cursor == <<vga_cursor_row, vga_cursor_col>>
consoleVars == <<cursor, step, loaded, echo>>

ConsoleInit ==
    vga_cursor_row = 0 /\ vga_cursor_col = 0 /\ step = "rest" /\ loaded = 0 /\ echo = 0

-----------------------------------------------------------------------------
(* The keyboard handler: kprintf("[kbd]%c", c), without interruption.       *)

Scrolled(row) == IF row >= VGA_ROWS THEN VGA_ROWS - 1 ELSE row

PutWhole(c) ==
    /\ vga_cursor_row' = Scrolled(IF c = "newline" \/ (c = "letter" /\ vga_cursor_col + 1 >= VGA_COLS)
                                   THEN vga_cursor_row + 1 ELSE vga_cursor_row)
    /\ vga_cursor_col' = CASE c = "newline" -> 0
                            [] c = "backspace" -> IF vga_cursor_col > 0 THEN vga_cursor_col - 1 ELSE vga_cursor_col
                            [] c = "letter" -> IF vga_cursor_col + 1 >= VGA_COLS THEN 0 ELSE vga_cursor_col + 1

KeyArrives == echo = 0 /\ echo' = EchoPrefix + 1 /\ UNCHANGED <<cursor, step, loaded>>

\* The prefix, then the key.
EchoKey ==
    /\ echo > 0 /\ echo' = echo - 1 /\ UNCHANGED <<step, loaded>>
    /\ \E c \in IF echo > 1 THEN {"letter"} ELSE {"letter", "newline", "backspace"} : PutWhole(c)

-----------------------------------------------------------------------------
(* The thread.                                                              *)

Go(from, to) == step = from /\ step' = to /\ echo = 0 /\ UNCHANGED echo

\* What kputs prints next, or the shell's "clear".
kputchar ==
    /\ \E next \in {"loadCol", "newline", "return", "backspace", "clearRow"} : Go("rest", next)
    /\ UNCHANGED <<cursor, loaded>>

SetCol(col) == vga_cursor_col' = col /\ UNCHANGED <<vga_cursor_row, loaded>>
SetRow(row) == vga_cursor_row' = row /\ UNCHANGED <<vga_cursor_col, loaded>>

PutLetter ==
    \/ Go("loadCol", "storeCol") /\ loaded' = vga_cursor_col /\ UNCHANGED cursor
    \/ Go("storeCol", "wrap") /\ SetCol(loaded + 1)
    \/ Go("wrap", "newline") /\ vga_cursor_col >= VGA_COLS /\ UNCHANGED <<cursor, loaded>>
    \/ Go("wrap", "check") /\ vga_cursor_col < VGA_COLS /\ UNCHANGED <<cursor, loaded>>

PutNewline ==
    \/ Go("newline", "loadRow") /\ SetCol(0)
    \/ Go("loadRow", "storeRow") /\ loaded' = vga_cursor_row /\ UNCHANGED cursor
    \/ Go("storeRow", "check") /\ SetRow(loaded + 1)

PutReturn == Go("return", "check") /\ SetCol(0)

PutBackspace ==
    \/ Go("backspace", "loadBack") /\ vga_cursor_col > 0 /\ UNCHANGED <<cursor, loaded>>
    \/ Go("backspace", "check") /\ vga_cursor_col <= 0 /\ UNCHANGED <<cursor, loaded>>
    \/ Go("loadBack", "storeBack") /\ loaded' = vga_cursor_col /\ UNCHANGED cursor
    \/ Go("storeBack", "check") /\ SetCol(loaded - 1)

\* Mutant: the row below the last one does not scroll yet.
ScrollOneRowLate ==
    \/ Go("check", "scroll") /\ vga_cursor_row > VGA_ROWS /\ UNCHANGED <<cursor, loaded>>
    \/ Go("check", "rest") /\ vga_cursor_row <= VGA_ROWS /\ UNCHANGED <<cursor, loaded>>
    \/ Go("scroll", "rest") /\ SetRow(VGA_ROWS - 1)

\* The rows are copied before the cursor is moved.
vga_scroll ==
    \/ Go("check", "scroll") /\ vga_cursor_row >= VGA_ROWS /\ UNCHANGED <<cursor, loaded>>
    \/ Go("check", "rest") /\ vga_cursor_row < VGA_ROWS /\ UNCHANGED <<cursor, loaded>>
    \/ Go("scroll", "rest") /\ SetRow(VGA_ROWS - 1)

vga_clear ==
    \/ Go("clearRow", "clearCol") /\ SetRow(0)
    \/ Go("clearCol", "rest") /\ SetCol(0)

ConsoleNext ==
    \/ KeyArrives \/ EchoKey
    \/ kputchar \/ PutLetter \/ PutNewline \/ PutReturn \/ PutBackspace \/ vga_scroll
    \/ vga_clear

-----------------------------------------------------------------------------
\* vga_putchar: whatever keys arrive between which of its steps, what it leaves
\* behind is the number of a cell of the screen, where the next character goes.
NextCellOnScreen ==
    step = "rest" => vga_cursor_row * VGA_COLS + vga_cursor_col \in 0 .. VGA_ROWS * VGA_COLS - 1

\* vga.c:102: "We do NOT wrap to the previous line on backspace at column 0".
BackspaceStaysInLine == vga_cursor_col >= 0

\* The console by itself.
ConsoleSpec == ConsoleInit /\ [][ConsoleNext]_consoleVars
=============================================================================
