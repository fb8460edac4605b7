------------------------------- MODULE Folding -------------------------------
(***************************************************************************)
(* What the folds of the community modules compute, for any operator: the   *)
(* last of a run of values that starts with the base and takes the elements *)
(* one by one. The operator and the choice of the next index are parameters *)
(* of the module, so that each fold has its own instance and the facts      *)
(* about it are of first order.                                             *)
(***************************************************************************)
EXTENDS Integers, FiniteSetTheorems, WellFoundedInduction, TLAPS

CONSTANTS op(_, _), pick(_)

\* Induction over the naturals, with the induction hypothesis as a set.
LEMMA SetOfNats ==
  ASSUME NEW T, 0 \in T, \A n \in Nat : n \in T => n + 1 \in T
  PROVE  \A n \in Nat : n \in T
<1> SUFFICES ASSUME Nat \ T # {} PROVE FALSE
  OBVIOUS
<1>1. PICK n \in Nat \ T : \A m \in Nat \ T : ~(<<m, n>> \in OpToRel(<, Nat))
  BY NatLessThanWellFounded, WFMin
<1>2. \A m \in Nat \ T : ~(m < n)
  BY <1>1 DEF OpToRel
<1>3. n \in Nat /\ n \notin T /\ n # 0
  OBVIOUS
<1>4. n - 1 \in Nat /\ n - 1 < n /\ (n - 1) + 1 = n
  BY <1>3
<1>5. n - 1 \in T
  BY <1>2, <1>4
<1> QED BY <1>3, <1>4, <1>5

\* The parts of 1 .. n are finite.
LEMMA PartsAreFinite ==
  ASSUME NEW n \in Nat, NEW A \in SUBSET (1 .. n)
  PROVE  IsFiniteSet(A) /\ Cardinality(A) \in Nat /\ Cardinality(A) <= n
<1> DEFINE D == 1 .. n
<1>1. IsFiniteSet(D) /\ Cardinality(D) = n
  BY FS_Interval
<1>2. A \in SUBSET D
  OBVIOUS
<1> HIDE DEF D
<1>3. IsFiniteSet(A) /\ Cardinality(A) <= n
  BY <1>1, <1>2, FS_Subset
<1> QED BY <1>3, FS_CardinalityType

\* Induction over the parts of 1 .. n.
LEMMA SetOfParts ==
  ASSUME NEW n \in Nat, NEW T, {} \in T,
         \A A \in SUBSET (1 .. n) : \A x \in 1 .. n : A \in T /\ x \notin A => A \cup {x} \in T
  PROVE  \A A \in SUBSET (1 .. n) : A \in T
<1> DEFINE N == {m \in Nat : \A A \in SUBSET (1 .. n) : Cardinality(A) = m => A \in T}
<1>1. \A A \in SUBSET (1 .. n) : IsFiniteSet(A) /\ Cardinality(A) \in Nat
  BY PartsAreFinite
<1>2. 0 \in N
  BY <1>1, FS_EmptySet
<1>3. ASSUME NEW m \in Nat, m \in N PROVE m + 1 \in N
  <2> SUFFICES ASSUME NEW A \in SUBSET (1 .. n), Cardinality(A) = m + 1 PROVE A \in T
    OBVIOUS
  <2>1. IsFiniteSet(A)
    BY <1>1
  <2>2. PICK x \in A : TRUE
    <3>1. Cardinality({}) = 0 /\ m + 1 # 0
      BY FS_EmptySet
    <3> QED BY <3>1
  <2>3. Cardinality(A \ {x}) = m
    <3>1. Cardinality(A \ {x}) = Cardinality(A) - 1
      BY <2>1, <2>2, FS_RemoveElement
    <3> QED BY <3>1
  <2>4. A \ {x} \in T /\ x \in 1 .. n /\ x \notin A \ {x} /\ A \ {x} \in SUBSET (1 .. n)
    BY <1>3, <2>2, <2>3
  <2>5. (A \ {x}) \cup {x} = A
    BY <2>2
  <2> QED BY <2>4, <2>5
<1>4. \A m \in Nat : m \in N
  <2> HIDE DEF N
  <2> QED BY <1>2, <1>3, SetOfNats
<1> QED BY <1>1, <1>4

-----------------------------------------------------------------------------
\* The recursive function by which a fold is defined.
Folds(g, base, seq) ==
    g = [s \in SUBSET DOMAIN seq |-> IF s = {} THEN base ELSE op(g[s \ {pick(s)}], seq[pick(s)])]
Folded(base, seq) == CHOOSE g : Folds(g, base, seq)

Picks(n) == \A s \in SUBSET (1 .. n) : s # {} => pick(s) \in s

\* There is such a function.
LEMMA FoldExists ==
  ASSUME NEW base, NEW seq, NEW n \in Nat, DOMAIN seq = 1 .. n, Picks(n)
  PROVE  Folds(Folded(base, seq), base, seq)
<1> DEFINE Small(m) == {s \in SUBSET (1 .. n) : Cardinality(s) <= m}
           Value(g, s) == IF s = {} THEN base ELSE op(g[s \ {pick(s)}], seq[pick(s)])
           Upto(g, m) == g = [s \in Small(m) |-> Value(g, s)]
           N == {m \in Nat : \E g : Upto(g, m)}
<1>1. \A A \in SUBSET (1 .. n) : IsFiniteSet(A) /\ Cardinality(A) \in Nat /\ Cardinality(A) <= n
  BY PartsAreFinite
<1>2. 0 \in N
  <2>1. \A s \in Small(0) : s = {}
    BY <1>1, FS_EmptySet
  <2>2. Upto([s \in Small(0) |-> base], 0)
    BY <2>1
  <2>3. 0 \in Nat /\ \E g : Upto(g, 0)
    <3> HIDE DEF Upto
    <3> QED BY <2>2
  <2> HIDE DEF Upto
  <2> QED BY <2>3
<1>3. ASSUME NEW m \in Nat, m \in N PROVE m + 1 \in N
  <2>1. PICK g : Upto(g, m)
    BY <1>3
  <2> DEFINE h == [s \in Small(m + 1) |-> Value(g, s)]
  <2>2. ASSUME NEW s \in Small(m) PROVE s \in Small(m + 1) /\ h[s] = g[s]
    <3>1. s \in Small(m + 1)
      BY <1>1
    <3>2. h[s] = Value(g, s)
      BY <3>1
    <3>3. g[s] = Value(g, s)
      BY <2>1
    <3> QED BY <3>1, <3>2, <3>3
  <2>3. ASSUME NEW s \in Small(m + 1) PROVE h[s] = Value(h, s)
    <3>1. CASE s = {}
      BY <3>1
    <3>2. CASE s # {}
      <4>1. pick(s) \in s
        BY <3>2 DEF Picks
      <4>2. IsFiniteSet(s)
        BY <1>1
      <4>3. Cardinality(s \ {pick(s)}) = Cardinality(s) - 1
        BY <4>1, <4>2, FS_RemoveElement
      <4>4. s \ {pick(s)} \in Small(m)
        <5>1. Cardinality(s) \in Nat /\ Cardinality(s) <= m + 1
          BY <1>1
        <5>2. Cardinality(s \ {pick(s)}) <= m
          BY <4>3, <5>1
        <5> QED BY <5>2
      <4> QED BY <2>2, <3>2, <4>4
    <3> QED BY <3>1, <3>2
  <2>4. Upto(h, m + 1)
    <3>1. \A s \in Small(m + 1) : h[s] = [t \in Small(m + 1) |-> Value(h, t)][s]
      BY <2>3
    <3>2. h = [t \in Small(m + 1) |-> Value(h, t)]
      <4> HIDE DEF Small, Value
      <4> QED BY <3>1
    <3> QED BY <3>2
  <2>5. m + 1 \in Nat /\ \E k : Upto(k, m + 1)
    <3> HIDE DEF h, Upto
    <3> QED BY <2>4
  <2> HIDE DEF Upto
  <2> QED BY <2>5
<1>4. n \in N
  <2> HIDE DEF N
  <2> QED BY <1>2, <1>3, SetOfNats
<1>5. Small(n) = SUBSET (1 .. n)
  BY <1>1
<1>6. \E g : Folds(g, base, seq)
  BY <1>4, <1>5 DEF Folds
<1> QED BY <1>6 DEF Folded

\* A part of 1 .. n has a largest element.
LEMMA HasLargest ==
  ASSUME NEW n \in Nat, NEW s \in SUBSET (1 .. n), s # {}
  PROVE  \E x \in s : \A y \in s : y <= x
<1> DEFINE Largest == \E x \in s : \A y \in s : y <= x
           N == {m \in Nat : (\A y \in s : y <= m) => Largest}
<1>1. 0 \in N
  <2>1. PICK y : y \in s
    OBVIOUS
  <2>2. y \in 1 .. n
    BY <2>1
  <2>3. ~(y <= 0)
    BY <2>2
  <2> HIDE DEF Largest
  <2> QED BY <2>1, <2>3
<1>2. ASSUME NEW m \in Nat, m \in N PROVE m + 1 \in N
  <2>1. (\A y \in s : y <= m) => Largest
    BY <1>2
  <2>2. (\A y \in s : y <= m + 1) => Largest
    <3>1. CASE m + 1 \in s
      BY <3>1
    <3>2. CASE m + 1 \notin s
      <4>1. ASSUME NEW y \in s, y <= m + 1 PROVE y <= m
        BY <3>2, <4>1
      <4> QED BY <2>1, <4>1
    <3> QED BY <3>1, <3>2
  <2> HIDE DEF Largest
  <2> QED BY <2>2
<1>3. n \in N
  <2> HIDE DEF N
  <2> QED BY <1>1, <1>2, SetOfNats
<1> QED BY <1>3

\* The fold goes down from n, and so computes upwards.
Downwards(n) == Picks(n) /\ \A i \in 1 .. n : pick(1 .. i) = i

\* r is the run of values of the fold over a sequence of length n.
Run(r, base, seq, n) ==
    /\ r[0] = base
    /\ \A i \in 1 .. n : r[i] = op(r[i - 1], seq[i])
    /\ Folded(base, seq)[1 .. n] = r[n]

\* A fold that takes the largest index first, as FoldLeft does, is the end of a run.
THEOREM FoldRuns ==
  ASSUME NEW base, NEW seq, NEW n \in Nat, DOMAIN seq = 1 .. n, Downwards(n)
  PROVE  \E r : Run(r, base, seq, n)
<1>0. PICK g : g = Folded(base, seq)
  OBVIOUS
<1>1. \A s \in SUBSET (1 .. n) : g[s] = IF s = {} THEN base ELSE op(g[s \ {pick(s)}], seq[pick(s)])
  <2>1. Folds(g, base, seq)
    BY <1>0, FoldExists DEF Downwards
  <2> QED BY <2>1 DEF Folds
<1> DEFINE r == [i \in 0 .. n |-> g[1 .. i]]
<1>2. r[0] = base
  <2>1. 1 .. 0 = {} /\ {} \in SUBSET (1 .. n) /\ 0 \in 0 .. n
    OBVIOUS
  <2>2. r[0] = g[{}]
    BY <2>1
  <2> HIDE DEF r
  <2> QED BY <1>1, <2>1, <2>2
<1>3. ASSUME NEW i \in 1 .. n PROVE r[i] = op(r[i - 1], seq[i])
  <2>1. i \in Nat /\ i - 1 \in Nat /\ i - 1 \in 0 .. n /\ i \in 0 .. n
    OBVIOUS
  <2>2. 1 .. i \in SUBSET (1 .. n) /\ i \in 1 .. i
    OBVIOUS
  <2>3. (1 .. i) \ {i} = 1 .. i - 1 /\ pick(1 .. i) = i
    BY <2>1 DEF Downwards
  <2>4. g[1 .. i] = op(g[1 .. i - 1], seq[i])
    BY <1>1, <2>2, <2>3
  <2> QED BY <2>1, <2>4
<1>4. g[1 .. n] = r[n]
  OBVIOUS
<1> HIDE DEF r
<1> QED BY <1>0, <1>2, <1>3, <1>4 DEF Run
=============================================================================
