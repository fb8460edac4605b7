---------------------------- MODULE KeyboardProofs ----------------------------
(***************************************************************************)
(* Proofs about the keyboard ring, for every size of the ring and of the    *)
(* line buffer, every key table and every set of characters.                *)
(***************************************************************************)
EXTENDS Keyboard, SequenceTheorems, TLAPS

N == KEYBUF_SIZE

\* What the remainder in keyboard.c computes for an index of the ring.
LEMMA AfterIndex ==
    ASSUME NEW i \in Indices
    PROVE  /\ After(i) = IF i + 1 = N THEN 0 ELSE i + 1
           /\ After(i) \in Indices
BY KeyboardAssumption DEF After, Indices, N

\* The same for the sum of two indices.
LEMMA Wrap ==
    ASSUME NEW t \in Indices, NEW i \in Indices
    PROVE  /\ (t + i) % N = IF t + i < N THEN t + i ELSE t + i - N
           /\ (t + i) % N \in Indices
BY KeyboardAssumption DEF Indices, N

\* The slot of the i-th waiting character.
LEMMA SlotIndex ==
    ASSUME keybuf_tail \in Indices, NEW i \in Indices
    PROVE  /\ Slot(i) = IF keybuf_tail + i < N THEN keybuf_tail + i
                        ELSE keybuf_tail + i - N
           /\ Slot(i) \in Indices
BY Wrap, KeyboardAssumption DEF Slot, Indices, N

\* With an empty ring every reader polls the serial port or sleeps.
LEMMA ReaderFields == ASSUME reader \in Readers PROVE reader.empty \in {"serial", "halt"}
BY DEF Readers, shell_readline, editor_readline, browser_readline

KInv == TypeOK /\ LoadedIsOldest /\ LineFits

\* The reader starts with an empty ring and an empty line.
LEMMA KInvInit == Init => KInv
<1> SUFFICES ASSUME Init PROVE KInv
    OBVIOUS
<1>1. <<>> \in Seq(Printable) /\ Len(<<>>) = 0
    BY EmptySeq
<1>2. TypeOK
    <2>1. line \in Seq(Printable)
        BY <1>1 DEF Init
    <2>2. keybuf_head \in Indices /\ keybuf_tail \in Indices
        BY KeyboardAssumption DEF Init, Indices
    <2>3. keybuf \in [Indices -> Chars \cup {NUL}]
        BY DEF Init
    <2>4. ch \in Chars \cup {NUL} /\ shift_down \in BOOLEAN
        BY DEF Init
    <2>5. pc \in {"poll", "load", "advance", "serial", "halt", "edit", "run"}
        BY DEF Init
    <2>6. reader \in Readers
        BY DEF Init, Readers
    <2> QED BY <2>1, <2>2, <2>3, <2>4, <2>5, <2>6 DEF TypeOK
<1>3. LineFits
    BY <1>1, KeyboardAssumption DEF Init, LineFits
<1>4. LoadedIsOldest
    BY DEF Init, LoadedIsOldest
<1> QED BY <1>2, <1>3, <1>4 DEF KInv

\* Every step keeps the types.
LEMMA TypeStep == TypeOK /\ [Next]_vars => TypeOK'
<1> SUFFICES ASSUME TypeOK, [Next]_vars PROVE TypeOK'
    OBVIOUS
<1> USE KeyboardAssumption DEF TypeOK
<1>1. ASSUME NEW released \in BOOLEAN, ShiftInterrupt(released) PROVE TypeOK'
    BY <1>1 DEF ShiftInterrupt, Wake
<1>2. ASSUME NEW released \in BOOLEAN, NEW key \in Keys, KeyInterrupt(key, released)
      PROVE  TypeOK'
    <2>1. Translate(key) # NUL => Translate(key) \in Chars
        BY DEF Translate
    <2>2. keybuf' \in [Indices -> Chars \cup {NUL}] /\ keybuf_head' \in Indices
        BY <1>2, <2>1, AfterIndex DEF KeyInterrupt, keyboard_buffer_push, Store
    <2>3. pc' \in {"poll", "load", "advance", "serial", "halt", "edit", "run"}
        BY <1>2 DEF KeyInterrupt, Wake
    <2> QED BY <1>2, <2>2, <2>3 DEF KeyInterrupt
<1>3. CASE TimerInterrupt
    BY <1>3 DEF TimerInterrupt, Wake, ring
<1>4. CASE GetcharCompare \/ GetcharLoad
    <2>1. reader.empty \in {"serial", "halt"}
        BY ReaderFields
    <2> QED BY <1>4, <2>1 DEF GetcharCompare, GetcharLoad, ring
<1>5. CASE GetcharAdvance
    BY <1>5, AfterIndex DEF GetcharAdvance
<1>6. CASE PollSerial
    BY <1>6 DEF PollSerial, ring
<1>7. CASE EndLine \/ NextLine
    <2>1. line' \in Seq(Printable)
        BY <1>7, EmptySeq DEF EndLine, NextLine
    <2> QED BY <1>7, <2>1 DEF EndLine, NextLine, ring
<1>8. CASE EraseChar
    <2>1. line' \in Seq(Printable)
        BY <1>8 DEF EraseChar
    <2> QED BY <1>8, <2>1 DEF EraseChar, ring
<1>9. CASE AddChar
    BY <1>9 DEF AddChar, ring
<1>10. CASE UNCHANGED vars
    BY <1>10 DEF vars
<1> QED BY <1>1, <1>2, <1>3, <1>4, <1>5, <1>6, <1>7, <1>8, <1>9, <1>10
        DEF Next, Reader, Interrupt

CountsRight ==
    /\ Count \in Nat
    /\ Count < N
    /\ Count > 0 <=> keybuf_head # keybuf_tail
    /\ Queue \in Seq(Chars \cup {NUL})
    /\ Len(Queue) = Count
    /\ Count > 0 => Queue[1] = keybuf[keybuf_tail]

\* The ring holds at most KEYBUF_SIZE - 1 characters, and it holds one exactly
\* when the two indices differ.
LEMMA CountFacts == TypeOK => CountsRight
<1> SUFFICES ASSUME TypeOK PROVE CountsRight
    OBVIOUS
<1> USE KeyboardAssumption DEF TypeOK
<1>1. Count \in Nat /\ Count < N /\ (Count > 0 <=> keybuf_head # keybuf_tail)
    BY DEF Count, Indices, N
<1>2. \A i \in 1 .. Count : keybuf[Slot(i - 1)] \in Chars \cup {NUL}
    <2> TAKE i \in 1 .. Count
    <2>1. i - 1 \in Indices
        BY <1>1 DEF Indices, N
    <2> QED BY <2>1, SlotIndex
<1>3. Queue \in Seq(Chars \cup {NUL}) /\ Len(Queue) = Count
    BY <1>1, <1>2 DEF Queue
<1>4. 0 \in Indices /\ Slot(0) = keybuf_tail
    BY SlotIndex DEF Indices, N
<1>5. Count > 0 => Queue[1] = keybuf[keybuf_tail]
    BY <1>1, <1>4 DEF Queue
<1> QED BY <1>1, <1>3, <1>5 DEF CountsRight

\* A push into a ring that has room appends to the queue: the slot it writes is
\* none of those that hold a waiting character.
LEMMA PushAppends ==
    ASSUME TypeOK, TypeOK', NEW c \in Chars,
           After(keybuf_head) # keybuf_tail,
           keybuf' = [keybuf EXCEPT ![keybuf_head] = c],
           keybuf_head' = After(keybuf_head),
           UNCHANGED keybuf_tail
    PROVE  /\ Count < N - 1
           /\ Count' = Count + 1
           /\ Queue' = Append(Queue, c)
<1> DEFINE S == Chars \cup {NUL}
<1>h. /\ KEYBUF_SIZE \in Nat /\ keybuf_head \in Nat /\ keybuf_head < KEYBUF_SIZE
      /\ keybuf_tail \in Nat /\ keybuf_tail < KEYBUF_SIZE
      /\ Indices = 0 .. KEYBUF_SIZE - 1
    BY KeyboardAssumption DEF TypeOK, Indices
<1>a. After(keybuf_head) = IF keybuf_head + 1 = KEYBUF_SIZE THEN 0 ELSE keybuf_head + 1
    BY AfterIndex DEF TypeOK, N
<1>1. Count < N - 1 /\ Count' = Count + 1
    BY <1>h, <1>a DEF Count, N
<1>2. Count \in Nat /\ Queue \in Seq(S) /\ Len(Queue) = Count
    BY CountFacts DEF CountsRight
<1>3. \A i \in 1 .. Count : Slot(i - 1) \in Indices /\ Slot(i - 1) # keybuf_head
    <2> TAKE i \in 1 .. Count
    <2>1. i - 1 \in Indices
        BY <1>h, <1>1, <1>2 DEF N
    <2>2. /\ Slot(i - 1) = IF keybuf_tail + (i - 1) < N THEN keybuf_tail + (i - 1)
                           ELSE keybuf_tail + (i - 1) - N
          /\ Slot(i - 1) \in Indices
        BY <2>1, SlotIndex DEF TypeOK
    <2> QED BY <1>h, <2>1, <2>2 DEF Count, N
<1>4. Slot(Count) = keybuf_head
    <2>1. Count \in Indices
        BY <1>h, <1>1, <1>2 DEF N
    <2>2. Slot(Count) = IF keybuf_tail + Count < N THEN keybuf_tail + Count
                        ELSE keybuf_tail + Count - N
        BY <2>1, SlotIndex DEF TypeOK
    <2> QED BY <1>h, <2>2 DEF Count, N
<1>5. Queue' = [i \in 1 .. Count + 1 |-> keybuf'[Slot(i - 1)]]
    BY <1>1 DEF Queue, Slot
<1>6. \A i \in 1 .. Count : keybuf'[Slot(i - 1)] = Queue[i]
    BY <1>3 DEF Queue, TypeOK
<1>7. keybuf'[Slot(Count)] = c
    BY <1>4 DEF TypeOK
<1>8. /\ Append(Queue, c) \in Seq(S)
      /\ Len(Append(Queue, c)) = Count + 1
      /\ \A i \in 1 .. Count + 1 : Append(Queue, c)[i] = IF i = Count + 1 THEN c ELSE Queue[i]
    BY <1>2
<1>9. Queue' \in Seq(S) /\ Len(Queue') = Count + 1
    <2>1. CountsRight'
        BY CountFacts, PTL
    <2> QED BY <2>1, <1>1 DEF CountsRight
<1>10. \A i \in 1 .. Count + 1 : Queue'[i] = Append(Queue, c)[i]
    <2> TAKE i \in 1 .. Count + 1
    <2>1. CASE i = Count + 1
        <3>1. i - 1 = Count
            BY <2>1, <1>2
        <3> QED BY <1>2, <1>5, <1>7, <1>8, <2>1, <3>1
    <2>2. CASE i # Count + 1
        <3>1. i \in 1 .. Count
            BY <2>2, <1>2
        <3> QED BY <1>2, <1>5, <1>6, <1>8, <2>2, <3>1
    <2> QED BY <2>1, <2>2
<1>11. Queue' = Append(Queue, c)
    BY <1>8, <1>9, <1>10, SeqEqual
<1> QED BY <1>1, <1>11

\* Advancing the tail of a ring that is not empty removes the oldest character.
LEMMA AdvanceTakes ==
    ASSUME TypeOK, TypeOK', Count > 0,
           keybuf_tail' = After(keybuf_tail),
           UNCHANGED <<keybuf, keybuf_head>>
    PROVE  Queue # <<>> /\ Queue' = Tail(Queue)
<1> DEFINE S == Chars \cup {NUL}
<1>h. /\ KEYBUF_SIZE \in Nat /\ keybuf_head \in Nat /\ keybuf_head < KEYBUF_SIZE
      /\ keybuf_tail \in Nat /\ keybuf_tail < KEYBUF_SIZE
      /\ Indices = 0 .. KEYBUF_SIZE - 1
    BY KeyboardAssumption DEF TypeOK, Indices
<1>a. After(keybuf_tail) = IF keybuf_tail + 1 = KEYBUF_SIZE THEN 0 ELSE keybuf_tail + 1
    BY AfterIndex DEF TypeOK, N
<1>1. Count' = Count - 1
    BY <1>h, <1>a DEF Count
<1>2. Count \in Nat /\ Queue \in Seq(S) /\ Len(Queue) = Count /\ Count < KEYBUF_SIZE
    BY CountFacts DEF CountsRight, N
<1>3. \A i \in 1 .. Count - 1 : Slot(i - 1)' = Slot(i)
    <2> TAKE i \in 1 .. Count - 1
    <2>1. i \in Indices /\ i - 1 \in Indices
        BY <1>h, <1>2
    <2>2. Slot(i) = IF keybuf_tail + i < N THEN keybuf_tail + i ELSE keybuf_tail + i - N
        BY <2>1, SlotIndex DEF TypeOK
    <2>3. Slot(i - 1)' = IF keybuf_tail' + (i - 1) < N THEN keybuf_tail' + (i - 1)
                         ELSE keybuf_tail' + (i - 1) - N
        <3>1. Slot(i - 1)' = (keybuf_tail' + (i - 1)) % N
            BY DEF Slot, N
        <3> QED BY <2>1, <3>1, Wrap DEF TypeOK
    <2> QED BY <1>h, <1>a, <2>1, <2>2, <2>3 DEF N
<1>4. Queue' = [i \in 1 .. Count - 1 |-> keybuf[Slot(i - 1)']]
    BY <1>1 DEF Queue
<1>5. Queue # <<>>
    BY <1>2, EmptySeq
<1>6. /\ Tail(Queue) \in Seq(S)
      /\ Len(Tail(Queue)) = Count - 1
      /\ \A i \in 1 .. Count - 1 : Tail(Queue)[i] = Queue[i + 1]
    BY <1>2, <1>5, HeadTailProperties
<1>7. Queue' \in Seq(S) /\ Len(Queue') = Count - 1
    <2>1. CountsRight'
        BY CountFacts, PTL
    <2> QED BY <2>1, <1>1 DEF CountsRight
<1>8. \A i \in 1 .. Count - 1 : Queue'[i] = Tail(Queue)[i]
    <2> TAKE i \in 1 .. Count - 1
    <2>1. i + 1 \in 1 .. Count /\ (i + 1) - 1 = i
        BY <1>2
    <2>2. Queue[i + 1] = keybuf[Slot(i)]
        BY <2>1 DEF Queue
    <2> QED BY <1>3, <1>4, <1>6, <2>2
<1>9. Queue' = Tail(Queue)
    BY <1>6, <1>7, <1>8, SeqEqual
<1> QED BY <1>5, <1>9

-----------------------------------------------------------------------------

\* LoadedIsOldest in terms of the ring's own variables.
LEMMA LoadedRing ==
    TypeOK => (LoadedIsOldest <=>
        /\ pc \in {"load", "advance"} => keybuf_head # keybuf_tail
        /\ pc = "advance" => ch = keybuf[keybuf_tail])
BY CountFacts DEF LoadedIsOldest, CountsRight

\* Steps that leave the ring alone and do not enter keyboard_getchar's last two
\* steps keep LoadedIsOldest.
LEMMA LoadedStep == KInv /\ TypeOK' /\ [Next]_vars => LoadedIsOldest'
<1> SUFFICES ASSUME KInv, TypeOK', [Next]_vars PROVE LoadedIsOldest'
    OBVIOUS
<1> DEFINE L == /\ pc \in {"load", "advance"} => keybuf_head # keybuf_tail
                /\ pc = "advance" => ch = keybuf[keybuf_tail]
<1>0. TypeOK /\ L
    BY LoadedRing DEF KInv
<1>00. L' => LoadedIsOldest'
    <2>1. (TypeOK => (LoadedIsOldest <=>
            /\ pc \in {"load", "advance"} => keybuf_head # keybuf_tail
            /\ pc = "advance" => ch = keybuf[keybuf_tail]))'
        BY LoadedRing, PTL
    <2> QED BY <2>1
<1> SUFFICES L'
    BY <1>00
<1>1. ASSUME NEW released \in BOOLEAN, ShiftInterrupt(released) PROVE L'
    BY <1>0, <1>1 DEF ShiftInterrupt, Wake
<1>2. ASSUME NEW released \in BOOLEAN, NEW key \in Keys, KeyInterrupt(key, released)
      PROVE  L'
    <2>1. pc' \in {"load", "advance"} => pc' = pc
        BY <1>2 DEF KeyInterrupt, Wake
    <2>2. keybuf_tail' = keybuf_tail /\ ch' = ch
        BY <1>2 DEF KeyInterrupt
    <2>3. CASE UNCHANGED <<keybuf, keybuf_head>>
        BY <1>0, <2>1, <2>2, <2>3
    <2>4. CASE /\ After(keybuf_head) # keybuf_tail
               /\ keybuf' = [keybuf EXCEPT ![keybuf_head] = Translate(key)]
               /\ keybuf_head' = After(keybuf_head)
        BY <1>0, <2>1, <2>2, <2>4 DEF TypeOK
    <2> QED BY <1>2, <2>3, <2>4 DEF KeyInterrupt, keyboard_buffer_push, Store
<1>3. CASE TimerInterrupt
    BY <1>0, <1>3 DEF TimerInterrupt, Wake, ring
<1>4. CASE GetcharCompare
    <2>1. reader.empty \in {"serial", "halt"}
        BY <1>0, ReaderFields DEF TypeOK
    <2> QED BY <1>0, <1>4, <2>1 DEF GetcharCompare, ring
<1>5. CASE GetcharLoad
    BY <1>0, <1>5 DEF GetcharLoad, ring
<1>6. CASE GetcharAdvance
    BY <1>6 DEF GetcharAdvance
<1>7. CASE PollSerial
    BY <1>7 DEF PollSerial, ring
<1>8. CASE EndLine \/ NextLine \/ EraseChar \/ AddChar
    BY <1>8 DEF EndLine, NextLine, EraseChar, AddChar, ring
<1>9. CASE UNCHANGED vars
    BY <1>0, <1>9 DEF vars
<1> QED BY <1>1, <1>2, <1>3, <1>4, <1>5, <1>6, <1>7, <1>8, <1>9
        DEF Next, Reader, Interrupt

\* Only AddChar makes the line longer, and only below the bound.
LEMMA LineStep == KInv /\ [Next]_vars => LineFits'
<1> SUFFICES ASSUME KInv, [Next]_vars PROVE LineFits'
    OBVIOUS
<1>0. line \in Seq(Printable) /\ Len(line) \in Nat /\ Len(line) < LINE_MAX /\ LINE_MAX \in Nat
    BY KeyboardAssumption, LenProperties DEF KInv, TypeOK, LineFits
<1>1. CASE UNCHANGED line
    BY <1>0, <1>1 DEF LineFits
<1>2. CASE EraseChar
    <2>1. CASE line = <<>>
        BY <1>0, <1>2, <2>1 DEF EraseChar, LineFits
    <2>2. CASE line # <<>>
        <3>1. line' = SubSeq(line, 1, Len(line) - 1) /\ Len(line) \in Nat \ {0}
            BY <1>0, <1>2, <2>2, EmptySeq DEF EraseChar
        <3>2. \A i \in 1 .. Len(line) - 1 : line[i] \in Printable
            BY <1>0, ElementOfSeq
        <3>3. Len(line') = IF 1 <= Len(line) - 1 THEN Len(line) - 1 ELSE 0
            BY <3>1, <3>2, SubSeqProperties
        <3> QED BY <1>0, <3>1, <3>3 DEF LineFits
    <2> QED BY <2>1, <2>2
<1>3. CASE AddChar
    <2>1. CASE UNCHANGED line
        BY <1>1, <2>1
    <2>2. CASE line' = Append(line, Typed(ch)) /\ Typed(ch) \in Printable
               /\ Len(line) < LINE_MAX - 1
        BY <1>0, <2>2 DEF LineFits
    <2> QED BY <1>3, <2>1, <2>2 DEF AddChar
<1>4. CASE NextLine
    <2>1. Len(line') = 0
        BY <1>4, EmptySeq DEF NextLine
    <2> QED BY <1>0, <2>1 DEF LineFits
<1> QED BY <1>1, <1>2, <1>3, <1>4
        DEF Next, Reader, Interrupt, ShiftInterrupt, KeyInterrupt, TimerInterrupt,
            GetcharCompare, GetcharLoad, GetcharAdvance, PollSerial, EndLine, vars

\* The three parts of KInv are preserved together.
LEMMA KInvStep == KInv /\ [Next]_vars => KInv'
<1> SUFFICES ASSUME KInv, [Next]_vars PROVE KInv'
    OBVIOUS
<1>1. TypeOK'
    BY TypeStep DEF KInv
<1> QED BY <1>1, LoadedStep, LineStep DEF KInv

\* Every reachable state is well typed, the character keyboard_getchar holds when
\* it advances the tail is the oldest one, and the line fits its buffer.
THEOREM KeyboardInvariant == Spec => [](TypeOK /\ LoadedIsOldest /\ LineFits)
<1>1. KInv => TypeOK /\ LoadedIsOldest /\ LineFits
    BY DEF KInv
<1> QED BY KInvInit, KInvStep, <1>1, PTL DEF Spec

\* What the reader holds when it frees a slot is what was in it: the instance of
\* KeyboardInvariant a reader of keyboard_getchar asks about.
THEOREM LoadedStaysOldest == Spec => []LoadedIsOldest
BY KeyboardInvariant, PTL

\* readline, for buffers of any size: the line always leaves room for the NUL in the
\* caller's buffer, whatever is typed, echoed or erased.
THEOREM LineAlwaysFits == Spec => []LineFits
BY KeyboardInvariant, PTL

\* A step of the system is a step of the abstract queue or leaves it alone.
LEMMA FifoStep ==
    ASSUME KInv, TypeOK', [Next]_vars
    PROVE  [Fifo!Next]_Queue
<1>0. TypeOK /\ LoadedIsOldest
    BY DEF KInv
<1>1. CASE UNCHANGED <<keybuf, keybuf_head, keybuf_tail>>
    <2>1. UNCHANGED Queue
        BY <1>1 DEF Queue, Count, Slot
    <2> QED BY <2>1
<1>2. ASSUME NEW released \in BOOLEAN, NEW key \in Keys, KeyInterrupt(key, released)
      PROVE  [Fifo!Next]_Queue
    <2>1. keybuf_tail' = keybuf_tail
        BY <1>2 DEF KeyInterrupt
    <2>2. CASE UNCHANGED <<keybuf, keybuf_head>>
        BY <1>1, <2>1, <2>2
    <2>3. CASE /\ Translate(key) # NUL
               /\ After(keybuf_head) # keybuf_tail
               /\ keybuf' = [keybuf EXCEPT ![keybuf_head] = Translate(key)]
               /\ keybuf_head' = After(keybuf_head)
        <3>1. Translate(key) \in Chars
            BY <2>3, KeyboardAssumption DEF Translate
        <3>2. Count < KEYBUF_SIZE - 1 /\ Queue' = Append(Queue, Translate(key))
            BY <1>0, <2>1, <2>3, <3>1, PushAppends DEF N
        <3>3. Len(Queue) = Count
            BY <1>0, CountFacts DEF CountsRight
        <3> QED BY <3>1, <3>2, <3>3 DEF Fifo!Next, Fifo!Put
    <2> QED BY <1>2, <2>2, <2>3 DEF KeyInterrupt, keyboard_buffer_push, Store
<1>3. CASE GetcharAdvance
    <2>1. Count > 0
        BY <1>0, <1>3 DEF LoadedIsOldest, GetcharAdvance
    <2>2. Queue # <<>> /\ Queue' = Tail(Queue)
        BY <1>0, <1>3, <2>1, AdvanceTakes DEF GetcharAdvance
    <2> QED BY <2>2 DEF Fifo!Next, Fifo!Get
<1> QED BY <1>1, <1>2, <1>3
        DEF Next, Reader, Interrupt, ShiftInterrupt, TimerInterrupt, GetcharCompare,
            GetcharLoad, PollSerial, EndLine, EraseChar, AddChar, NextLine, ring, vars

\* The ring implements the bounded queue, whatever its size and however the
\* handler and the reader interleave.
THEOREM RingImplementsFifo == Spec => RingIsFifo
<1>1. Init => Fifo!Init
    <2> SUFFICES ASSUME Init PROVE Queue = <<>>
        BY DEF Fifo!Init
    <2>1. Count = 0
        BY DEF Init, Count
    <2> QED BY <2>1 DEF Queue
<1>2. KInv /\ KInv' /\ [Next]_vars => [Fifo!Next]_Queue
    BY FifoStep DEF KInv
<1>3. Spec => []KInv
    BY KInvInit, KInvStep, PTL DEF Spec
<1> QED BY <1>1, <1>2, <1>3, PTL DEF Spec, RingIsFifo, Fifo!Spec

\* keyboard_buffer_push drops a character only when the ring is really full.
THEOREM NoEarlyDrop == Spec => DropsOnlyWhenFull
<1>1. ASSUME KInv, KInv', [Next]_vars
      PROVE  [\A key \in Keys :
                KeyInterrupt(key, FALSE) /\ Translate(key) # NUL /\ Queue' = Queue
                    => Count = KEYBUF_SIZE - 1]_vars
    <2> SUFFICES ASSUME NEW key \in Keys, KeyInterrupt(key, FALSE),
                        Translate(key) # NUL, Queue' = Queue
                 PROVE  Count = KEYBUF_SIZE - 1
        OBVIOUS
    <2>0. TypeOK /\ TypeOK' /\ keybuf_tail' = keybuf_tail /\ Translate(key) \in Chars
        <3>1. TypeOK /\ TypeOK' /\ keybuf_tail' = keybuf_tail
            BY <1>1 DEF KInv, KeyInterrupt
        <3>2. Translate(key) \in Chars
            BY KeyboardAssumption DEF Translate
        <3> QED BY <3>1, <3>2
    <2>1. CASE After(keybuf_head) # keybuf_tail
        <3>1. Queue' = Append(Queue, Translate(key))
            BY <2>0, <2>1, PushAppends DEF KeyInterrupt, keyboard_buffer_push, Store
        <3>2. Queue \in Seq(Chars \cup {NUL})
            BY <2>0, CountFacts DEF CountsRight
        <3>3. Len(Queue') = Len(Queue) + 1 /\ Len(Queue) \in Nat
            BY <2>0, <3>1, <3>2
        <3> QED BY <3>3
    <2>2. CASE After(keybuf_head) = keybuf_tail
        <3>1. keybuf_tail = IF keybuf_head + 1 = KEYBUF_SIZE THEN 0 ELSE keybuf_head + 1
            BY <2>0, <2>2, AfterIndex DEF TypeOK, N
        <3>2. KEYBUF_SIZE \in Nat /\ keybuf_head \in Nat /\ keybuf_head < KEYBUF_SIZE
              /\ KEYBUF_SIZE > 0
            BY <2>0, KeyboardAssumption DEF TypeOK, Indices
        <3> QED BY <3>1, <3>2 DEF Count
    <2> QED BY <2>1, <2>2
<1>2. Spec => []KInv
    BY KInvInit, KInvStep, PTL DEF Spec
<1> QED BY <1>1, <1>2, PTL DEF Spec, DropsOnlyWhenFull

=============================================================================
