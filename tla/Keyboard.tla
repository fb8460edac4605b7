------------------------------- MODULE Keyboard -------------------------------
(***************************************************************************)
(* The keyboard ring of drivers/keyboard/keyboard.c between its two users:  *)
(* the IRQ1 handler, which fills it, and the line readers of the shell, the *)
(* editor and the file browser, which empty it character by character and   *)
(* sleep in `hlt` when there is nothing to do.                              *)
(*                                                                          *)
(* The handler runs through an interrupt gate, so it is one step; it may    *)
(* come between any two accesses of the reader to the shared state, so      *)
(* keyboard_getchar is three steps (compare, load, advance) and the reader  *)
(* may be interrupted between its last look at the ring and its `hlt`.      *)
(*                                                                          *)
(* The three readers are one loop over the same ring, on one thread; they   *)
(* differ in whether they poll the serial port and what they make of a tab. *)
(***************************************************************************)
EXTENDS Integers, Sequences

CONSTANTS
    KEYBUF_SIZE,        \* slots of the ring
    LINE_MAX,           \* size of the caller's line buffer, the final NUL included
    Keys,               \* the scancodes that are not a shift key
    Chars,              \* the characters the driver and the reader tell apart
    Ascii,              \* scancode_ascii: Keys -> Chars, NUL where the table holds 0
    AsciiShift,         \* scancode_ascii_shift
    SerialInput,        \* what may arrive on COM1
    Printable,          \* 32 .. 126
    NUL, Newline, Backspace, Tab, Space

ASSUME KeyboardAssumption ==
    /\ KEYBUF_SIZE \in Nat \ {0}
    /\ LINE_MAX \in Nat \ {0}
    /\ NUL \notin Chars
    /\ Ascii \in [Keys -> Chars \cup {NUL}]
    /\ AsciiShift \in [Keys -> Chars \cup {NUL}]
    /\ SerialInput \subseteq Chars
    /\ Printable \subseteq Chars
    /\ Space \in Printable

VARIABLES
    keybuf, keybuf_head, keybuf_tail, shift_down,
    pc,         \* where the reader stands
    reader,     \* which of the three loops is running
    ch,         \* its local ch: the character it holds, NUL when it holds none
    line        \* buffer[0 .. len)

ring == <<keybuf, keybuf_head, keybuf_tail, shift_down>>
vars == <<keybuf, keybuf_head, keybuf_tail, shift_down, pc, reader, ch, line>>

\* empty: where the loop goes when the ring is empty; tab: what it takes a tab for
shell_readline == [empty |-> "serial", tab |-> Space]
editor_readline == [empty |-> "halt", tab |-> Tab]
browser_readline == [empty |-> "halt", tab |-> Tab]
Readers == {shell_readline, editor_readline, browser_readline}

Indices == 0 .. KEYBUF_SIZE - 1

TypeOK ==
    /\ keybuf \in [Indices -> Chars \cup {NUL}]
    /\ keybuf_head \in Indices
    /\ keybuf_tail \in Indices
    /\ shift_down \in BOOLEAN
    /\ pc \in {"poll", "load", "advance", "serial", "halt", "edit", "run"}
    /\ reader \in Readers
    /\ ch \in Chars \cup {NUL}
    /\ line \in Seq(Printable)

Init ==
    /\ keybuf = [i \in Indices |-> NUL]
    /\ keybuf_head = 0
    /\ keybuf_tail = 0
    /\ shift_down = FALSE
    /\ pc = "poll"
    /\ reader = shell_readline
    /\ ch = NUL
    /\ line = <<>>

\* Mutant: the index does not wrap.
NoWrap(i) == i + 1

After(i) == (i + 1) % KEYBUF_SIZE

-----------------------------------------------------------------------------
(* The interrupt handlers.                                                  *)

\* hlt ends with the handler of any interrupt.
Wake == pc' = IF pc = "halt" THEN "poll" ELSE pc

Store(c) ==
    /\ keybuf' = [keybuf EXCEPT ![keybuf_head] = c]
    /\ keybuf_head' = After(keybuf_head)

\* Mutants: no test for a full ring; a test that misses the full ring when the
\* head is in the last slot; a test that gives up one slot too early.
PushAlways(c) == Store(c)
PushUnwrapped(c) ==
    IF keybuf_head + 1 = keybuf_tail THEN UNCHANGED <<keybuf, keybuf_head>> ELSE Store(c)
PushEarlyFull(c) ==
    IF After(After(keybuf_head)) = keybuf_tail \/ After(keybuf_head) = keybuf_tail
    THEN UNCHANGED <<keybuf, keybuf_head>> ELSE Store(c)

keyboard_buffer_push(c) ==
    IF After(keybuf_head) = keybuf_tail
    THEN UNCHANGED <<keybuf, keybuf_head>>
    ELSE Store(c)

\* keyboard_interrupt_handler: either shift key goes down or comes up
ShiftInterrupt(released) ==
    /\ shift_down' = ~released
    /\ Wake
    /\ UNCHANGED <<keybuf, keybuf_head, keybuf_tail, reader, ch, line>>

Translate(key) == IF shift_down THEN AsciiShift[key] ELSE Ascii[key]

\* keyboard_interrupt_handler: any other key
KeyInterrupt(key, released) ==
    /\ IF ~released /\ Translate(key) # NUL
       THEN keyboard_buffer_push(Translate(key))
       ELSE UNCHANGED <<keybuf, keybuf_head>>
    /\ Wake
    /\ UNCHANGED <<keybuf_tail, shift_down, reader, ch, line>>

\* timer_interrupt_handler, of which the reader only sees that hlt ends
TimerInterrupt ==
    /\ pc = "halt"
    /\ Wake
    /\ UNCHANGED <<ring, reader, ch, line>>

-----------------------------------------------------------------------------
(* keyboard_getchar: compare, load, advance.                                *)

\* Mutant: the indices compared as if they never wrapped.
CompareUnwrapped ==
    /\ pc = "poll"
    /\ pc' = IF keybuf_head <= keybuf_tail THEN reader.empty ELSE "load"
    /\ UNCHANGED <<ring, reader, ch, line>>

GetcharCompare ==
    /\ pc = "poll"
    /\ pc' = IF keybuf_head = keybuf_tail THEN reader.empty ELSE "load"
    /\ UNCHANGED <<ring, reader, ch, line>>

GetcharLoad ==
    /\ pc = "load"
    /\ ch' = keybuf[keybuf_tail]
    /\ pc' = "advance"
    /\ UNCHANGED <<ring, reader, line>>

GetcharAdvance ==
    /\ pc = "advance"
    /\ keybuf_tail' = After(keybuf_tail)
    /\ pc' = "edit"
    /\ UNCHANGED <<keybuf, keybuf_head, shift_down, reader, ch, line>>

-----------------------------------------------------------------------------
(* The loop around it.                                                      *)

\* kio_getchar: a byte is waiting on COM1, or the reader goes on to hlt
PollSerial ==
    /\ pc = "serial"
    /\ \/ \E c \in SerialInput : ch' = c /\ pc' = "edit"
       \/ pc' = "halt" /\ UNCHANGED ch
    /\ UNCHANGED <<ring, reader, line>>

Typed(c) == IF c = Tab THEN reader.tab ELSE c

EndLine ==
    /\ pc = "edit"
    /\ ch = Newline
    /\ pc' = "run"
    /\ ch' = NUL
    /\ UNCHANGED <<ring, reader, line>>

EraseChar ==
    /\ pc = "edit"
    /\ ch = Backspace
    /\ line' = IF line = <<>> THEN line ELSE SubSeq(line, 1, Len(line) - 1)
    /\ pc' = "poll"
    /\ ch' = NUL
    /\ UNCHANGED <<ring, reader>>

\* Mutant: no room left for the final NUL.
AddCharOverrun ==
    /\ pc = "edit"
    /\ ch \notin {Newline, Backspace}
    /\ line' = IF Typed(ch) \in Printable /\ Len(line) < LINE_MAX
               THEN Append(line, Typed(ch)) ELSE line
    /\ pc' = "poll"
    /\ ch' = NUL
    /\ UNCHANGED <<ring, reader>>

AddChar ==
    /\ pc = "edit"
    /\ ch \notin {Newline, Backspace}
    /\ line' = IF Typed(ch) \in Printable /\ Len(line) < LINE_MAX - 1
               THEN Append(line, Typed(ch)) ELSE line
    /\ pc' = "poll"
    /\ ch' = NUL
    /\ UNCHANGED <<ring, reader>>

\* The command has been carried out and the next line begins: in the shell, or
\* in the editor or the browser when that is what the command entered.
NextLine ==
    /\ pc = "run"
    /\ pc' = "poll"
    /\ line' = <<>>
    /\ reader' \in Readers
    /\ UNCHANGED <<ring, ch>>

Reader ==
    \/ GetcharCompare \/ GetcharLoad \/ GetcharAdvance \/ PollSerial
    \/ EndLine \/ EraseChar \/ AddChar \/ NextLine

Interrupt ==
    \/ TimerInterrupt
    \/ \E released \in BOOLEAN :
        ShiftInterrupt(released) \/ \E key \in Keys : KeyInterrupt(key, released)

Next == Reader \/ Interrupt

Spec == Init /\ [][Next]_vars

\* The reader runs whenever it is not interrupted, every command returns, and
\* the PIT keeps ticking; nobody need ever press a key.
Fairness == WF_vars(Reader) /\ WF_vars(TimerInterrupt)

FairSpec == Spec /\ Fairness

-----------------------------------------------------------------------------
(* Properties.                                                              *)

\* The characters waiting in the ring, oldest first.
Count == IF keybuf_head >= keybuf_tail
         THEN keybuf_head - keybuf_tail
         ELSE keybuf_head + KEYBUF_SIZE - keybuf_tail
Slot(i) == (keybuf_tail + i) % KEYBUF_SIZE
Queue == [i \in 1 .. Count |-> keybuf[Slot(i - 1)]]

Fifo == INSTANCE BoundedFifo
            WITH queue <- Queue, Items <- Chars, Capacity <- KEYBUF_SIZE - 1

\* The ring is a bounded first-in first-out queue, whatever the order in which
\* handler and reader run: no character is overwritten, read twice, or
\* overtaken by a later one, across every wrap of the two indices.
RingIsFifo == Fifo!Spec

\* keyboard_getchar frees the slot after it has read it: when it advances the
\* tail, the character it holds is still the oldest one in the ring, however
\* many keys were pressed in between.
LoadedIsOldest ==
    /\ pc = "load" => Count > 0
    /\ pc = "advance" => Count > 0 /\ ch = Queue[1]

\* readline leaves room for the terminating NUL in the caller's buffer.
LineFits == Len(line) < LINE_MAX

\* keyboard_buffer_push gives up a character only when KEYBUF_SIZE - 1 others
\* are waiting: the comparison of wrapped indices never says full too early.
DropsOnlyWhenFull ==
    [][\A key \in Keys :
        KeyInterrupt(key, FALSE) /\ Translate(key) # NUL /\ Queue' = Queue
            => Count = KEYBUF_SIZE - 1]_vars

\* No key is forgotten: a reader that saw an empty ring may sleep after the key
\* has arrived, but it comes back for it.
KeysAreRead == (Count > 0) ~> (pc = "advance")

=============================================================================
