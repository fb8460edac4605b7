-------------------------------- MODULE Mouse --------------------------------
(***************************************************************************)
(* drivers/mouse/mouse.c: the handler that puts packets together from the   *)
(* bytes of IRQ12, and the copy `mouse` takes of the state meanwhile. The   *)
(* struct is copied in words: the flags, x with y, the rest with the count. *)
(* mouse_init reads neither of the two acknowledgements its commands cause, *)
(* so they come before the bytes of the first packet.                       *)
(***************************************************************************)
EXTENDS Integers, Sequences

CONSTANTS
    Deltas,             \* what one axis moves by
    MaxPackets          \* bound: packets the handler completes

ASSUME MouseAssumption == Deltas \subseteq -128 .. 127 /\ MaxPackets \in Nat

VARIABLES
    acks, sent,         \* the device: acknowledgements due, bytes of the packet sent
    mouse_index, mouse_packet,
    x, y, packet_count, packet_ready,
    trail,              \* history: where the position has been
    copying,            \* the word the copy takes next, 0 outside a copy
    shown               \* the copy
mouseState == <<x, y, packet_count, packet_ready, trail>>
mouseVars == <<acks, sent, mouse_index, mouse_packet, mouseState, copying, shown>>

\* The first byte of a packet, with its bit 3 and no button; an acknowledgement is 0xFA.
First == 8
Ack == -6
Bit3(byte) == ((byte % 256) \div 8) % 2 = 1

MouseInit ==
    /\ acks = 2 /\ sent = 0
    /\ mouse_index = 0 /\ mouse_packet = <<0, 0, 0>>
    /\ x = 0 /\ y = 0 /\ packet_count = 0 /\ packet_ready = 0 /\ trail = <<<<0, 0>>>>
    /\ copying = 0 /\ shown = [ready |-> 0, at |-> <<0, 0>>, count |-> 0]

mouse_interrupt_handler(byte) ==
    IF mouse_index = 0 /\ ~Bit3(byte) THEN UNCHANGED <<mouse_index, mouse_packet, mouseState>>
    ELSE /\ mouse_packet' = [mouse_packet EXCEPT ![mouse_index + 1] = byte]
         /\ mouse_index' = (mouse_index + 1) % 3
         /\ IF mouse_index + 1 < 3 THEN UNCHANGED mouseState
            ELSE /\ x' = x + mouse_packet[2] /\ y' = y - byte
                 /\ packet_count' = packet_count + 1 /\ packet_ready' = 1
                 /\ trail' = Append(trail, <<x', y'>>)

\* The device's next byte; the interrupt runs to its end.
MouseByte ==
    /\ packet_count < MaxPackets
    /\ IF acks > 0 THEN acks' = acks - 1 /\ UNCHANGED sent
       ELSE sent' = (sent + 1) % 3 /\ UNCHANGED acks
    /\ \E byte \in IF acks > 0 THEN {Ack} ELSE IF sent = 0 THEN {First} ELSE Deltas :
         mouse_interrupt_handler(byte)
    /\ UNCHANGED <<copying, shown>>

\* Mutant: the count is taken first and the position last.
CopyBackwards ==
    /\ copying' = (copying + 1) % 3
    /\ shown' = CASE copying = 2 -> [shown EXCEPT !.ready = packet_ready]
                  [] copying = 1 -> [shown EXCEPT !.at = <<x, y>>]
                  [] OTHER -> [shown EXCEPT !.count = packet_count]
    /\ UNCHANGED <<acks, sent, mouse_index, mouse_packet, mouseState>>

mouse_get_state ==
    /\ copying' = (copying + 1) % 3
    /\ shown' = CASE copying = 0 -> [shown EXCEPT !.ready = packet_ready]
                  [] copying = 1 -> [shown EXCEPT !.at = <<x, y>>]
                  [] OTHER -> [shown EXCEPT !.count = packet_count]
    /\ UNCHANGED <<acks, sent, mouse_index, mouse_packet, mouseState>>

MouseNext == MouseByte \/ mouse_get_state

-----------------------------------------------------------------------------
\* shell.c:535: `mouse` shows x and y of one and the same moment, which the packets
\* counted on the line above have reached and, if it says ready, the first has left.
ShownIsOnTrail ==
    copying = 0 =>
        \E n \in 0 .. shown.count : shown.at = trail[n + 1] /\ (shown.ready = 1 => n >= 1)

\* The mouse by itself.
MouseSpec == MouseInit /\ [][MouseNext]_mouseVars
=============================================================================
