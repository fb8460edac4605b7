----------------------------- MODULE BoundedFifo -----------------------------
(***************************************************************************)
(* What a bounded character queue promises: items leave in the order they   *)
(* entered, none is altered or invented, and at most Capacity wait at once. *)
(* An item offered to a full queue is dropped, which is a stuttering step.  *)
(***************************************************************************)
EXTENDS Naturals, Sequences

CONSTANTS Items, Capacity

VARIABLE queue

Init == queue = <<>>

Put(item) ==
    /\ Len(queue) < Capacity
    /\ queue' = Append(queue, item)

Get ==
    /\ queue # <<>>
    /\ queue' = Tail(queue)

Next == Get \/ \E item \in Items : Put(item)

Spec == Init /\ [][Next]_queue

=============================================================================
