------------------------------- MODULE Recent -------------------------------
(***************************************************************************)
(* What log.c and the shell's history promise: the newest Max items, oldest *)
(* first.                                                                   *)
(***************************************************************************)
EXTENDS Integers, Sequences

CONSTANTS Items, Max
VARIABLE list

Add(item) == list' = Append(IF Len(list) < Max THEN list ELSE Tail(list), item)
Clear == list' = <<>>

RecentSpec == list = <<>> /\ [][Clear \/ \E item \in Items : Add(item)]_list
=============================================================================
