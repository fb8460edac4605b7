----------------------------- MODULE AtomicStore -----------------------------
(***************************************************************************)
(* What a filesystem promises on a drive that works but may lose power: a   *)
(* map from names to contents that survives, with room for Capacity of      *)
(* them, in which a write takes effect whole or not at all, and is answered *)
(* with success exactly when it does. A file that is new when the map is    *)
(* full is kept outside it, and lasts until power fails.                    *)
(***************************************************************************)
EXTENDS Integers, FiniteSets

CONSTANTS Names, Contents, Absent, NoRequest, Capacity

VARIABLES
    store,      \* the durable map
    outside,    \* the files that only memory has
    request,    \* the write being carried out, or NoRequest
    answer      \* what the last call returned

svars == <<store, outside, request, answer>>

Init ==
    /\ store = [n \in Names |-> Absent]
    /\ outside = {}
    /\ request = NoRequest
    /\ answer = "boot"

Full == Cardinality({n \in Names : store[n] # Absent}) >= Capacity

Ask(n, c) ==
    /\ request = NoRequest
    /\ request' = <<n, c>>
    /\ outside' = IF store[n] = Absent /\ Full THEN outside \cup {n} ELSE outside
    /\ UNCHANGED <<store, answer>>

Commit ==
    /\ request # NoRequest
    /\ store' = IF request[1] \in outside THEN store
                ELSE [store EXCEPT ![request[1]] = request[2]]
    /\ request' = NoRequest
    /\ answer' = "write"
    /\ UNCHANGED outside

Remove(n) ==
    /\ request = NoRequest
    /\ store[n] # Absent \/ n \in outside
    /\ store' = [store EXCEPT ![n] = Absent]
    /\ outside' = outside \ {n}
    /\ answer' = "delete"
    /\ UNCHANGED request

\* A read, a refused or failed call, a boot, or a loss of power: the map is as
\* before, and a write under way is forgotten; so are, in the end, the files outside.
Leave ==
    /\ request' = NoRequest
    /\ outside' \in {outside, {}}
    /\ answer' \in {"read", "failed", "boot"}
    /\ UNCHANGED store

Next ==
    \/ \E n \in Names, c \in Contents : Ask(n, c)
    \/ Commit
    \/ \E n \in Names : Remove(n)
    \/ Leave

Spec == Init /\ [][Next]_svars

=============================================================================
