------------------------------- MODULE FsAtomic -------------------------------
(***************************************************************************)
(* Fs implements AtomicStore when the drive itself does not fail.  The      *)
(* durable map is read off the disk alone: what a kernel booted in this     *)
(* state would find.  It has room for the entries of one sector.            *)
(***************************************************************************)
EXTENDS FsFiles

CONSTANTS Absent, Corrupt, NoRequest

\* Contents are byte strings: there is one of length 0.
ASSUME FsAtomicAssumption ==
    /\ Absent \notin Contents /\ Corrupt \notin Contents
    /\ NoRequest \notin Names \X Contents
    /\ \A c, d \in Contents : Size[c] = 0 /\ Size[d] = 0 => c = d

\* A drive that takes what it is given and rejects what is past its end.
WorkingDrive == Faults = {} /\ OverrunWrites = {"reject"}

OnDisk(n) == {s \in UsedSlots(diskTable) : diskTable[s].name = n}

\* The content a fresh boot would find under n; Corrupt when the sectors of the
\* extent are not those of one content.
FileOnDisk(n) ==
    IF OnDisk(n) = {} THEN Absent
    ELSE LET e == diskTable[CHOOSE s \in OnDisk(n) : First(OnDisk(n), s)]
             whole == {c \in Contents : Holds(e, [name |-> n, content |-> c])}
         IN IF whole = {} THEN Corrupt ELSE CHOOSE c \in whole : TRUE

\* Once the drive shows ERR no write is taken any more, and memory does not count.
Underway ==
    IF pc \in {"data", "store"} /\ ~latched THEN <<table[op.idx].name, op.content>> ELSE NoRequest

Store == INSTANCE AtomicStore WITH
            Capacity <- Cardinality(Persisted),
            store <- [n \in Names |-> FileOnDisk(n)],
            outside <- IF latched THEN {} ELSE Outside,
            request <- Underway,
            answer <- reply

\* A write is all or nothing across power losses, is answered with success exactly
\* when it takes effect, and touches no other file; the same for deletes. It survives
\* unless the sector was full of entries when the file was new.
ImplementsAtomicStore == Store!Spec

=============================================================================
