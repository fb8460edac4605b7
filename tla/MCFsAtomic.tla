----------------------------- MODULE MCFsAtomic -----------------------------
(* A working drive that may lose power: the instance that refines AtomicStore. *)
EXTENDS FsAtomic

MCSize == [c \in Contents |->
    CASE c = "empty" -> 0 [] c = "odd" -> 1 [] c = "three" -> 3 [] c = "huge" -> 7]
MCTrunc == [n \in Names |-> n]

=============================================================================
