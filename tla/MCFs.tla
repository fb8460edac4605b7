--------------------------------- MODULE MCFs ---------------------------------
(* Small instances of Fs. Blocks are two bytes long; the contents take 0, 1   *)
(* and 2 blocks, "odd" and "full" filling their last block partly and wholly. *)
EXTENDS FsFiles, TLC

SizeOf(c) == CASE c = "empty" -> 0 [] c = "odd" -> 1 [] c = "even" -> 2
               [] c = "three" -> 3 [] c = "huge" -> 7
MCSize == [c \in Contents |-> SizeOf(c)]

\* A name longer than FS_NAME_MAX - 1 is cut to another name.
MCTrunc == [n \in Names |-> n]

NameSymmetry == Permutations(Names)

=============================================================================
