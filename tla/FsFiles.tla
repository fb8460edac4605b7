------------------------------- MODULE FsFiles -------------------------------
(***************************************************************************)
(* Fs implements FileStore when no write is lost in silence. A file is its  *)
(* size and the sectors of its extent, whatever they hold; the transfers of *)
(* one write are steps that fail, but for a last one that may succeed.      *)
(***************************************************************************)
EXTENDS Fs

\* A drive that says so when it did not store a sector.
HonestDrive == "lost" \notin Faults /\ OverrunWrites = {"reject"}

\* fs_copy_name cuts no name.
NamesFit == \A n \in Names : Trunc[n] = n

\* A file whose first block is sector `start`.
Held(e) ==
    [size |-> e.size,
     sectors |-> [i \in 0 .. Blocks(e.size) - 1 |->
                    IF e.start + i \in DataLbas THEN data[e.start + i] ELSE Blank]]

\* The file that fs_find_entry finds under a name.
Named(t, n) == {s \in UsedSlots(t) : t[s].name = n}
FileIn(t, n) ==
    LET found == Named(t, n)
    IN IF found = {} THEN NoName ELSE Held(t[CHOOSE s \in found : First(found, s)])

\* A content as a file, and what a write that breaks off may leave of one.
Full(c) == [size |-> Size[c], sectors |-> [i \in 0 .. Blocks(Size[c]) - 1 |-> <<c, i>>]]
Sectors == {Blank} \cup UNION {{c} \X (0 .. Blocks(Size[c]) - 1) : c \in Contents}
Partial ==
    UNION {[size : {Size[c]}, sectors : [0 .. Blocks(Size[c]) - 1 -> Sectors]] : c \in Contents}
Partials == [n \in Names |-> Partial]
FullContents == {Full(c) : c \in Contents}

\* What FileStore assumes of leftovers.
ASSUME FsFilesAssumption == NoName \notin Partial

\* Files that the table in memory keeps outside the stored sector.
Outside == {n \in Names : \E s \in UsedSlots(table) : s \notin Persisted /\ table[s].name = n}

\* fs_next_free_lba goes past the file that the disk lists in slot s, as long as memory
\* has it there, or a newer version: the one being written ends where it starts.
Reserved(s) ==
    LET e == table[s]
    IN /\ e.used /\ e.name = diskTable[s].name
       /\ End(diskTable[s]) <= (IF pc = "data" /\ s = op.idx THEN op.start ELSE End(e))

\* Files that the disk lists and whose sectors the next write may take.
Unreserved ==
    {n \in Names : mounted /\ \E s \in UsedSlots(diskTable) : diskTable[s].name = n /\ ~Reserved(s)}

Files == INSTANCE FileStore WITH
            FileNames <- Names,
            NoFile <- NoName,
            Unreadable <- Blank,
            Leftovers <- Partials,
            files <- [n \in Names |-> FileIn(table, n)],
            disk <- [n \in Names |-> FileIn(diskTable, n)],
            unstored <- Outside,
            loose <- Unreserved

StoreStep == Files!StoreNext(FullContents)

\* fs.c as its callers model it: an acknowledged write stores all that reads answer,
\* but for the files whose entry lies outside the sector; one that fails spoils at most
\* the file it writes, in memory, and on the disk those whose delete was not stored;
\* and a delete takes one file away, from the disk perhaps.
CallsAreStoreSteps ==
    [][/\ UNCHANGED <<diskTable, data, table, mounted>> \/ StoreStep
       /\ WriteStore /\ reply' = "write" => Files!fs_write_file(table[op.idx].name, Full(op.content))
       /\ \A n \in Names : DeleteFile(n) => Files!fs_delete_file(n)]_vars

\* The same as a refinement.
ImplementsFileStore == Files!StoreInit /\ [][StoreStep]_(Files!storeVars)
=============================================================================
