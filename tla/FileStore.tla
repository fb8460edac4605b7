------------------------------ MODULE FileStore ------------------------------
(***************************************************************************)
(* The filesystem as the programs above it see it: one call of fs.c is one  *)
(* step. `files` is what reads answer now, `disk` what a boot will find.    *)
(* Module Fs has the transfers behind each call, and FsFiles the mapping by *)
(* which each of them is a step of this module or none.                     *)
(*                                                                          *)
(* An acknowledged write is not always on the disk: of the table of files   *)
(* one sector is stored, and a new file may get an entry outside it. And a  *)
(* failed call does more than fail: after a write the entry in memory may   *)
(* point at sectors that were filled in part, over whatever was on them     *)
(* before, and the next successful write of ANY file stores that entry,     *)
(* too; after a delete the disk may list a file whose sectors are free.     *)
(***************************************************************************)
EXTENDS Integers, Sequences, FiniteSets

CONSTANTS
    FileNames,
    NoFile,         \* no such file
    Unreadable,     \* what a failed read answers
    Leftovers       \* for each file, what sectors written in part may hold

ASSUME FileStoreAssumption == \A n \in FileNames : NoFile \notin Leftovers[n]

VARIABLES
    files, disk, mounted,
    unstored,       \* files whose entry lies outside the stored sector
    loose           \* files that the disk lists and whose sectors are not reserved
storeVars == <<files, disk, mounted, unstored, loose>>

Formatted == [n \in FileNames |-> NoFile]
StoreInit ==
    /\ files = Formatted /\ disk = files /\ mounted \in BOOLEAN
    /\ unstored = {} /\ loose = {}

With(name, content) == [files EXCEPT ![name] = content]
WithAny(name, contents) == LET before == files IN {[before EXCEPT ![name] = c] : c \in contents}

\* A file keeps its entry; a new one may get one outside the sector.
Placed(name) == unstored' = unstored \/ (files[name] = NoFile /\ unstored' = unstored \cup {name})

\* Mutant: the sector holds every entry.
AllStored == disk' = files' /\ loose' = {}

\* fs_store_table: the disk lists what the sector holds.
fs_store_table ==
    /\ disk' = [n \in FileNames |-> IF n \in unstored' THEN NoFile ELSE files'[n]]
    /\ loose' = {}

\* Blocks were written, the table was not: a loose file may have lost sectors to them.
Spoils ==
    /\ loose' \in SUBSET loose
    /\ \E spoiled \in [loose -> UNION {Leftovers[n] \cup {disk[n]} : n \in loose}] :
        /\ \A n \in loose : spoiled[n] \in Leftovers[n] \cup {disk[n]}
        /\ disk' = [n \in FileNames |-> IF n \in loose THEN spoiled[n] ELSE disk[n]]

fs_write_file(name, content) ==
    /\ mounted
    /\ files' = With(name, content)
    /\ Placed(name)
    /\ fs_store_table
    /\ UNCHANGED mounted

\* The write is refused, breaks off among the blocks, or is not acknowledged by the
\* drive when the table is stored.
WriteFails(name, content) ==
    /\ UNCHANGED mounted
    /\ \/ UNCHANGED storeVars
       \/ /\ mounted
          /\ files' \in WithAny(name, Leftovers[name] \cup {content})
          /\ Placed(name)
          /\ Spoils \/ (files' = With(name, content) /\ fs_store_table)

\* A delete that the drive does not acknowledge is done in memory all the same.
fs_delete_file(name) ==
    /\ mounted
    /\ files' = With(name, NoFile)
    /\ unstored' = unstored \ {name}
    /\ fs_store_table \/ (UNCHANGED disk /\ loose' \in SUBSET (loose \cup {name}))
    /\ UNCHANGED mounted

\* Power fails; fs_init finds the disk as it was, or formats it, when the superblock
\* was never stored or cannot be read. It mounts what it finds, or nothing, and then
\* no write is taken.
PowerCycle ==
    /\ mounted' \in BOOLEAN
    /\ disk' \in {disk, Formatted}
    /\ files' = IF mounted' THEN disk' ELSE Formatted
    /\ unstored' = {} /\ loose' = {}

\* The calls of any program that writes these contents.
StoreNext(contents) ==
    \/ \E name \in FileNames :
        \/ \E content \in contents : fs_write_file(name, content) \/ WriteFails(name, content)
        \/ fs_delete_file(name)
    \/ PowerCycle
=============================================================================
