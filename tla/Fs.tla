---------------------------------- MODULE Fs ----------------------------------
(***************************************************************************)
(* The contiguous-extent filesystem of fs/fs.c over the ATA driver.         *)
(*                                                                          *)
(* A call runs on the shell's single thread and no interrupt handler        *)
(* touches this state, so the only points where the outside world can       *)
(* intervene are the sector transfers: each transfer is a step, and the     *)
(* machine may lose power (Crash) before any of them.  A transfer may fail  *)
(* in the ways module Ata lists.                                            *)
(*                                                                          *)
(* The disk is the superblock sector, the file-table sector and the data    *)
(* sectors.  A data sector holds <<c, i>>, block i of content c.  The table *)
(* sector holds the entries of Persisted only: fs_store_table and           *)
(* fs_load_table move ONE sector, and the packed table is larger than that. *)
(***************************************************************************)
EXTENDS Ata, FiniteSets

CONSTANTS
    FS_FILES_MAX,       \* slots of the file table
    TableSlots,         \* slots whose entry lies in the one sector that is moved
    FS_TABLE_LBA,
    FS_DATA_LBA,
    FS_BLOCK_SIZE,
    MaxBlocks,          \* FS_MAX_FILE_BYTES in blocks
    CountWidth,         \* 2^8: fs_read_file casts its block count to uint8_t
    Names,              \* names callers pass
    Trunc,              \* what fs_copy_name keeps of a name
    NoName,
    Contents,           \* what callers write
    Size,               \* its length in bytes
    Buffers,            \* lengths of the buffers callers read into
    LbaBound,           \* bound: highest LBA an extent may reach
    MaxCrashes          \* bound: power losses in one behaviour

Slots == 0 .. FS_FILES_MAX - 1
Persisted == {s \in Slots : s < TableSlots}
DataLbas == FS_DATA_LBA .. TotalSectors - 1

ASSUME FsAssumption ==
    /\ FS_FILES_MAX \in Nat /\ TableSlots \in Nat
    /\ FS_TABLE_LBA \in Nat /\ FS_DATA_LBA \in Nat
    /\ FS_BLOCK_SIZE \in Nat \ {0}
    /\ MaxBlocks \in Nat /\ CountWidth \in Nat \ {0}
    /\ Trunc \in [Names -> Names]
    /\ NoName \notin Names \cup Contents
    /\ Size \in [Contents -> Nat]
    /\ Buffers \subseteq {b \in Nat : b % FS_BLOCK_SIZE = 0}
    /\ LbaBound \in Nat /\ MaxCrashes \in Nat

\* fs_blocks_for_bytes
Blocks(bytes) == (bytes + FS_BLOCK_SIZE - 1) \div FS_BLOCK_SIZE

FS_MAX_FILE_BYTES == MaxBlocks * FS_BLOCK_SIZE

\* fs_disk_entry_t
Entry == [used : BOOLEAN, name : Names \cup {NoName}, start : Nat, size : Nat]
NoEntry == [used |-> FALSE, name |-> NoName, start |-> 0, size |-> 0]
End(e) == e.start + Blocks(e.size)

SectorVal == (Contents \cup {NoName}) \X Nat
Blank == <<NoName, 0>>          \* a sector nothing was written to

VARIABLES
    \* the disk
    superblock,         \* does LBA 4096 hold the magic and the version
    diskTable,          \* the file-table sector
    data,               \* the data sectors
    \* the kernel's memory
    table,              \* fs_disk_entries
    cache,              \* fs_cache
    mounted,            \* fs_info.mounted
    used_files,         \* fs_info.used_files
    pc,                 \* where the running call stands
    op,                 \* the locals of a running fs_write_file (and the blocks kept)
    reply,              \* what the last call returned
    \* bookkeeping of the properties; no guard reads it
    ledger,             \* what an acknowledged write left in each slot of table
    diskLedger,         \* the same for the table on disk
    crashes

diskVars == <<superblock, diskTable, data>>
infoVars == <<mounted, used_files>>
ledgers == <<ledger, diskLedger>>
vars == <<ataVars, diskVars, table, cache, infoVars, pc, op, reply, ledgers, crashes>>

Nothing == [name |-> NoName, content |-> NoName]
Promise == [name : Names \cup {NoName}, content : Contents]

NoOp == [idx |-> 0, start |-> 0, content |-> NoName, i |-> 0, kept |-> 0]
Writing == [idx : Slots, start : Nat, content : Contents, i : Nat, kept : Nat]

Reply(call, ok) == IF ok THEN call ELSE "failed"
Replies == {"boot", "write", "delete", "read", "failed"}

BootSteps == {"off", "super", "fmtSuper", "fmtTable", "loadTable"}

TypeOK ==
    /\ AtaTypeOK
    /\ superblock \in BOOLEAN
    /\ diskTable \in [Persisted -> Entry]
    /\ data \in [DataLbas -> SectorVal]
    /\ table \in [Slots -> Entry]
    /\ cache \in [Slots -> Entry]
    /\ mounted \in BOOLEAN
    /\ used_files \in Nat
    /\ pc \in BootSteps \cup {"idle", "data", "store"}
    /\ op \in Writing \cup {NoOp}
    /\ pc \in {"data", "store"} => op \in Writing
    /\ reply \in Replies
    /\ ledger \in [Slots -> Promise \cup {Nothing}]
    /\ diskLedger \in [Persisted -> Promise \cup {Nothing}]
    /\ crashes \in Nat

-----------------------------------------------------------------------------
(* Power on and power loss.                                                 *)

\* fs_clear_cache, and the zeroed memory of a fresh kernel
ClearMemory ==
    /\ table' = [s \in Slots |-> NoEntry]
    /\ cache' = [s \in Slots |-> NoEntry]
    /\ mounted' = FALSE
    /\ used_files' = 0
    /\ op' = NoOp
    /\ ledger' = [s \in Slots |-> Nothing]

\* A blank disk image and a machine that is off.
Init ==
    /\ AtaOff
    /\ superblock = FALSE
    /\ diskTable = [s \in Persisted |-> NoEntry]
    /\ data = [l \in DataLbas |-> Blank]
    /\ table = [s \in Slots |-> NoEntry]
    /\ cache = [s \in Slots |-> NoEntry]
    /\ mounted = FALSE
    /\ used_files = 0
    /\ pc = "off"
    /\ op = NoOp
    /\ reply = Reply("boot", TRUE)
    /\ ledger = [s \in Slots |-> Nothing]
    /\ diskLedger = [s \in Persisted |-> Nothing]
    /\ crashes = 0

\* Power is lost between two sector transfers: memory goes, the disk stays.
Crash ==
    /\ crashes < MaxCrashes
    /\ crashes' = crashes + 1
    /\ pc' = "off"
    /\ ClearMemory
    /\ reply' = Reply("boot", TRUE)
    /\ UNCHANGED <<ataVars, diskVars, diskLedger>>

\* kmain: ata_init, then fs_init up to its first transfer
Boot ==
    /\ pc = "off"
    /\ ata_init
    /\ pc' = IF present' THEN "super" ELSE "idle"
    /\ ClearMemory
    /\ UNCHANGED <<diskVars, reply, diskLedger, crashes>>

\* fs_init: an unreadable superblock is treated as a foreign one
LoadSuperblock ==
    /\ pc = "super"
    /\ \E o \in ata_read_sectors(0, 1) :
        /\ Transfer(o)
        /\ pc' = IF o.ok /\ superblock THEN "loadTable" ELSE "fmtSuper"
    /\ UNCHANGED <<diskVars, table, cache, infoVars, op, reply, ledgers, crashes>>

\* fs_format, first transfer
FormatSuperblock ==
    /\ pc = "fmtSuper"
    /\ \E o \in ata_write_sectors(0) :
        /\ Transfer(o)
        /\ superblock' = (o.stored \/ superblock)
        /\ pc' = IF o.ok THEN "fmtTable" ELSE "idle"
        /\ reply' = Reply("boot", o.ok)
    /\ table' = [s \in Slots |-> NoEntry]
    /\ UNCHANGED <<diskTable, data, cache, infoVars, op, ledgers, crashes>>

\* fs_format, second transfer; only then is the volume mounted
FormatTable ==
    /\ pc = "fmtTable"
    /\ \E o \in ata_write_sectors(FS_TABLE_LBA) :
        /\ Transfer(o)
        /\ diskTable' = IF o.stored THEN [s \in Persisted |-> table[s]] ELSE diskTable
        /\ diskLedger' = IF o.stored \/ o.ok THEN [s \in Persisted |-> Nothing] ELSE diskLedger
        /\ mounted' = o.ok
        /\ reply' = Reply("boot", o.ok)
        /\ cache' = IF o.ok THEN table ELSE cache
    /\ used_files' = 0
    /\ pc' = "idle"
    /\ UNCHANGED <<superblock, data, table, op, ledger, crashes>>

UsedSlots(t) == {s \in DOMAIN t : t[s].used}

\* Mutant: fs_init does not look at what fs_load_table returned.
MountAnyway ==
    /\ pc = "loadTable"
    /\ \E o \in ata_read_sectors(FS_TABLE_LBA, 1) :
        /\ Transfer(o)
        /\ table' = [s \in Slots |-> IF o.ok /\ s \in Persisted THEN diskTable[s] ELSE NoEntry]
        /\ ledger' = [s \in Slots |-> IF o.ok /\ s \in Persisted THEN diskLedger[s] ELSE Nothing]
        /\ used_files' = Cardinality(UsedSlots(table'))
        /\ cache' = table'
    /\ mounted' = TRUE
    /\ reply' = Reply("boot", TRUE)
    /\ pc' = "idle"
    /\ UNCHANGED <<diskVars, op, diskLedger, crashes>>

\* fs_init: the slots the sector does not hold keep the zeroes of fs_clear_cache
LoadTable ==
    /\ pc = "loadTable"
    /\ \E o \in ata_read_sectors(FS_TABLE_LBA, 1) :
        /\ Transfer(o)
        /\ IF o.ok
           THEN /\ table' = [s \in Slots |->
                                IF s \in Persisted THEN diskTable[s] ELSE NoEntry]
                /\ ledger' = [s \in Slots |->
                                IF s \in Persisted THEN diskLedger[s] ELSE Nothing]
           ELSE UNCHANGED <<table, ledger>>
        /\ mounted' = o.ok
        /\ used_files' = Cardinality(UsedSlots(table'))
        /\ cache' = table'
        /\ reply' = Reply("boot", o.ok)
    /\ pc' = "idle"
    /\ UNCHANGED <<diskVars, op, diskLedger, crashes>>

-----------------------------------------------------------------------------
(* Looking a name up and placing a file.                                    *)

First(S, s) == s \in S /\ \A t \in S : s <= t

Matching(name) == {s \in Slots : table[s].used /\ table[s].name = name}
Free == {s \in Slots : ~table[s].used}

fs_find_entry(name, s) == First(Matching(name), s)
fs_find_free_entry(s) == First(Free, s)

\* Mutants: block counts rounded down; the last slot not scanned; as many slots
\* scanned as there are files.
EndsRoundedDown ==
    {FS_DATA_LBA} \cup
        {table[s].start + table[s].size \div FS_BLOCK_SIZE : s \in UsedSlots(table)}
EndsButLast ==
    {FS_DATA_LBA} \cup {End(table[s]) : s \in UsedSlots(table) \ {FS_FILES_MAX - 1}}
EndsOfCount ==
    {FS_DATA_LBA} \cup {End(table[s]) : s \in {u \in UsedSlots(table) : u < used_files}}

\* fs_next_free_lba: the highest end of a used extent, the file's own old one
\* included.  (A slot just taken has start = size = 0 and does not count.)
Ends == {FS_DATA_LBA} \cup {End(table[s]) : s \in UsedSlots(table)}
fs_next_free_lba(lba) == lba \in Ends /\ \A e \in Ends : e <= lba

-----------------------------------------------------------------------------
(* fs_write_file                                                            *)

\* Mutant: a slot is taken without looking the name up.
AlwaysFreshSlot(name, s) == fs_find_free_entry(s)

WriteSlot(name, s) ==
    \/ fs_find_entry(name, s)
    \/ Matching(name) = {} /\ fs_find_free_entry(s)

\* Early returns: not mounted, too large, table full.
WriteRefused(name, c) ==
    /\ pc = "idle"
    /\ \/ ~mounted
       \/ Size[c] > FS_MAX_FILE_BYTES
       \/ Matching(name) = {} /\ Free = {}
    /\ reply' = Reply("write", FALSE)
    /\ UNCHANGED <<ataVars, diskVars, table, cache, infoVars, pc, op, ledgers, crashes>>

\* The entry in memory is changed before anything is written.
WriteEntry(name, c) ==
    /\ pc = "idle"
    /\ mounted
    /\ Size[c] <= FS_MAX_FILE_BYTES
    /\ \E idx \in Slots, lba \in Ends :
        /\ WriteSlot(name, idx)
        /\ fs_next_free_lba(lba)
        /\ lba + Blocks(Size[c]) <= LbaBound
        /\ table' = [table EXCEPT ![idx] =
              [used |-> TRUE,
               name |-> IF @.used THEN @.name ELSE Trunc[name],
               start |-> lba,
               size |-> Size[c]]]
        /\ op' = [idx |-> idx, start |-> lba, content |-> c, i |-> 0, kept |-> 0]
        /\ ledger' = [ledger EXCEPT ![idx] = Nothing]
    /\ pc' = IF Blocks(Size[c]) = 0 THEN "store" ELSE "data"
    /\ UNCHANGED <<ataVars, diskVars, cache, infoVars, reply, diskLedger, crashes>>

\* Mutant: a block is tried again until the drive takes it.
RetryBlock ==
    /\ pc = "data"
    /\ LET lba == op.start + op.i IN
       \E o \in ata_write_sectors(lba) :
        /\ Transfer(o)
        /\ data' = IF o.stored THEN [data EXCEPT ![lba] = <<op.content, op.i>>] ELSE data
        /\ IF o.ok
           THEN /\ pc' = IF op.i + 1 = Blocks(Size[op.content]) THEN "store" ELSE "data"
                /\ op' = [op EXCEPT !.i = @ + 1, !.kept = IF o.stored THEN @ + 1 ELSE @]
           ELSE UNCHANGED <<pc, op>>
    /\ UNCHANGED <<superblock, diskTable, table, cache, infoVars, reply, ledgers, crashes>>

\* One turn of the loop over the blocks.
WriteBlock ==
    /\ pc = "data"
    /\ LET lba == op.start + op.i IN
       \E o \in ata_write_sectors(lba) :
        /\ Transfer(o)
        /\ data' = IF o.stored THEN [data EXCEPT ![lba] = <<op.content, op.i>>] ELSE data
        /\ IF o.ok
           THEN /\ pc' = IF op.i + 1 = Blocks(Size[op.content]) THEN "store" ELSE "data"
                /\ op' = [op EXCEPT !.i = @ + 1, !.kept = IF o.stored THEN @ + 1 ELSE @]
                /\ UNCHANGED reply
           ELSE /\ pc' = "idle"
                /\ op' = NoOp
                /\ reply' = Reply("write", FALSE)
    /\ UNCHANGED <<superblock, diskTable, table, cache, infoVars, ledgers, crashes>>

\* Mutant: the copy of the last successful call is stored.
StoreCache(o, t, l) ==
    IF o.stored
    THEN /\ diskTable' = [s \in Persisted |-> cache[s]]
         /\ diskLedger' = [s \in Persisted |-> l[s]]
    ELSE UNCHANGED <<diskTable, diskLedger>>

\* fs_store_table as both fs_write_file and fs_delete_file use it, l being the
\* ledger that goes with the table in memory.
StoreTable(o, t, l) ==
    IF o.stored
    THEN /\ diskTable' = [s \in Persisted |-> t[s]]
         /\ diskLedger' = [s \in Persisted |-> l[s]]
    ELSE UNCHANGED <<diskTable, diskLedger>>

\* The table goes to disk: the commit point.  Only success refreshes the
\* count and the cache.
WriteStore ==
    /\ pc = "store"
    /\ \E o \in ata_write_sectors(FS_TABLE_LBA) :
        /\ Transfer(o)
        /\ ledger' = IF o.ok /\ op.kept = op.i
                     THEN [ledger EXCEPT ![op.idx] =
                            [name |-> table[op.idx].name, content |-> op.content]]
                     ELSE ledger
        /\ StoreTable(o, table, ledger')
        /\ IF o.ok
           THEN /\ used_files' = Cardinality(UsedSlots(table))
                /\ cache' = table
           ELSE UNCHANGED <<used_files, cache>>
        /\ reply' = Reply("write", o.ok)
    /\ pc' = "idle"
    /\ op' = NoOp
    /\ UNCHANGED <<superblock, data, table, mounted, crashes>>

-----------------------------------------------------------------------------
(* fs_delete_file: no look at fs_info.mounted, one transfer.                *)

DeleteRefused(name) ==
    /\ pc = "idle"
    /\ Matching(name) = {}
    /\ reply' = Reply("delete", FALSE)
    /\ UNCHANGED <<ataVars, diskVars, table, cache, infoVars, pc, op, ledgers, crashes>>

\* Mutants: the count not guarded against 0; the count forgotten.
Decrement(n) == n - 1
KeepCount(n) == n

OneLess(n) == IF n > 0 THEN n - 1 ELSE 0

DeleteFile(name) ==
    /\ pc = "idle"
    /\ \E idx \in Slots, o \in ata_write_sectors(FS_TABLE_LBA) :
        /\ fs_find_entry(name, idx)
        /\ table' = [table EXCEPT ![idx] = NoEntry]
        /\ ledger' = [ledger EXCEPT ![idx] = Nothing]
        /\ Transfer(o)
        \* A delete that did not reach the disk withdraws the promise, not the file.
        /\ IF o.stored
           THEN StoreTable(o, table', ledger')
           ELSE /\ diskLedger' = [s \in Persisted |->
                                    IF s = idx THEN Nothing ELSE diskLedger[s]]
                /\ UNCHANGED diskTable
        /\ IF o.ok
           THEN /\ used_files' = OneLess(used_files)
                /\ cache' = table'
           ELSE UNCHANGED <<used_files, cache>>
        /\ reply' = Reply("delete", o.ok)
    /\ UNCHANGED <<superblock, data, mounted, pc, op, crashes>>

-----------------------------------------------------------------------------
(* fs_read_file.  The number of sectors asked for is the block count cast   *)
(* to uint8_t; the caller's buffer is compared with the size in bytes.      *)

ReadRefused(name, buflen) ==
    /\ pc = "idle"
    /\ \/ ~mounted
       \/ Matching(name) = {}
       \/ \E s \in Slots : fs_find_entry(name, s) /\ buflen < table[s].size
    /\ reply' = Reply("read", FALSE)
    /\ UNCHANGED <<ataVars, diskVars, table, cache, infoVars, pc, op, ledgers, crashes>>

ReadCount(e) == Blocks(e.size) % CountWidth

ReadFile(name, buflen) ==
    /\ pc = "idle"
    /\ mounted
    /\ \E s \in Slots :
        /\ fs_find_entry(name, s)
        /\ table[s].size <= buflen
        /\ IF Blocks(table[s].size) = 0
           THEN /\ reply' = Reply("read", TRUE)
                /\ UNCHANGED ataVars
           ELSE \E o \in ata_read_sectors(table[s].start, ReadCount(table[s])) :
                /\ Transfer(o)
                /\ reply' = Reply("read", o.ok)
    /\ UNCHANGED <<diskVars, table, cache, infoVars, pc, op, ledgers, crashes>>

-----------------------------------------------------------------------------

Startup == Boot \/ LoadSuperblock \/ FormatSuperblock \/ FormatTable \/ LoadTable

\* The rest of a write that has begun.
Continue == WriteBlock \/ WriteStore

Call ==
    \E name \in Names :
        \/ \E c \in Contents : WriteRefused(name, c) \/ WriteEntry(name, c)
        \/ DeleteRefused(name) \/ DeleteFile(name)
        \/ \E buflen \in Buffers : ReadRefused(name, buflen) \/ ReadFile(name, buflen)

Next == Startup \/ Continue \/ Call \/ Crash

Spec == Init /\ [][Next]_vars

\* The processor keeps executing the call it is in: every polling loop of the
\* driver has a budget, so each transfer ends.  Callers need not call.
Fairness == WF_vars(Startup \/ Continue)

FairSpec == Spec /\ Fairness

-----------------------------------------------------------------------------
(* Properties.                                                              *)

Apart(e, f) == End(e) <= f.start \/ End(f) <= e.start

Disjoint(t) == \A s, u \in UsedSlots(t) : s # u => Apart(t[s], t[u])

\* No two files share a sector, in the table in memory as well as in the one on
\* disk, through failed writes, failed deletes and power losses: fs_next_free_lba
\* always places a file past every extent it can see.
ExtentsDisjoint == Disjoint(table) /\ Disjoint(diskTable)

Extent(e) == e.start .. End(e) - 1

\* Entry e describes content p.content under p.name and its sectors hold it.
Holds(e, p) ==
    /\ e.used
    /\ e.name = p.name
    /\ e.size = Size[p.content]
    /\ \A i \in 0 .. Blocks(e.size) - 1 :
        /\ e.start + i \in DataLbas
        /\ data[e.start + i] = <<p.content, i>>

\* A file whose write was acknowledged stays whole, on disk and as the running
\* kernel sees it, until it is itself rewritten, deleted or formatted away:
\* whatever fails, and wherever power is lost, in the calls on other files.
KeepsPromises ==
    /\ \A s \in Persisted : diskLedger[s] # Nothing => Holds(diskTable[s], diskLedger[s])
    /\ \A s \in Slots : ledger[s] # Nothing => Holds(table[s], ledger[s])

\* The data sectors of an acknowledged file are never written again while the
\* table on disk points at them, not even to overwrite that very file: a power
\* loss before the table is stored finds the old version.
NeverInPlace ==
    [][\A l \in DataLbas : data'[l] # data[l] =>
        \A s \in Persisted : diskLedger[s] # Nothing => l \notin Extent(diskTable[s])]_vars

(***************************************************************************)
(* What makes ExtentsDisjoint and KeepsPromises inductive.                  *)
(***************************************************************************)

\* While a volume is mounted, a file that the disk promises is also in memory,
\* and the extent memory gives it ends no earlier than the one on disk: the
\* place where fs_next_free_lba puts the next file is past both.
Covered ==
    mounted =>
        \A s \in Persisted : diskLedger[s] # Nothing =>
            table[s].used /\ End(diskTable[s]) <= End(table[s])

\* A write under way fills a fresh extent past everything that is promised, and
\* as long as every sector so far was stored, the blocks written are in place.
WriteInv ==
    pc \in {"data", "store"} =>
        /\ mounted
        /\ table[op.idx].used
        /\ table[op.idx].start = op.start
        /\ table[op.idx].size = Size[op.content]
        /\ ledger[op.idx] = Nothing
        /\ FS_DATA_LBA <= op.start
        /\ \A s \in UsedSlots(table) : s # op.idx => End(table[s]) <= op.start
        /\ \A s \in Persisted : diskLedger[s] # Nothing => End(diskTable[s]) <= op.start
        /\ pc = "data" => op.i < Blocks(Size[op.content])
        /\ pc = "store" => op.i = Blocks(Size[op.content])
        /\ op.kept <= op.i
        /\ op.kept = op.i => \A j \in 0 .. op.i - 1 :
                            /\ op.start + j \in DataLbas
                            /\ data[op.start + j] = <<op.content, j>>

\* Before a volume is mounted, and when it could not be, memory is empty.
Unmounted ==
    /\ pc \in BootSteps => ~mounted
    /\ ~mounted => \A s \in Slots : table[s] = NoEntry /\ ledger[s] = Nothing

FsInv ==
    /\ TypeOK
    /\ ExtentsDisjoint
    /\ KeepsPromises
    /\ Covered
    /\ WriteInv
    /\ Unmounted

Unique(t) == \A s, u \in UsedSlots(t) : t[s].name = t[u].name => s = u

\* fs_write_file looks a name up before it takes a slot, so no name is in the
\* table twice: as long as callers pass no name that fs_copy_name would cut.
UniqueNames ==
    (\A n \in Names : Trunc[n] = n) =>
        Unique(table) /\ Unique(diskTable)

\* fs_delete_file does not ask whether a volume is mounted; it needs not, since
\* every way fs_init has of not mounting leaves an empty table.
UnmountedIsEmpty == ~mounted => UsedSlots(table) = {}

\* After an acknowledged write the disk holds every file the kernel lists, the
\* one written and those that earlier failed calls left only in memory.
AckedIsOnDisk ==
    pc = "idle" /\ reply = Reply("write", TRUE) =>
        \A s \in UsedSlots(table) : s \in Persisted /\ diskTable[s] = table[s]

\* What an acknowledged write does store: every entry that lies in the sector, with
\* what earlier failed writes and deletes left only in memory, and no other.
AckedIsStored ==
    pc = "idle" /\ reply = Reply("write", TRUE) =>
        \A s \in Persisted : diskTable[s] = table[s]

\* What `fs` and `ls` report after a successful boot, write or delete is what the
\* table holds: on a drive that works, the count and the copied rows never drift.
InfoFresh ==
    pc = "idle" /\ reply \in {"boot", "write", "delete"} =>
        /\ cache = table
        /\ used_files = Cardinality(UsedSlots(table))

\* Every boot and every write ends, in success or failure.
CallReturns == (pc # "idle") ~> (pc = "idle")

\* The debugging notes: an unexpected format means the magic or the version on
\* disk does not match.
FormatsOnlyForeign == pc = "fmtSuper" => ~superblock

\* The expected behaviour of the test plan: rmfs deletes the file (it exists,
\* and the drive has not failed).
RmfsDeletes ==
    [][\A n \in Names : DeleteFile(n) => reply' # "failed"]_vars

=============================================================================
