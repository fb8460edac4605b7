---------------------------- MODULE FsAtomicProofs ----------------------------
(***************************************************************************)
(* Proofs about Fs on drives that keep their word, for every table, disk,   *)
(* set of names and contents: what an acknowledged write and a fresh        *)
(* listing mean; that every step of Fs is a step of AtomicStore when        *)
(* nothing but power fails; and that, whatever else the drive reports, it   *)
(* is a step of FileStore, which the programs above fs.c are modelled on.   *)
(***************************************************************************)
EXTENDS FsAtomic, FsProofs

-----------------------------------------------------------------------------
(* What the refinement needs of a state, besides FsInv and NoTwin.          *)

\* The entry e is a file: its sectors hold one content.
WholeFile(e) == \E c \in Contents : Holds(e, [name |-> e.name, content |-> c])

\* Every file on the disk is whole, promised or not.
DiskWhole == \A s \in Persisted : diskTable[s].used => WholeFile(diskTable[s])

Blanked == \A s \in Persisted : diskTable[s] = NoEntry

\* Only a disk without files is formatted.
FormatsBlank ==
    /\ pc \in BootSteps \ {"off"} => present
    /\ pc = "super" => ~latched
    /\ superblock => TotalSectors > 0
    /\ mounted \/ pc \in {"fmtTable", "loadTable"} => superblock
    /\ ~superblock \/ pc \in {"fmtSuper", "fmtTable"} => Blanked

\* While the drive takes commands, memory and the stored entries differ in the slot of
\* the write under way at most, whose old version has the same name and lies before the
\* new.
InStep ==
    /\ mounted => present
    /\ mounted /\ ~latched /\ pc \notin {"data", "store"} => \A s \in Persisted : diskTable[s] = table[s]
    /\ pc \in {"data", "store"} => op.kept = op.i
    /\ pc \in {"data", "store"} /\ ~latched => \A s \in Persisted :
         /\ s # op.idx => diskTable[s] = table[s]
         /\ s = op.idx /\ diskTable[s].used => diskTable[s].name = table[s].name
         /\ diskTable[s].used => End(diskTable[s]) <= op.start

AtomInv == DiskWhole /\ FormatsBlank /\ InStep

-----------------------------------------------------------------------------
(* Facts about the operators.                                               *)

\* On a drive without silent losses a write that is reported as done was done.
LEMMA HonestWrite ==
  ASSUME "lost" \notin Faults, OverrunWrites = {"reject"}, NEW lba, NEW o \in ata_write_sectors(lba), o.ok
  PROVE  o.stored
<1>1. ~Refused.ok /\ ~TimedOut.ok /\ Done.stored /\ \A f \in BOOLEAN : ~Rejected(f).ok /\ Lost(f).ok
  BY DEF Refused, TimedOut, Done, Rejected, Lost
<1>2. \A f \in BOOLEAN : \A x \in FlushFailed(f) : ~x.ok
  BY DEF FlushFailed
<1>3. CASE ~Ready
  BY <1>1, <1>3 DEF ata_write_sectors
<1>4. CASE Ready /\ lba >= TotalSectors
  BY <1>1, <1>4 DEF ata_write_sectors
<1>5. CASE Ready /\ ~(lba >= TotalSectors)
  BY <1>1, <1>2, <1>5 DEF ata_write_sectors, MayFail
<1> QED BY <1>3, <1>4, <1>5

\* A drive without faults carries a command out, or raises ERR.
LEMMA FaultlessWrite ==
  ASSUME Faults = {}, AtaTypeOK, NEW lba, NEW o \in ata_write_sectors(lba)
  PROVE  /\ o.ok => present /\ ~latched /\ ~o.latch
         /\ ~o.ok => ~o.stored /\ (present => o.latch)
<1>1. ~MayFail("reject") /\ ~MayFail("timeout") /\ ~MayFail("flushErr") /\ ~MayFail("flushSlow") /\ ~MayFail("lost")
  BY DEF MayFail
<1>2. CASE ~Ready
  BY <1>2 DEF ata_write_sectors, Refused, Ready, AtaTypeOK
<1>3. CASE Ready /\ lba >= TotalSectors
  BY <1>3 DEF ata_write_sectors, Rejected, Lost, Ready
<1>4. CASE Ready /\ ~(lba >= TotalSectors)
  BY <1>1, <1>4 DEF ata_write_sectors, Done, Ready
<1> QED BY <1>2, <1>3, <1>4

\* No transfer lowers a raised ERR.
LEMMA ErrStays ==
  ASSUME AtaTypeOK, latched, NEW lba, NEW count
  PROVE  /\ \A o \in ata_read_sectors(lba, count) : ~o.ok /\ o.latch
         /\ \A o \in ata_write_sectors(lba) : ~o.ok /\ o.latch
BY DEF AtaTypeOK, ata_read_sectors, ata_write_sectors, Ready, Refused

\* A working drive reads one sector, or shows ERR and the sector is past its end.
LEMMA WorkingRead ==
  ASSUME WorkingDrive, AtaTypeOK, NEW lba \in Nat, NEW o \in ata_read_sectors(lba, 1), Ready
  PROVE  /\ o.ok => ~o.latch
         /\ ~o.ok => o.latch /\ lba >= TotalSectors
<1>1. ~MayFail("reject") /\ ~MayFail("timeout")
  BY DEF WorkingDrive, MayFail
<1>2. CASE lba >= TotalSectors
  BY <1>2 DEF ata_read_sectors, Rejected
<1>3. CASE ~(lba >= TotalSectors)
  <2>1. ~(lba + 1 > TotalSectors)
    BY <1>3, AtaAssumption
  <2> QED BY <1>1, <1>3, <2>1 DEF ata_read_sectors, Done
<1> QED BY <1>2, <1>3

\* Only an empty file has no block.
LEMMA NoBlock == ASSUME NEW n \in Nat, Blocks(n) = 0 PROVE n = 0
<1>1. \A b \in Nat \ {0} : (n + b - 1) \div b = 0 => n + b - 1 < b
  OBVIOUS
<1> QED BY <1>1, FsAssumption DEF Blocks

\* The sectors of an entry hold at most one content: its first block, or its having
\* none, tells which.
LEMMA OneContent ==
  ASSUME NEW e, NEW n, NEW c \in Contents, NEW d \in Contents,
         Holds(e, [name |-> n, content |-> c]), Holds(e, [name |-> n, content |-> d])
  PROVE  c = d
<1>1. Size[c] = e.size /\ Size[d] = e.size /\ e.size \in Nat
  BY FsAssumption DEF Holds
<1>2. CASE Blocks(e.size) = 0
  BY <1>1, <1>2, NoBlock, FsAtomicAssumption
<1>3. CASE Blocks(e.size) # 0
  <2>1. 0 \in 0 .. Blocks(e.size) - 1
    BY <1>1, <1>3, BlocksNat
  <2>2. data[e.start + 0] = <<c, 0>> /\ data[e.start + 0] = <<d, 0>>
    BY <2>1 DEF Holds
  <2> QED BY <2>2
<1> QED BY <1>2, <1>3

\* What a boot would find under a name.
LEMMA FileFound ==
  TypeOK /\ NoTwin => \A s \in Persisted, c \in Contents :
    diskTable[s].used /\ Holds(diskTable[s], [name |-> diskTable[s].name, content |-> c])
      => FileOnDisk(diskTable[s].name) = c
<1> SUFFICES ASSUME TypeOK, NoTwin, NEW s \in Persisted, NEW c \in Contents, diskTable[s].used,
                    Holds(diskTable[s], [name |-> diskTable[s].name, content |-> c])
             PROVE  FileOnDisk(diskTable[s].name) = c
  OBVIOUS
<1> DEFINE e == diskTable[s]
           n == e.name
           whole == {d \in Contents : Holds(e, [name |-> n, content |-> d])}
<1>1. OnDisk(n) = {s}
  BY UniqueOver DEF OnDisk, NoTwin, Unique, UsedSlots, TypeOK
<1>2. (CHOOSE u \in OnDisk(n) : First(OnDisk(n), u)) = s
  BY <1>1 DEF First, Persisted, Slots
<1>3. whole = {c}
  BY OneContent
<1>4. FileOnDisk(n) = IF whole = {} THEN Corrupt ELSE CHOOSE d \in whole : TRUE
  <2> HIDE DEF n
  <2>1. diskTable[CHOOSE u \in OnDisk(n) : First(OnDisk(n), u)] = e
    BY <1>2
  <2> QED BY <1>1, <2>1 DEF FileOnDisk
<1> QED BY <1>3, <1>4

LEMMA FileAbsent == \A n : OnDisk(n) = {} => FileOnDisk(n) = Absent
BY DEF FileOnDisk

-----------------------------------------------------------------------------
(* What an acknowledged write and a fresh listing mean.                     *)

\* fs_init answers for itself: no write is acknowledged before it has ended.
AckInv == AckedIsStored /\ (pc \in BootSteps => reply = "boot")

LEMMA AckStep ==
  ASSUME HonestDrive, TypeOK, AckInv, [Next]_vars
  PROVE  AckInv'
<1>1. CASE Boot \/ LoadSuperblock
  BY <1>1 DEF AckInv, AckedIsStored, Boot, LoadSuperblock, BootSteps, Reply
<1>2. CASE FormatSuperblock \/ FormatTable \/ LoadTable
  BY <1>2 DEF AckInv, AckedIsStored, FormatSuperblock, FormatTable, LoadTable, BootSteps, Reply
<1>3. CASE WriteBlock
  BY <1>3 DEF AckInv, AckedIsStored, WriteBlock, BootSteps, Reply
<1>4. CASE WriteStore
  <2>1. PICK o \in ata_write_sectors(FS_TABLE_LBA) :
           StoreTable(o, table, ledger') /\ reply' = Reply("write", o.ok)
    BY <1>4 DEF WriteStore
  <2>2. pc' = "idle" /\ table' = table
    BY <1>4 DEF WriteStore
  <2>3. CASE o.ok
    <3>1. diskTable' = [s \in Persisted |-> table[s]]
      BY <2>1, <2>3, HonestWrite DEF StoreTable, HonestDrive
    <3> QED BY <2>2, <3>1 DEF AckInv, AckedIsStored, BootSteps
  <2>4. CASE ~o.ok
    BY <2>1, <2>2, <2>4 DEF AckInv, AckedIsStored, BootSteps, Reply
  <2> QED BY <2>3, <2>4
<1>5. ASSUME NEW name \in Names, NEW c \in Contents, WriteEntry(name, c) PROVE AckInv'
  BY <1>5 DEF AckInv, AckedIsStored, WriteEntry, BootSteps
<1>6. ASSUME NEW name \in Names, DeleteFile(name) PROVE AckInv'
  BY <1>6 DEF AckInv, AckedIsStored, DeleteFile, BootSteps, Reply
<1>7. ASSUME NEW name \in Names, NEW b \in Buffers, ReadFile(name, b) PROVE AckInv'
  <2>1. pc' = pc /\ pc = "idle" /\ reply' \in {"read", "failed"}
    BY <1>7 DEF ReadFile, Reply
  <2> QED BY <2>1 DEF AckInv, AckedIsStored, BootSteps, Reply
<1>8. ASSUME pc = "idle", pc' = pc, reply' = "failed" PROVE AckInv'
  BY <1>8 DEF AckInv, AckedIsStored, BootSteps, Reply
<1>9. CASE Call
  BY <1>5, <1>6, <1>7, <1>8, <1>9 DEF Call, WriteRefused, DeleteRefused, ReadRefused, Reply
<1>10. CASE Crash
  BY <1>10 DEF AckInv, AckedIsStored, Crash, BootSteps, Reply
<1>11. CASE UNCHANGED vars
  BY <1>11 DEF AckInv, AckedIsStored, vars, diskVars
<1> QED BY <1>1, <1>2, <1>3, <1>4, <1>9, <1>10, <1>11 DEF Next, Startup, Continue

\* fs_write_file: once a write has been acknowledged, every entry that lies in the sector
\* of the table is on the disk as the kernel lists it, the ones that earlier failed calls
\* left in memory included, and none besides - whatever part of the table fits the
\* sector, if no write is lost in silence.
THEOREM AckedReachesDisk == ASSUME HonestDrive PROVE Spec => []AckedIsStored
<1>1. Init => AckInv
  BY DEF Init, AckInv, AckedIsStored, Reply
<1>2. TypeOK /\ AckInv /\ [Next]_vars => AckInv'
  BY AckStep
<1>3. AckInv => AckedIsStored
  BY DEF AckInv
<1> QED BY <1>1, <1>2, <1>3, FsTypeCorrect, PTL DEF Spec

\* The listing is the table.
Listed == cache = table /\ used_files = Cardinality(UsedSlots(table))

\* Whatever was refused or failed in between, the listing is fresh as long as the drive
\* takes commands: without faults, what fails is past the end and leaves ERR raised.
ListInv ==
    /\ InfoFresh
    /\ mounted => present
    /\ pc \in BootSteps \ {"off"} => present
    /\ mounted /\ ~latched /\ pc = "idle" => Listed

\* An entry that is removed leaves one less.
LEMMA OneRemoved ==
  ASSUME TypeOK, NEW idx \in Slots, table[idx].used, table' = [table EXCEPT ![idx] = NoEntry]
  PROVE  Cardinality(UsedSlots(table')) = OneLess(Cardinality(UsedSlots(table)))
<1>1. IsFiniteSet(UsedSlots(table)) /\ Cardinality(UsedSlots(table)) \in Nat
  <2>1. IsFiniteSet(Slots) /\ UsedSlots(table) \subseteq Slots
    BY FsAssumption, FS_Interval DEF Slots, UsedSlots, TypeOK
  <2> QED BY <2>1, FS_Subset, FS_CardinalityType
<1>2. idx \in UsedSlots(table) /\ UsedSlots(table') = UsedSlots(table) \ {idx}
  BY DEF UsedSlots, TypeOK, NoEntry
<1>3. Cardinality(UsedSlots(table')) = Cardinality(UsedSlots(table)) - 1
  BY <1>1, <1>2, FS_RemoveElement
<1>4. Cardinality(UsedSlots(table)) # 0
  BY <1>1, <1>2, FS_EmptySet
<1> QED BY <1>1, <1>3, <1>4 DEF OneLess

LEMMA ListStep ==
  ASSUME Faults = {}, TypeOK, Unmounted, ListInv, [Next]_vars
  PROVE  ListInv'
<1>t. AtaTypeOK
  BY DEF TypeOK
<1>1. CASE Boot
  BY <1>1 DEF ListInv, InfoFresh, Boot, ata_init, ClearMemory, BootSteps
<1>2. CASE LoadSuperblock
  BY <1>2 DEF ListInv, InfoFresh, LoadSuperblock, Transfer, BootSteps, Unmounted, infoVars
<1>3. CASE FormatSuperblock
  BY <1>3 DEF ListInv, InfoFresh, FormatSuperblock, Transfer, BootSteps, Unmounted, infoVars, Reply
<1>4. CASE FormatTable
  <2>1. PICK o \in ata_write_sectors(FS_TABLE_LBA) :
          /\ Transfer(o) /\ mounted' = o.ok /\ reply' = Reply("boot", o.ok)
          /\ cache' = IF o.ok THEN table ELSE cache
    BY <1>4 DEF FormatTable
  <2>2. /\ pc = "fmtTable" /\ pc' = "idle" /\ table' = table /\ used_files' = 0
    BY <1>4 DEF FormatTable
  <2>3. UsedSlots(table') = {}
    BY <2>2 DEF Unmounted, BootSteps, UsedSlots, TypeOK, NoEntry
  <2>4. present' = present /\ present
    BY <2>1, <2>2 DEF Transfer, ListInv, BootSteps
  <2>5. CASE o.ok
    BY <2>1, <2>2, <2>3, <2>4, <2>5, FS_EmptySet DEF ListInv, InfoFresh, Listed, BootSteps
  <2>6. CASE ~o.ok
    BY <2>1, <2>2, <2>4, <2>6 DEF ListInv, InfoFresh, BootSteps, Reply
  <2> QED BY <2>5, <2>6
<1>5. CASE LoadTable
  BY <1>5 DEF ListInv, InfoFresh, Listed, LoadTable, Transfer, BootSteps
<1>6. CASE WriteBlock
  <2>1. PICK o \in ata_write_sectors(op.start + op.i) :
           Transfer(o) /\ (o.ok => pc' \in {"data", "store"})
                       /\ (~o.ok => pc' = "idle" /\ reply' = Reply("write", FALSE))
    BY <1>6 DEF WriteBlock
  <2>2. pc = "data" /\ mounted' = mounted /\ present' = present /\ latched' = o.latch
    BY <1>6, <2>1 DEF WriteBlock, infoVars, Transfer
  <2>3. ~o.ok /\ present => o.latch
    BY <1>t, FaultlessWrite
  <2> QED BY <2>1, <2>2, <2>3 DEF ListInv, InfoFresh, BootSteps, Reply
<1>7. CASE WriteStore
  <2>1. PICK o \in ata_write_sectors(FS_TABLE_LBA) :
          /\ Transfer(o) /\ reply' = Reply("write", o.ok)
          /\ IF o.ok THEN used_files' = Cardinality(UsedSlots(table)) /\ cache' = table
             ELSE UNCHANGED <<used_files, cache>>
    BY <1>7 DEF WriteStore
  <2>2. /\ pc = "store" /\ pc' = "idle" /\ mounted' = mounted /\ table' = table
        /\ present' = present /\ latched' = o.latch
    BY <1>7, <2>1 DEF WriteStore, Transfer
  <2>3. ~o.ok /\ present => o.latch
    BY <1>t, FaultlessWrite
  <2> QED BY <2>1, <2>2, <2>3 DEF ListInv, InfoFresh, Listed, BootSteps, Reply
<1>8. ASSUME NEW name \in Names, NEW c \in Contents, WriteEntry(name, c) PROVE ListInv'
  BY <1>8 DEF ListInv, InfoFresh, WriteEntry, BootSteps, ataVars, infoVars
<1>9. ASSUME NEW name \in Names, DeleteFile(name) PROVE ListInv'
  <2>1. PICK idx \in Slots, o \in ata_write_sectors(FS_TABLE_LBA) :
          /\ fs_find_entry(name, idx) /\ Transfer(o) /\ reply' = Reply("delete", o.ok)
          /\ table' = [table EXCEPT ![idx] = NoEntry]
          /\ IF o.ok THEN used_files' = OneLess(used_files) /\ cache' = table'
             ELSE UNCHANGED <<used_files, cache>>
    BY <1>9 DEF DeleteFile
  <2>2. /\ pc = "idle" /\ pc' = pc /\ mounted' = mounted
        /\ present' = present /\ latched' = o.latch
    BY <1>9, <2>1 DEF DeleteFile, Transfer
  <2>3. table[idx].used /\ mounted
    BY <2>1 DEF fs_find_entry, First, Matching, Unmounted, NoEntry
  <2>4. /\ o.ok => ~latched
        /\ ~o.ok /\ present => o.latch
    BY <1>t, FaultlessWrite
  <2>5. CASE o.ok
    <3>1. Listed
      BY <2>2, <2>3, <2>4, <2>5 DEF ListInv
    <3>2. Listed'
      BY <2>1, <2>3, <2>5, <3>1, OneRemoved DEF Listed
    <3> QED BY <2>2, <2>3, <3>2 DEF ListInv, InfoFresh, Listed, BootSteps
  <2>6. CASE ~o.ok
    BY <2>1, <2>2, <2>3, <2>4, <2>6 DEF ListInv, InfoFresh, BootSteps, Reply
  <2> QED BY <2>5, <2>6
<1>10. ASSUME NEW name \in Names, NEW b \in Buffers, ReadFile(name, b) PROVE ListInv'
  <2>1. PICK s \in Slots :
          \/ reply' = Reply("read", TRUE) /\ UNCHANGED ataVars
          \/ \E o \in ata_read_sectors(table[s].start, ReadCount(table[s])) :
                Transfer(o) /\ reply' = Reply("read", o.ok)
    BY <1>10 DEF ReadFile
  <2>2. reply' \in {"read", "failed"} /\ present' = present /\ (~latched' => ~latched)
    BY <1>t, <2>1, ErrStays DEF Reply, Transfer, ataVars
  <2> QED BY <1>10, <2>2 DEF ListInv, InfoFresh, Listed, ReadFile, BootSteps, infoVars
<1>11. ASSUME reply' = "failed",
              UNCHANGED <<ataVars, diskVars, table, cache, infoVars, pc, op, ledgers, crashes>>
       PROVE  ListInv'
  BY <1>11 DEF ListInv, InfoFresh, Listed, ataVars, infoVars
<1>12. CASE Call
  BY <1>8, <1>9, <1>10, <1>11, <1>12 DEF Call, WriteRefused, DeleteRefused, ReadRefused, Reply
<1>13. CASE Crash
  BY <1>13 DEF ListInv, InfoFresh, Crash, ClearMemory, ataVars
<1>14. CASE UNCHANGED vars
  BY <1>14 DEF ListInv, InfoFresh, Listed, vars, ataVars, infoVars
<1> QED BY <1>1, <1>2, <1>3, <1>4, <1>5, <1>6, <1>7, <1>12, <1>13, <1>14 DEF Next, Startup, Continue

\* What `fs` and `ls` report after a successful boot, write or delete is the table and
\* the number of its files: on a drive without faults cache and count never drift, not
\* even over calls that run off the end of the disk.
THEOREM ListingIsFresh == ASSUME Faults = {} PROVE Spec => []InfoFresh
<1>1. Init => ListInv
  BY DEF Init, ListInv, InfoFresh
<1>2. TypeOK /\ Unmounted /\ ListInv /\ [Next]_vars => ListInv'
  BY ListStep
<1>3. FsInv => TypeOK /\ Unmounted
  BY DEF FsInv
<1>4. ListInv => InfoFresh
  BY DEF ListInv
<1> QED BY <1>1, <1>2, <1>3, <1>4, FsInvariant, PTL DEF Spec

-----------------------------------------------------------------------------
(* Names.                                                                   *)

\* Whatever is listed has one of the names that callers pass.
KnownNames ==
    /\ \A s \in Slots : table[s].used => table[s].name \in Names
    /\ \A s \in Persisted : diskTable[s].used => diskTable[s].name \in Names

LEMMA KnownStep == ASSUME TypeOK, Safe, KnownNames, [Next]_vars PROVE KnownNames'
<1>1. ASSUME table' \in {table, [s \in Slots |-> NoEntry], [s \in Slots |-> IF s \in Persisted THEN diskTable[s] ELSE NoEntry]},
             diskTable' \in {diskTable, [s \in Persisted |-> table'[s]]}
      PROVE  KnownNames'
  <2>1. \A s \in Slots : table'[s].used => table'[s].name \in Names
    BY <1>1 DEF KnownNames, NoEntry
  <2> QED BY <1>1, <2>1 DEF KnownNames, Persisted
<1>2. CASE Startup \/ Crash \/ UNCHANGED vars
  BY <1>1, <1>2 DEF Startup, Boot, LoadSuperblock, FormatSuperblock, FormatTable, LoadTable, Crash, ClearMemory,
                    diskVars, vars
<1>3. CASE Continue
  BY <1>1, <1>3 DEF Continue, WriteBlock, WriteStore, StoreTable
<1>4. ASSUME NEW name \in Names, NEW c \in Contents, WriteEntry(name, c) PROVE KnownNames'
  <2>1. PICK idx \in Slots, lba \in Ends :
          table' = [table EXCEPT ![idx] =
                [used |-> TRUE, name |-> IF @.used THEN @.name ELSE Trunc[name],
                 start |-> lba, size |-> Size[c]]]
    BY <1>4 DEF WriteEntry
  <2>2. table'[idx].name \in Names
    BY <2>1, FsAssumption DEF KnownNames, TypeOK
  <2> QED BY <1>4, <2>1, <2>2 DEF WriteEntry, KnownNames, diskVars, TypeOK
<1>5. ASSUME NEW name \in Names, DeleteFile(name) PROVE KnownNames'
  <2>1. PICK idx \in Slots : table' = [table EXCEPT ![idx] = NoEntry]
    BY <1>5 DEF DeleteFile
  <2>2. \A s \in Slots : table'[s].used => table'[s].name \in Names
    BY <2>1 DEF KnownNames, NoEntry, TypeOK
  <2>3. diskTable' \in {diskTable, [s \in Persisted |-> table'[s]]}
    BY <1>5 DEF DeleteFile, StoreTable
  <2> QED BY <2>2, <2>3 DEF KnownNames, Persisted
<1>6. CASE Call
  BY <1>1, <1>4, <1>5, <1>6 DEF Call, WriteRefused, DeleteRefused, ReadRefused, ReadFile, diskVars
<1> QED BY <1>2, <1>3, <1>6 DEF Next

-----------------------------------------------------------------------------
(* AtomInv is inductive, given FsInv.                                       *)

\* On a working drive, with names that are not cut.
AtomicSetting == WorkingDrive /\ NamesFit

\* Before a volume is mounted there is nothing in memory to compare with the disk.
LEMMA AtomStartup ==
  ASSUME AtomicSetting, TypeOK, Safe, AtomInv, Startup
  PROVE  AtomInv'
<1>t. AtaTypeOK /\ WorkingDrive
  BY DEF AtomicSetting, TypeOK
<1>0. pc \in BootSteps /\ ~mounted /\ \A s \in Slots : table[s] = NoEntry
  BY DEF Startup, Boot, LoadSuperblock, FormatSuperblock, FormatTable, LoadTable, BootSteps, Safe, Unmounted
<1>d. ASSUME UNCHANGED <<diskTable, data>> PROVE DiskWhole'
  BY <1>d DEF AtomInv, DiskWhole, WholeFile, Holds
<1>1. CASE Boot
  <2>1. /\ pc' = "super" /\ present' = TRUE /\ latched' = FALSE /\ mounted' = FALSE
        /\ UNCHANGED diskVars /\ pc = "off"
    BY <1>1, <1>t DEF Boot, ata_init, WorkingDrive, ClearMemory
  <2> QED BY <1>d, <2>1 DEF AtomInv, FormatsBlank, Blanked, InStep, diskVars
<1>2. CASE LoadSuperblock
  <2>1. PICK o \in ata_read_sectors(0, 1) :
          Transfer(o) /\ pc' = IF o.ok /\ superblock THEN "loadTable" ELSE "fmtSuper"
    BY <1>2 DEF LoadSuperblock
  <2>2. /\ pc = "super" /\ mounted' = mounted /\ present' = present
        /\ UNCHANGED diskVars
    BY <1>2, <2>1 DEF LoadSuperblock, infoVars, Transfer
  <2>3. present /\ ~latched
    BY <2>2 DEF AtomInv, FormatsBlank, BootSteps
  <2>4. ~o.ok => 0 >= TotalSectors
    BY <1>t, <2>3, WorkingRead DEF Ready
  <2>5. pc' = "fmtSuper" => ~superblock
    BY <2>1, <2>4, AtaAssumption DEF AtomInv, FormatsBlank
  <2> QED BY <1>0, <1>d, <2>1, <2>2, <2>3, <2>5 DEF AtomInv, FormatsBlank, Blanked, InStep, diskVars
<1>3. CASE FormatSuperblock
  <2>1. PICK o \in ata_write_sectors(0) :
          /\ Transfer(o) /\ superblock' = (o.stored \/ superblock)
          /\ pc' = IF o.ok THEN "fmtTable" ELSE "idle"
    BY <1>3 DEF FormatSuperblock
  <2>2. /\ pc = "fmtSuper" /\ mounted' = mounted /\ present' = present
        /\ UNCHANGED <<diskTable, data>>
    BY <1>3, <2>1 DEF FormatSuperblock, infoVars, Transfer
  <2>3. present /\ Blanked
    BY <2>2 DEF AtomInv, FormatsBlank, BootSteps
  <2>4. o.stored => TotalSectors > 0
    BY <1>t, WriteOutcomes, AtaAssumption
  <2>5. o.ok => o.stored
    BY <1>t, HonestWrite DEF WorkingDrive
  <2> QED BY <1>0, <1>d, <2>1, <2>2, <2>3, <2>4, <2>5 DEF AtomInv, FormatsBlank, Blanked, InStep
<1>4. CASE FormatTable
  <2>1. PICK o \in ata_write_sectors(FS_TABLE_LBA) :
          /\ Transfer(o) /\ mounted' = o.ok
          /\ diskTable' = IF o.stored THEN [s \in Persisted |-> table[s]] ELSE diskTable
    BY <1>4 DEF FormatTable
  <2>2. /\ pc = "fmtTable" /\ pc' = "idle" /\ table' = table /\ superblock' = superblock
        /\ present' = present /\ latched' = o.latch
    BY <1>4, <2>1 DEF FormatTable, Transfer
  <2>3. present /\ Blanked /\ superblock
    BY <2>2 DEF AtomInv, FormatsBlank, BootSteps
  <2>4. Blanked' /\ \A s \in Persisted : diskTable'[s] = table'[s]
    BY <1>0, <1>t, <2>1, <2>2, <2>3 DEF Blanked, Persisted
  <2>5. DiskWhole'
    BY <2>4 DEF Blanked, DiskWhole, NoEntry
  <2> QED BY <1>t, <2>1, <2>2, <2>3, <2>4, <2>5 DEF AtomInv, FormatsBlank, InStep
<1>5. CASE LoadTable
  <2>1. PICK o \in ata_read_sectors(FS_TABLE_LBA, 1) :
          /\ Transfer(o) /\ mounted' = o.ok
          /\ o.ok => table' = [s \in Slots |-> IF s \in Persisted THEN diskTable[s] ELSE NoEntry]
    BY <1>5 DEF LoadTable
  <2>2. /\ pc = "loadTable" /\ pc' = "idle" /\ present' = present /\ UNCHANGED diskVars
    BY <1>5, <2>1 DEF LoadTable, Transfer
  <2>3. present
    BY <2>2 DEF AtomInv, FormatsBlank, BootSteps
  <2> QED BY <1>d, <1>t, <2>1, <2>2, <2>3 DEF AtomInv, FormatsBlank, Blanked, InStep, diskVars, Persisted
<1> QED BY <1>1, <1>2, <1>3, <1>4, <1>5 DEF Startup

\* A block that is stored lies past every file on the disk.
LEMMA BlockKeeps ==
  ASSUME AtomicSetting, TypeOK, Safe, AtomInv, WriteBlock,
         NEW s \in Persisted, diskTable[s].used, NEW p, Holds(diskTable[s], p)
  PROVE  Holds(diskTable[s], p)'
<1> DEFINE lba == op.start + op.i
<1>t. AtaTypeOK /\ WorkingDrive
  BY DEF AtomicSetting, TypeOK
<1>1. PICK o \in ata_write_sectors(lba) :
        data' = IF o.stored THEN [data EXCEPT ![lba] = <<op.content, op.i>>] ELSE data
  BY DEF WriteBlock
<1>2. pc = "data" /\ diskTable' = diskTable /\ op.start \in Nat /\ op.i \in Nat
  BY DEF WriteBlock, TypeOK, Writing
<1>3. CASE o.stored
  <2>1. ~latched
    BY <1>3, <1>t, FaultlessWrite DEF WorkingDrive
  <2>2. End(diskTable[s]) <= op.start /\ diskTable[s] \in Entry
    BY <1>2, <1>t, <2>1 DEF AtomInv, InStep, TypeOK
  <2>3. \A i \in 0 .. Blocks(diskTable[s].size) - 1 : diskTable[s].start + i # lba
    BY <1>2, <2>2, BlocksNat DEF End, Entry
  <2>4. \A l \in DataLbas : l # lba => data'[l] = data[l]
    BY <1>1 DEF TypeOK
  <2> QED BY <1>2, <2>3, <2>4 DEF Holds
<1>4. CASE ~o.stored
  BY <1>1, <1>2, <1>4 DEF Holds
<1> QED BY <1>3, <1>4

LEMMA AtomWriteBlock ==
  ASSUME AtomicSetting, TypeOK, Safe, AtomInv, WriteBlock
  PROVE  AtomInv'
<1>t. AtaTypeOK /\ WorkingDrive
  BY DEF AtomicSetting, TypeOK
<1> DEFINE lba == op.start + op.i
<1>1. PICK o \in ata_write_sectors(lba) :
        /\ Transfer(o)
        /\ data' = IF o.stored THEN [data EXCEPT ![lba] = <<op.content, op.i>>] ELSE data
        /\ IF o.ok
           THEN /\ pc' = IF op.i + 1 = Blocks(Size[op.content]) THEN "store" ELSE "data"
                /\ op' = [op EXCEPT !.i = @ + 1, !.kept = IF o.stored THEN @ + 1 ELSE @]
           ELSE pc' = "idle"
  BY DEF WriteBlock
<1>2. /\ pc = "data" /\ table' = table /\ mounted' = mounted /\ diskTable' = diskTable
      /\ superblock' = superblock /\ present' = present /\ latched' = o.latch
  BY <1>1 DEF WriteBlock, infoVars, Transfer
<1>3. /\ op \in Writing /\ op.idx \in Slots /\ op.start \in Nat /\ op.i \in Nat /\ op.kept = op.i
      /\ mounted /\ present
  BY <1>2 DEF TypeOK, Writing, Safe, WriteInv, AtomInv, InStep
<1>4. /\ o.ok => o.stored /\ ~latched /\ ~o.latch
      /\ ~o.ok => ~o.stored /\ o.latch
  BY <1>3, <1>t, FaultlessWrite, HonestWrite DEF WorkingDrive
<1>5. DiskWhole'
  <2> SUFFICES ASSUME NEW s \in Persisted, diskTable[s].used PROVE WholeFile(diskTable[s])'
    BY <1>2 DEF DiskWhole
  <2>1. PICK c \in Contents : Holds(diskTable[s], [name |-> diskTable[s].name, content |-> c])
    BY DEF AtomInv, DiskWhole, WholeFile
  <2>2. PICK n : n = diskTable[s].name
    OBVIOUS
  <2>3. Holds(diskTable[s], [name |-> n, content |-> c])'
    BY <2>1, <2>2, BlockKeeps
  <2> QED BY <1>2, <2>2, <2>3 DEF WholeFile
<1>6. FormatsBlank'
  BY <1>1, <1>2, <1>3 DEF AtomInv, FormatsBlank, Blanked, BootSteps
<1>7. InStep'
  <2>1. CASE o.ok
    <3>1. /\ op'.idx = op.idx /\ op'.start = op.start /\ op'.kept = op'.i /\ pc' \in {"data", "store"}
      BY <1>1, <1>3, <1>4, <2>1 DEF Writing
    <3> QED BY <1>2, <1>4, <2>1, <3>1 DEF AtomInv, InStep
  <2>2. CASE ~o.ok
    BY <1>1, <1>2, <1>3, <1>4, <2>2 DEF InStep
  <2> QED BY <2>1, <2>2
<1> QED BY <1>5, <1>6, <1>7 DEF AtomInv

\* When the table is to be stored, the file written is whole.
LEMMA WrittenWhole ==
  ASSUME TypeOK, Safe, AtomInv, pc = "store"
  PROVE  /\ op.idx \in Slots /\ op.content \in Contents
         /\ Holds(table[op.idx], [name |-> table[op.idx].name, content |-> op.content])
<1>1. op \in Writing /\ op.kept = op.i
  BY DEF TypeOK, AtomInv, InStep
<1> QED BY <1>1 DEF Safe, WriteInv, Holds, Writing

LEMMA AtomWriteStore ==
  ASSUME AtomicSetting, TypeOK, Safe, AtomInv, WriteStore
  PROVE  AtomInv'
<1>t. AtaTypeOK /\ WorkingDrive
  BY DEF AtomicSetting, TypeOK
<1>1. PICK o \in ata_write_sectors(FS_TABLE_LBA) : Transfer(o) /\ StoreTable(o, table, ledger')
  BY DEF WriteStore
<1>2. /\ pc = "store" /\ pc' = "idle" /\ table' = table /\ mounted' = mounted /\ data' = data
      /\ superblock' = superblock /\ present' = present /\ latched' = o.latch
  BY <1>1 DEF WriteStore, Transfer
<1>3. mounted /\ present
  BY <1>2 DEF Safe, WriteInv, AtomInv, InStep
<1>4. /\ o.ok => o.stored /\ ~latched /\ ~o.latch
      /\ ~o.ok => ~o.stored /\ o.latch
  BY <1>3, <1>t, FaultlessWrite, HonestWrite DEF WorkingDrive
<1>5. CASE o.ok
  <2>1. \A s \in Persisted : diskTable'[s] = table[s]
    BY <1>1, <1>4, <1>5 DEF StoreTable
  <2>2. ASSUME NEW s \in Persisted, table[s].used PROVE WholeFile(table[s])
    <3>1. CASE s = op.idx
      BY <1>2, <3>1, WrittenWhole DEF WholeFile
    <3>2. CASE s # op.idx
      BY <1>2, <1>4, <1>5, <1>t, <2>2, <3>2 DEF AtomInv, InStep, DiskWhole
    <3> QED BY <3>1, <3>2
  <2>3. DiskWhole'
    <3> SUFFICES ASSUME NEW s \in Persisted, diskTable'[s].used PROVE WholeFile(diskTable[s])'
      BY DEF DiskWhole
    <3>1. diskTable'[s] = table[s]
      BY <2>1
    <3>2. PICK c \in Contents : Holds(table[s], [name |-> table[s].name, content |-> c])
      BY <2>2, <3>1 DEF WholeFile
    <3> QED BY <1>2, <3>1, <3>2 DEF WholeFile, Holds
  <2> QED BY <1>2, <1>3, <1>t, <2>1, <2>3 DEF AtomInv, FormatsBlank, InStep, BootSteps
<1>6. CASE ~o.ok
  <2>1. diskTable' = diskTable
    BY <1>1, <1>4, <1>6 DEF StoreTable
  <2> QED BY <1>2, <1>3, <1>4, <1>6, <2>1
      DEF AtomInv, DiskWhole, WholeFile, Holds, FormatsBlank, Blanked, InStep, BootSteps
<1> QED BY <1>5, <1>6

\* A new file is placed past every file on the disk.
LEMMA AtomWriteEntry ==
  ASSUME AtomicSetting, TypeOK, Safe, AtomInv, NEW name \in Names, NEW c \in Contents, WriteEntry(name, c)
  PROVE  AtomInv'
<1>1. PICK idx \in Slots, lba \in Ends :
        /\ WriteSlot(name, idx)
        /\ fs_next_free_lba(lba)
        /\ table' = [table EXCEPT ![idx] =
              [used |-> TRUE,
               name |-> IF @.used THEN @.name ELSE Trunc[name],
               start |-> lba,
               size |-> Size[c]]]
        /\ op' = [idx |-> idx, start |-> lba, content |-> c, i |-> 0, kept |-> 0]
  BY DEF WriteEntry
<1>2. /\ pc = "idle" /\ pc' \in {"data", "store"} /\ mounted /\ mounted' = mounted
      /\ UNCHANGED diskVars /\ present' = present /\ latched' = latched
  BY DEF WriteEntry, infoVars, ataVars
<1>3. \A s \in Slots : table[s].used => End(table[s]) <= lba
  BY <1>1 DEF fs_next_free_lba, Ends, UsedSlots, TypeOK
<1>4. /\ table'[idx].name = IF table[idx].used THEN table[idx].name ELSE Trunc[name]
      /\ \A s \in Slots : s # idx => table'[s] = table[s]
  BY <1>1 DEF TypeOK
<1>5. table'[idx].used /\ (table[idx].used => table'[idx].name = table[idx].name)
  BY <1>1, <1>4 DEF TypeOK
<1>6. DiskWhole'
  BY <1>2 DEF AtomInv, DiskWhole, WholeFile, Holds, diskVars
<1>7. FormatsBlank'
  BY <1>2 DEF AtomInv, FormatsBlank, Blanked, diskVars, BootSteps
<1>8. InStep'
  <2>1. op'.idx = idx /\ op'.start = lba /\ op'.kept = op'.i
    BY <1>1
  <2>2. ~latched => \A s \in Persisted : diskTable[s] = table[s]
    BY <1>2 DEF AtomInv, InStep
  <2> QED BY <1>2, <1>3, <1>4, <1>5, <2>1, <2>2 DEF AtomInv, InStep, diskVars, Persisted
<1> QED BY <1>6, <1>7, <1>8 DEF AtomInv

LEMMA AtomDeleteFile ==
  ASSUME AtomicSetting, TypeOK, Safe, AtomInv, NEW name \in Names, DeleteFile(name)
  PROVE  AtomInv'
<1>t. AtaTypeOK /\ WorkingDrive
  BY DEF AtomicSetting, TypeOK
<1>1. PICK idx \in Slots, o \in ata_write_sectors(FS_TABLE_LBA) :
        /\ fs_find_entry(name, idx) /\ Transfer(o)
        /\ table' = [table EXCEPT ![idx] = NoEntry]
        /\ IF o.stored THEN StoreTable(o, table', ledger') ELSE UNCHANGED diskTable
  BY DEF DeleteFile
<1>2. /\ pc = "idle" /\ pc' = pc /\ mounted' = mounted /\ data' = data
      /\ superblock' = superblock /\ present' = present /\ latched' = o.latch
  BY <1>1 DEF DeleteFile, Transfer
<1>3. mounted /\ present
  BY <1>1 DEF fs_find_entry, First, Matching, Safe, Unmounted, NoEntry, AtomInv, InStep
<1>4. /\ o.ok => o.stored /\ ~latched /\ ~o.latch
      /\ ~o.ok => ~o.stored /\ o.latch
  BY <1>3, <1>t, FaultlessWrite, HonestWrite DEF WorkingDrive
<1>5. CASE o.ok
  <2>1. \A s \in Persisted : diskTable'[s] = table'[s]
    BY <1>1, <1>4, <1>5 DEF StoreTable
  <2>2. \A s \in Persisted : table'[s].used => table'[s] = diskTable[s]
    BY <1>1, <1>2, <1>3, <1>4, <1>5, <1>t DEF AtomInv, InStep, NoEntry, TypeOK
  <2>3. DiskWhole'
    <3> SUFFICES ASSUME NEW s \in Persisted, diskTable'[s].used PROVE WholeFile(diskTable[s])'
      BY DEF DiskWhole
    <3>1. diskTable'[s] = diskTable[s]
      BY <2>1, <2>2
    <3>2. PICK c \in Contents : Holds(diskTable[s], [name |-> diskTable[s].name, content |-> c])
      BY <3>1 DEF AtomInv, DiskWhole, WholeFile
    <3> QED BY <1>2, <3>1, <3>2 DEF WholeFile, Holds
  <2> QED BY <1>2, <1>3, <1>t, <2>1, <2>3 DEF AtomInv, FormatsBlank, InStep, BootSteps
<1>6. CASE ~o.ok
  <2>1. diskTable' = diskTable
    BY <1>1, <1>4, <1>6
  <2> QED BY <1>2, <1>3, <1>4, <1>6, <2>1
      DEF AtomInv, DiskWhole, WholeFile, Holds, FormatsBlank, Blanked, InStep, BootSteps
<1> QED BY <1>5, <1>6

\* A step that touches neither disk nor memory, and lowers no ERR.
LEMMA AtomSame ==
  ASSUME AtomInv, UNCHANGED <<diskVars, table, mounted, pc, op, present>>, ~latched' => ~latched,
         pc \notin BootSteps
  PROVE  AtomInv'
BY DEF AtomInv, DiskWhole, WholeFile, Holds, FormatsBlank, Blanked, InStep, diskVars, BootSteps

LEMMA AtomCall == ASSUME AtomicSetting, TypeOK, Safe, AtomInv, Call PROVE AtomInv'
<1>t. AtaTypeOK
  BY DEF TypeOK
<1>1. ASSUME NEW name \in Names, NEW b \in Buffers, ReadFile(name, b) PROVE AtomInv'
  <2>1. PICK s \in Slots :
          \/ UNCHANGED ataVars
          \/ \E o \in ata_read_sectors(table[s].start, ReadCount(table[s])) : Transfer(o)
    BY <1>1 DEF ReadFile
  <2>2. present' = present /\ (~latched' => ~latched)
    BY <1>t, <2>1, ErrStays DEF Transfer, ataVars
  <2> QED BY <1>1, <2>2, AtomSame DEF ReadFile, infoVars, BootSteps
<1>2. ASSUME pc = "idle", UNCHANGED <<ataVars, diskVars, table, cache, infoVars, pc, op, ledgers, crashes>>
      PROVE  AtomInv'
  BY <1>2, AtomSame DEF ataVars, infoVars, BootSteps
<1> QED BY <1>1, <1>2, AtomWriteEntry, AtomDeleteFile DEF Call, WriteRefused, DeleteRefused, ReadRefused

LEMMA AtomStep ==
  ASSUME AtomicSetting, TypeOK, Safe, AtomInv, [Next]_vars
  PROVE  AtomInv'
<1>1. CASE Crash
  BY <1>1 DEF AtomInv, DiskWhole, WholeFile, Holds, FormatsBlank, Blanked, InStep, Crash, ClearMemory,
              diskVars, ataVars, BootSteps
<1>2. CASE UNCHANGED vars
  BY <1>2 DEF AtomInv, DiskWhole, WholeFile, Holds, FormatsBlank, Blanked, InStep, vars,
              diskVars, ataVars, infoVars
<1> QED BY <1>1, <1>2, AtomStartup, AtomWriteBlock, AtomWriteStore, AtomCall DEF Next, Continue

-----------------------------------------------------------------------------
(* Every step of Fs is a step of AtomicStore.                               *)

\* What a boot would find after the step, from FileFound.
LEMMA FileFoundNext ==
  (TypeOK /\ NoTwin)' => (\A s \in Persisted, c \in Contents :
    diskTable[s].used /\ Holds(diskTable[s], [name |-> diskTable[s].name, content |-> c])
      => FileOnDisk(diskTable[s].name) = c)'
BY FileFound, PTL

LEMMA FileAbsentNext == (\A n : OnDisk(n) = {} => FileOnDisk(n) = Absent)'
BY FileAbsent, PTL

\* Where a file is, and that a file of that name is whole.
LEMMA WhereFound ==
  ASSUME TypeOK, DiskWhole, NEW n, OnDisk(n) # {}
  PROVE  \E s \in Persisted, c \in Contents :
            diskTable[s].used /\ diskTable[s].name = n /\ Holds(diskTable[s], [name |-> n, content |-> c])
<1>1. PICK s \in Persisted : diskTable[s].used /\ diskTable[s].name = n
  BY DEF OnDisk, UsedSlots, TypeOK
<1> QED BY <1>1 DEF DiskWhole, WholeFile

\* A step that leaves the entries of a name and their sectors leaves its file.
LEMMA SameFile ==
  ASSUME TypeOK, NoTwin, DiskWhole, (TypeOK /\ NoTwin)', NEW n,
         OnDisk(n)' = OnDisk(n),
         \A s \in OnDisk(n) : diskTable'[s] = diskTable[s],
         \A s \in OnDisk(n), c \in Contents :
            Holds(diskTable[s], [name |-> n, content |-> c]) => Holds(diskTable[s], [name |-> n, content |-> c])'
  PROVE  FileOnDisk(n)' = FileOnDisk(n)
<1>1. CASE OnDisk(n) = {}
  BY <1>1, FileAbsent, FileAbsentNext
<1>2. CASE OnDisk(n) # {}
  <2>1. PICK s \in Persisted, c \in Contents :
          diskTable[s].used /\ diskTable[s].name = n /\ Holds(diskTable[s], [name |-> n, content |-> c])
    BY <1>2, WhereFound
  <2>2. s \in OnDisk(n)
    BY <2>1 DEF OnDisk, UsedSlots, TypeOK
  <2>3. diskTable'[s] = diskTable[s] /\ Holds(diskTable[s], [name |-> n, content |-> c])'
    BY <2>1, <2>2
  <2>4. FileOnDisk(n) = c
    BY <2>1, FileFound
  <2>5. FileOnDisk(n)' = c
    BY <2>1, <2>3, FileFoundNext
  <2> QED BY <2>4, <2>5
<1> QED BY <1>1, <1>2

\* The durable map.
Durable == [n \in Names |-> FileOnDisk(n)]

\* A step that leaves the disk leaves the map.
LEMMA SameDisk ==
  ASSUME TypeOK, NoTwin, DiskWhole, (TypeOK /\ NoTwin)', UNCHANGED <<diskTable, data>>
  PROVE  Durable' = Durable
<1>1. ASSUME NEW n \in Names PROVE FileOnDisk(n)' = FileOnDisk(n)
  BY SameFile DEF OnDisk, UsedSlots, Holds
<1> QED BY <1>1 DEF Durable

\* No write under way: no request.
LEMMA NoWrite == pc \notin {"data", "store"} => Underway = NoRequest
BY DEF Underway

LEMMA NoWriteNext == pc' \notin {"data", "store"} => Underway' = NoRequest
BY DEF Underway

RefInv == TypeOK /\ Safe /\ NoTwin /\ KnownNames /\ AtomInv

\* The files that only memory has.
Volatile == IF latched THEN {} ELSE Outside

LEMMA SameMemory ==
  /\ table' = table => Outside' = Outside
  /\ TypeOK /\ (\A s \in Slots : table[s] = NoEntry) => Outside = {}
  /\ TypeOK' /\ (\A s \in Slots : s \notin Persisted => table'[s] = NoEntry) => Outside' = {}
<1>1. TypeOK => DOMAIN table = Slots
  BY DEF TypeOK
<1>2. TypeOK' => DOMAIN table' = Slots
  BY DEF TypeOK
<1>3. (DOMAIN table = Slots /\ \A s \in Slots : table[s] = NoEntry) => Outside = {}
  BY DEF Outside, UsedSlots, NoEntry
<1>4. (DOMAIN table' = Slots /\ \A s \in Slots : s \notin Persisted => table'[s] = NoEntry) => Outside' = {}
  BY DEF Outside, UsedSlots, NoEntry
<1>5. table' = table => Outside' = Outside
  BY DEF Outside, UsedSlots
<1> QED BY <1>1, <1>2, <1>3, <1>4, <1>5

\* A call that ends without a write, or is cut short, leaves the map.
LEMMA LeaveStep ==
  ASSUME Durable' = Durable, Underway' = NoRequest, reply' \in {"read", "failed", "boot"},
         Volatile' \in {Volatile, {}}
  PROVE  Store!Leave
BY DEF Store!Leave, Durable, Volatile

\* The map is full just when every entry of the sector is used: as many names are on
\* the disk as entries.
LEMMA FullMap ==
  ASSUME RefInv
  PROVE  Store!Full <=> \A s \in Persisted : diskTable[s].used
<1> DEFINE S == UsedSlots(diskTable)
           T == {n \in Names : Durable[n] # Absent}
           f == [s \in S |-> diskTable[s].name]
<1>1. IsFiniteSet(Persisted) /\ S \subseteq Persisted
  <2>1. IsFiniteSet(Slots) /\ Persisted \subseteq Slots
    BY FsAssumption, FS_Interval DEF Slots, Persisted
  <2> QED BY <2>1, FS_Subset DEF RefInv, TypeOK, UsedSlots
<1>2. IsFiniteSet(S) /\ Cardinality(S) \in Nat /\ Cardinality(Persisted) \in Nat
      /\ Cardinality(S) <= Cardinality(Persisted)
      /\ (Cardinality(S) = Cardinality(Persisted) => S = Persisted)
  BY <1>1, FS_Subset, FS_CardinalityType
<1>3. \A s \in S : f[s] \in T
  <2> SUFFICES ASSUME NEW s \in S PROVE diskTable[s].name \in T
    OBVIOUS
  <2>1. s \in Persisted /\ diskTable[s].used /\ diskTable[s].name \in Names
    BY <1>1 DEF RefInv, KnownNames, UsedSlots
  <2>2. PICK c \in Contents : Holds(diskTable[s], [name |-> diskTable[s].name, content |-> c])
    BY <2>1 DEF RefInv, AtomInv, DiskWhole, WholeFile
  <2>3. FileOnDisk(diskTable[s].name) = c
    BY <2>1, <2>2, FileFound DEF RefInv
  <2> QED BY <2>1, <2>3, FsAtomicAssumption DEF Durable
<1>4. ASSUME NEW n \in T PROVE \E s \in S : f[s] = n
  <2>1. OnDisk(n) # {}
    BY FileAbsent DEF Durable
  <2> QED BY <2>1 DEF OnDisk
<1>5. \A s, u \in S : f[s] = f[u] => s = u
  BY DEF RefInv, NoTwin, Unique
<1>6. f \in Bijection(S, T)
  <2>1. f \in [S -> T]
    BY <1>3
  <2> HIDE DEF S, T, f
  <2> QED BY <1>4, <1>5, <2>1 DEF Bijection, Injection, Surjection, IsInjective
<1>7. Cardinality(T) = Cardinality(S)
  <2>1. ExistsBijection(S, T)
    BY <1>6 DEF ExistsBijection
  <2> HIDE DEF S, T, f
  <2> QED BY <1>2, <2>1, FS_Bijection
<1>8. Store!Full <=> Cardinality(T) >= Cardinality(Persisted)
  BY Zenon DEF Store!Full, Durable, Store!Cardinality, Cardinality
<1>9. S = Persisted <=> \A s \in Persisted : diskTable[s].used
  BY <1>1 DEF UsedSlots, RefInv, TypeOK
<1> HIDE DEF S, T
<1> QED BY <1>2, <1>7, <1>8, <1>9

LEMMA RefStartup ==
  ASSUME AtomicSetting, RefInv, RefInv', Startup
  PROVE  [Store!Next]_(Store!svars)
<1>1. pc \notin {"data", "store"} /\ pc' \notin {"data", "store"}
  BY DEF Startup, Boot, LoadSuperblock, FormatSuperblock, FormatTable, LoadTable
<1>2. Underway = NoRequest /\ Underway' = NoRequest
  BY <1>1, NoWrite, NoWriteNext
<1>3. reply' \in {"boot", "failed"} \/ reply' = reply
  BY DEF Startup, Boot, LoadSuperblock, FormatSuperblock, FormatTable, LoadTable, Reply
<1>4. UNCHANGED <<diskTable, data>>
  <2>1. CASE FormatTable
    <3>1. \A s \in Slots : table[s] = NoEntry
      BY <2>1 DEF FormatTable, RefInv, Safe, Unmounted, BootSteps
    <3>2. \A s \in Persisted : diskTable[s] = NoEntry
      BY <2>1 DEF FormatTable, RefInv, AtomInv, FormatsBlank, Blanked
    <3>3. diskTable = [s \in Persisted |-> table[s]]
      BY <3>1, <3>2 DEF RefInv, TypeOK, Persisted
    <3> QED BY <2>1, <3>3 DEF FormatTable
  <2> QED BY <2>1 DEF Startup, Boot, LoadSuperblock, FormatSuperblock, LoadTable, diskVars
<1>5. Durable' = Durable
  BY <1>4, SameDisk DEF RefInv, AtomInv
<1>v. Volatile = {} /\ Volatile' = {}
  <2>1. ~mounted /\ \A s \in Slots : table[s] = NoEntry
    BY DEF Startup, Boot, LoadSuperblock, FormatSuperblock, FormatTable, LoadTable, BootSteps, RefInv, Safe, Unmounted
  <2>2. \A s \in Slots : s \notin Persisted => table'[s] = NoEntry
    BY <2>1 DEF Startup, Boot, LoadSuperblock, FormatSuperblock, FormatTable, LoadTable, ClearMemory
  <2> QED BY <2>1, <2>2, SameMemory DEF Volatile, RefInv
<1>6. CASE reply' = reply
  BY <1>2, <1>5, <1>6, <1>v DEF Store!svars, Durable, Volatile
<1>7. CASE reply' \in {"boot", "failed"}
  BY <1>2, <1>5, <1>7, <1>v, LeaveStep DEF Store!Next
<1> QED BY <1>3, <1>6, <1>7

LEMMA RefWriteBlock ==
  ASSUME AtomicSetting, RefInv, RefInv', WriteBlock
  PROVE  [Store!Next]_(Store!svars)
<1>1. diskTable' = diskTable /\ table' = table /\ pc = "data"
  BY DEF WriteBlock
<1>2. Durable' = Durable
  <2>1. ASSUME NEW n \in Names PROVE FileOnDisk(n)' = FileOnDisk(n)
    <3>1. \A s \in OnDisk(n) : s \in Persisted /\ diskTable[s].used
      BY DEF OnDisk, UsedSlots, RefInv, TypeOK
    <3>2. OnDisk(n)' = OnDisk(n)
      BY <1>1 DEF OnDisk, UsedSlots
    <3>3. ASSUME NEW s \in OnDisk(n), NEW c \in Contents, Holds(diskTable[s], [name |-> n, content |-> c])
          PROVE  Holds(diskTable[s], [name |-> n, content |-> c])'
      BY <3>1, <3>3, BlockKeeps DEF RefInv
    <3> QED BY <1>1, <3>2, <3>3, SameFile DEF RefInv, AtomInv
  <2> QED BY <2>1 DEF Durable
<1>3. \/ /\ pc' \in {"data", "store"} /\ reply' = reply /\ latched' = latched
         /\ op' = [op EXCEPT !.i = @ + 1, !.kept = op'.kept]
      \/ pc' = "idle" /\ reply' = "failed" /\ (latched => latched')
  <2>1. PICK o \in ata_write_sectors(op.start + op.i) :
          /\ Transfer(o)
          /\ IF o.ok THEN /\ pc' \in {"data", "store"} /\ reply' = reply
                          /\ op' = [op EXCEPT !.i = @ + 1, !.kept = op'.kept]
             ELSE pc' = "idle" /\ reply' = "failed"
    BY DEF WriteBlock, Reply
  <2>2. (o.ok => ~latched /\ ~o.latch) /\ (latched => o.latch) /\ latched' = o.latch
    BY <2>1, FaultlessWrite, ErrStays DEF Transfer, AtomicSetting, WorkingDrive, RefInv, TypeOK
  <2>3. latched \in BOOLEAN /\ latched' \in BOOLEAN
    BY DEF RefInv, TypeOK, AtaTypeOK
  <2>4. o.ok => latched' = latched
    BY <2>2, <2>3
  <2> QED BY <2>1, <2>2, <2>4
<1>v. latched' = latched => Volatile' = Volatile
  BY <1>1, SameMemory DEF Volatile
<1>4. CASE pc' = "idle" /\ reply' = "failed" /\ (latched => latched')
  <2>1. Volatile' \in {Volatile, {}}
    BY <1>1, <1>4, SameMemory DEF Volatile
  <2> QED BY <1>2, <1>4, <2>1, NoWriteNext, LeaveStep DEF Store!Next
<1>5. CASE /\ pc' \in {"data", "store"} /\ reply' = reply /\ latched' = latched
           /\ op' = [op EXCEPT !.i = @ + 1, !.kept = op'.kept]
  <2>1. op'.idx = op.idx /\ op'.content = op.content
    BY <1>1, <1>5 DEF RefInv, TypeOK, Writing
  <2>2. Underway' = Underway
    BY <1>1, <1>5, <2>1 DEF Underway
  <2> QED BY <1>2, <1>5, <1>v, <2>2 DEF Store!svars, Durable, Volatile
<1> QED BY <1>3, <1>4, <1>5

\* The store of the table is the commit point.
LEMMA RefWriteStore ==
  ASSUME AtomicSetting, RefInv, RefInv', WriteStore
  PROVE  [Store!Next]_(Store!svars)
<1>t. AtaTypeOK /\ WorkingDrive
  BY DEF AtomicSetting, RefInv, TypeOK
<1>1. PICK o \in ata_write_sectors(FS_TABLE_LBA) :
        /\ Transfer(o) /\ StoreTable(o, table, ledger') /\ reply' = Reply("write", o.ok)
  BY DEF WriteStore
<1>2. pc = "store" /\ pc' = "idle" /\ table' = table /\ data' = data
  BY DEF WriteStore
<1>3. Underway' = NoRequest
  BY <1>2, NoWriteNext
<1>4. /\ o.ok => o.stored /\ ~latched /\ ~latched'
      /\ ~o.ok => ~o.stored /\ (latched => latched')
  BY <1>1, <1>t, FaultlessWrite, HonestWrite, ErrStays DEF WorkingDrive, Transfer
<1>o. Outside' = Outside
  BY <1>2, SameMemory
<1>5. CASE ~o.ok
  <2>1. UNCHANGED <<diskTable, data>> /\ reply' = "failed"
    BY <1>1, <1>2, <1>4, <1>5 DEF StoreTable, Reply
  <2>2. Volatile' \in {Volatile, {}}
    BY <1>4, <1>5, <1>o DEF Volatile
  <2> QED BY <1>3, <2>1, <2>2, SameDisk, LeaveStep DEF Store!Next, RefInv, AtomInv
<1>6. CASE o.ok
  <2>1. \A s \in Persisted : diskTable'[s] = table[s]
    BY <1>1, <1>4, <1>6 DEF StoreTable
  <2>2. /\ op.idx \in Slots /\ op.content \in Contents /\ table[op.idx] \in Entry
        /\ Holds(table[op.idx], [name |-> table[op.idx].name, content |-> op.content])
        /\ table[op.idx].used
    BY <1>2, WrittenWhole DEF RefInv, TypeOK, Safe, WriteInv
  <2>3. PICK n \in Names, c \in Contents : n = table[op.idx].name /\ c = op.content
    BY <2>2 DEF RefInv, KnownNames
  <2>o. Volatile = Outside /\ Volatile' = Volatile
    BY <1>4, <1>6, <1>o DEF Volatile
  <2>u. n \in Outside <=> op.idx \notin Persisted
    <3>1. \A s \in Slots : table[s].used /\ table[s].name = n => s = op.idx
      BY <2>2, <2>3, UniqueOver DEF RefInv, NoTwin, TypeOK
    <3> QED BY <2>2, <2>3, <3>1 DEF Outside, UsedSlots, RefInv, TypeOK
  <2>4. Underway = <<n, c>> /\ Underway # NoRequest
    <3>1. Underway = <<n, c>>
      BY <1>2, <1>4, <1>6, <2>3 DEF Underway
    <3>2. n \in Names => <<n, c>> # NoRequest
      BY FsAtomicAssumption
    <3> QED BY <3>1, <3>2
  <2>5. ASSUME op.idx \in Persisted PROVE FileOnDisk(n)' = c
    <3>1. diskTable'[op.idx] = table[op.idx] /\ op.idx \in Persisted
      BY <2>1, <2>2, <2>5
    <3>2. PICK s \in Persisted : s = op.idx
      BY <3>1
    <3>3. Holds(diskTable[s], [name |-> n, content |-> c])'
      BY <1>2, <2>2, <2>3, <3>1, <3>2 DEF Holds
    <3> QED BY <2>2, <2>3, <3>1, <3>2, <3>3, FileFoundNext DEF RefInv
  <2>6. \A s \in Persisted : s # op.idx => diskTable'[s] = diskTable[s]
    BY <1>2, <1>4, <1>6, <2>1 DEF RefInv, AtomInv, InStep
  <2>7. ASSUME op.idx \in Persisted, NEW m \in Names, m # n PROVE FileOnDisk(m)' = FileOnDisk(m)
    <3>1. diskTable[op.idx].used => diskTable[op.idx].name = n
      BY <1>2, <1>4, <1>6, <2>3, <2>7 DEF RefInv, AtomInv, InStep
    <3>2. diskTable'[op.idx].name = n
      BY <2>1, <2>2, <2>3, <2>7
    <3>3. \A s \in OnDisk(m) : s \in Persisted /\ s # op.idx
      BY <2>7, <3>1 DEF OnDisk, UsedSlots, RefInv, TypeOK
    <3>4. OnDisk(m)' = OnDisk(m)
      BY <2>6, <2>7, <3>1, <3>2 DEF OnDisk, UsedSlots, RefInv, TypeOK
    <3>5. \A s \in OnDisk(m), d \in Contents :
            Holds(diskTable[s], [name |-> m, content |-> d]) => Holds(diskTable[s], [name |-> m, content |-> d])'
      BY <1>2, <2>6, <3>3 DEF Holds
    <3> QED BY <2>6, <3>3, <3>4, <3>5, SameFile DEF RefInv, AtomInv
  <2>8. Durable' = IF n \in Volatile THEN Durable ELSE [Durable EXCEPT ![n] = c]
    <3>1. CASE op.idx \in Persisted
      BY <2>5, <2>7, <2>o, <2>u, <3>1 DEF Durable
    <3>2. CASE op.idx \notin Persisted
      <4>1. diskTable' = diskTable
        BY <1>1, <1>4, <1>6, <2>6, <3>2 DEF StoreTable, RefInv, TypeOK
      <4> QED BY <1>2, <2>o, <2>u, <3>2, <4>1, SameDisk DEF RefInv, AtomInv
    <3> QED BY <3>1, <3>2
  <2>9. reply' = "write"
    BY <1>1, <1>6 DEF Reply
  <2>10. Store!Commit
    BY <1>3, <2>4, <2>8, <2>9, <2>o DEF Store!Commit, Durable, Volatile
  <2> QED BY <2>10 DEF Store!Next
<1> QED BY <1>5, <1>6

\* A write that is begun is asked for under the name the table knows it by.
LEMMA RefWriteEntry ==
  ASSUME AtomicSetting, RefInv, RefInv', NEW name \in Names, NEW c \in Contents, WriteEntry(name, c)
  PROVE  [Store!Next]_(Store!svars)
<1>1. PICK idx \in Slots, lba \in Ends :
        /\ WriteSlot(name, idx)
        /\ table' = [table EXCEPT ![idx] =
              [used |-> TRUE,
               name |-> IF @.used THEN @.name ELSE Trunc[name],
               start |-> lba,
               size |-> Size[c]]]
        /\ op' = [idx |-> idx, start |-> lba, content |-> c, i |-> 0, kept |-> 0]
  BY DEF WriteEntry
<1>2. pc = "idle" /\ pc' \in {"data", "store"} /\ reply' = reply /\ UNCHANGED diskVars /\ latched' = latched
      /\ mounted
  BY DEF WriteEntry, ataVars
<1>3. /\ table'[idx].name = name /\ table'[idx].used /\ table'[idx] \in Entry
      /\ table[idx].used => table[idx].name = name
      /\ \A s \in Slots : s # idx => table'[s] = table[s]
  <2>1. /\ table'[idx].name = IF table[idx].used THEN table[idx].name ELSE Trunc[name]
        /\ table'[idx].used /\ \A s \in Slots : s # idx => table'[s] = table[s]
    BY <1>1 DEF RefInv, TypeOK
  <2>2. table[idx].used => table[idx].name = name
    BY <1>1 DEF WriteSlot, fs_find_entry, fs_find_free_entry, First, Matching, Free
  <2>3. Trunc[name] = name
    BY DEF AtomicSetting, NamesFit
  <2>4. table'[idx] \in Entry
    BY DEF RefInv, TypeOK
  <2> QED BY <2>1, <2>2, <2>3, <2>4
<1>4. Underway = NoRequest
  BY <1>2, NoWrite
<1>5. Durable' = Durable
  BY <1>2, SameDisk DEF diskVars, RefInv, AtomInv
<1>6. CASE latched
  <2>1. Underway' = NoRequest /\ Volatile = {} /\ Volatile' = {}
    BY <1>2, <1>6 DEF Underway, Volatile
  <2> QED BY <1>2, <1>4, <1>5, <2>1 DEF Store!svars, Durable, Volatile
<1>7. CASE ~latched
  <2>1. Underway' = <<name, c>>
    BY <1>1, <1>2, <1>3, <1>7 DEF Underway
  <2>2. \A s \in Persisted : diskTable[s] = table[s]
    BY <1>2, <1>7 DEF RefInv, AtomInv, InStep
  <2>3. Volatile = Outside /\ Volatile' = Outside'
    BY <1>2, <1>7 DEF Volatile
  <2>4. Outside' = IF idx \in Persisted THEN Outside ELSE Outside \cup {name}
    <3>1. \A n \in Names : n \in Outside <=> \E s \in Slots : table[s].used /\ s \notin Persisted /\ table[s].name = n
      BY DEF Outside, UsedSlots, RefInv, TypeOK
    <3>2. \A n \in Names : n \in Outside' <=> \E s \in Slots : table'[s].used /\ s \notin Persisted /\ table'[s].name = n
      BY DEF Outside, UsedSlots, RefInv, TypeOK
    <3>3. Outside \subseteq Names /\ Outside' \subseteq Names
      BY DEF Outside
    <3>4. CASE idx \in Persisted
      <4>1. ASSUME NEW n \in Names PROVE n \in Outside' <=> n \in Outside
        BY <1>3, <3>1, <3>2, <3>4
      <4> QED BY <3>3, <3>4, <4>1
    <3>5. CASE idx \notin Persisted
      <4>1. ASSUME NEW n \in Names PROVE n \in Outside' <=> n \in Outside \/ n = name
        BY <1>3, <3>1, <3>2, <3>5
      <4> QED BY <3>3, <3>5, <4>1
    <3> QED BY <3>4, <3>5
  \* The first free slot lies outside the sector just when the sector is full.
  <2>5. Volatile' = IF Durable[name] = Absent /\ Store!Full THEN Volatile \cup {name} ELSE Volatile
    <3>1. CASE fs_find_entry(name, idx)
      <4>1. table[idx].used /\ table[idx].name = name
        BY <3>1 DEF fs_find_entry, First, Matching
      <4>2. CASE idx \in Persisted
        <5>1. PICK d \in Contents : Holds(diskTable[idx], [name |-> name, content |-> d])
          BY <2>2, <4>1, <4>2 DEF RefInv, AtomInv, DiskWhole, WholeFile
        <5>2. PICK s \in Persisted : s = idx
          BY <4>2
        <5>3. FileOnDisk(name) = d
          BY <2>2, <4>1, <5>1, <5>2, FileFound DEF RefInv
        <5> QED BY <2>3, <2>4, <4>2, <5>3, FsAtomicAssumption DEF Durable
      <4>3. CASE idx \notin Persisted
        <5>1. name \in Outside
          BY <4>1, <4>3 DEF Outside, UsedSlots, RefInv, TypeOK
        <5> QED BY <2>3, <2>4, <4>3, <5>1
      <4> QED BY <4>2, <4>3
    <3>2. CASE Matching(name) = {} /\ fs_find_free_entry(idx)
      <4>1. ~table[idx].used /\ \A s \in Slots : ~table[s].used => idx <= s
        BY <3>2 DEF fs_find_free_entry, First, Free
      <4>2. OnDisk(name) = {}
        BY <2>2, <3>2 DEF OnDisk, UsedSlots, Matching, RefInv, TypeOK, Persisted
      <4>3. Durable[name] = Absent
        BY <4>2, FileAbsent DEF Durable
      <4>4. idx \in Persisted <=> ~(\A s \in Persisted : diskTable[s].used)
        <5>1. CASE idx \in Persisted
          BY <2>2, <4>1, <5>1
        <5>2. CASE idx \notin Persisted
          <6>1. ASSUME NEW s \in Persisted PROVE table[s].used
            BY <4>1, <5>2, FsAssumption DEF Persisted, Slots
          <6> QED BY <2>2, <5>2, <6>1
        <5> QED BY <5>1, <5>2
      <4> QED BY <2>3, <2>4, <4>3, <4>4, FullMap
    <3> QED BY <1>1, <3>1, <3>2 DEF WriteSlot
  <2>6. Store!Ask(name, c)
    BY <1>2, <1>4, <1>5, <2>1, <2>5 DEF Store!Ask, Durable, Volatile
  <2> QED BY <2>6 DEF Store!Next
<1> QED BY <1>6, <1>7

LEMMA RefDeleteFile ==
  ASSUME AtomicSetting, RefInv, RefInv', NEW name \in Names, DeleteFile(name)
  PROVE  [Store!Next]_(Store!svars)
<1>t. AtaTypeOK /\ WorkingDrive
  BY DEF AtomicSetting, RefInv, TypeOK
<1>1. PICK idx \in Slots, o \in ata_write_sectors(FS_TABLE_LBA) :
        /\ fs_find_entry(name, idx) /\ Transfer(o) /\ reply' = Reply("delete", o.ok)
        /\ table' = [table EXCEPT ![idx] = NoEntry]
        /\ IF o.stored THEN StoreTable(o, table', ledger') ELSE UNCHANGED diskTable
  BY DEF DeleteFile
<1>2. pc = "idle" /\ pc' = "idle" /\ data' = data
  BY DEF DeleteFile
<1>3. Underway = NoRequest /\ Underway' = NoRequest
  BY <1>2, NoWrite, NoWriteNext
<1>4. /\ o.ok => o.stored /\ ~latched /\ ~latched'
      /\ ~o.ok => ~o.stored /\ (mounted => latched')
  <2>1. present' = present /\ latched' = o.latch /\ (mounted => present)
    BY <1>1 DEF Transfer, RefInv, AtomInv, InStep
  <2> QED BY <1>t, <2>1, FaultlessWrite, HonestWrite DEF WorkingDrive
<1>5. table[idx].used /\ table[idx].name = name /\ mounted
  BY <1>1 DEF fs_find_entry, First, Matching, RefInv, Safe, Unmounted, NoEntry
<1>6. CASE ~o.ok
  <2>1. UNCHANGED <<diskTable, data>> /\ reply' = "failed"
    BY <1>1, <1>2, <1>4, <1>6 DEF Reply
  <2>2. Volatile' = {}
    BY <1>4, <1>5, <1>6 DEF Volatile
  <2> QED BY <1>3, <2>1, <2>2, SameDisk, LeaveStep DEF Store!Next, RefInv, AtomInv
<1>7. CASE o.ok
  <2>1. \A s \in Persisted : diskTable'[s] = table'[s]
    BY <1>1, <1>4, <1>7 DEF StoreTable
  <2>2. \A s \in Persisted : diskTable[s] = table[s]
    BY <1>2, <1>4, <1>5, <1>7 DEF RefInv, AtomInv, InStep
  <2>3. ~table'[idx].used /\ \A s \in Slots : s # idx => table'[s] = table[s]
    BY <1>1 DEF NoEntry, RefInv, TypeOK
  <2>4. \A s \in Slots : table[s].used /\ table[s].name = name => s = idx
    BY <1>5, UniqueOver DEF RefInv, NoTwin, TypeOK
  <2>5. /\ idx \in Persisted => ~diskTable'[idx].used
        /\ \A s \in Persisted : s # idx => diskTable'[s] = diskTable[s]
    BY <2>1, <2>2, <2>3 DEF Persisted
  <2>6. FileOnDisk(name)' = Absent
    <3>1. OnDisk(name)' = {}
      BY <2>2, <2>4, <2>5 DEF OnDisk, UsedSlots, RefInv, TypeOK, Persisted
    <3> QED BY <3>1, FileAbsentNext
  <2>7. FileOnDisk(name) # Absent \/ name \in Outside
    <3>1. CASE idx \in Persisted
      <4>1. PICK s \in Persisted : s = idx
        BY <3>1
      <4>2. PICK c \in Contents : Holds(diskTable[s], [name |-> name, content |-> c])
        BY <1>5, <2>2, <4>1 DEF RefInv, AtomInv, DiskWhole, WholeFile
      <4>3. FileOnDisk(name) = c
        BY <1>5, <2>2, <4>1, <4>2, FileFound DEF RefInv
      <4> QED BY <4>3, FsAtomicAssumption
    <3>2. CASE idx \notin Persisted
      BY <1>5, <3>2 DEF Outside, UsedSlots, RefInv, TypeOK
    <3> QED BY <3>1, <3>2
  <2>8. ASSUME NEW m \in Names, m # name PROVE FileOnDisk(m)' = FileOnDisk(m)
    <3>1. \A s \in OnDisk(m) : s \in Persisted /\ s # idx
      BY <1>5, <2>2, <2>8 DEF OnDisk, UsedSlots, RefInv, TypeOK
    <3>2. OnDisk(m)' = OnDisk(m)
      BY <1>5, <2>2, <2>5, <2>8 DEF OnDisk, UsedSlots, RefInv, TypeOK
    <3>3. \A s \in OnDisk(m), d \in Contents :
            Holds(diskTable[s], [name |-> m, content |-> d]) => Holds(diskTable[s], [name |-> m, content |-> d])'
      BY <1>2, <2>5, <3>1 DEF Holds
    <3> QED BY <2>5, <3>1, <3>2, <3>3, SameFile DEF RefInv, AtomInv
  <2>9. Durable' = [Durable EXCEPT ![name] = Absent] /\ (Durable[name] # Absent \/ name \in Volatile)
    BY <1>4, <1>7, <2>6, <2>7, <2>8 DEF Durable, Volatile
  <2>10. Volatile' = Volatile \ {name}
    <3>1. Outside' = Outside \ {name}
      <4>1. ASSUME NEW n \in Names PROVE n \in Outside' <=> n \in Outside /\ n # name
        <5>1. n \in Outside <=> \E s \in Slots : table[s].used /\ s \notin Persisted /\ table[s].name = n
          BY DEF Outside, UsedSlots, RefInv, TypeOK
        <5>2. n \in Outside' <=> \E s \in Slots : table'[s].used /\ s \notin Persisted /\ table'[s].name = n
          BY DEF Outside, UsedSlots, RefInv, TypeOK
        <5> QED BY <1>5, <2>3, <2>4, <5>1, <5>2
      <4> QED BY <4>1 DEF Outside
    <3> QED BY <1>4, <1>7, <3>1 DEF Volatile
  <2>11. Store!Remove(name)
    BY <1>1, <1>3, <1>7, <2>9, <2>10 DEF Store!Remove, Durable, Reply, Volatile
  <2> QED BY <2>11 DEF Store!Next
<1> QED BY <1>6, <1>7

LEMMA RefStep ==
  ASSUME AtomicSetting, RefInv, RefInv', [Next]_vars
  PROVE  [Store!Next]_(Store!svars)
<1>1. ASSUME NEW name \in Names, NEW b \in Buffers, ReadFile(name, b) PROVE [Store!Next]_(Store!svars)
  <2>1. pc' = "idle" /\ UNCHANGED diskVars /\ reply' \in {"read", "failed"} /\ table' = table
    BY <1>1 DEF ReadFile, Reply
  <2>2. PICK s \in Slots :
          \/ UNCHANGED ataVars
          \/ \E o \in ata_read_sectors(table[s].start, ReadCount(table[s])) : Transfer(o)
    BY <1>1 DEF ReadFile
  <2>3. latched => latched'
    BY <2>2, ErrStays DEF Transfer, ataVars, RefInv, TypeOK
  <2>4. Volatile' \in {Volatile, {}}
    BY <2>1, <2>3, SameMemory DEF Volatile
  <2> QED BY <2>1, <2>4, NoWriteNext, SameDisk, LeaveStep DEF Store!Next, diskVars, RefInv, AtomInv
<1>2. ASSUME pc' = "idle", UNCHANGED <<diskVars, table, ataVars>>, reply' = "failed"
      PROVE  [Store!Next]_(Store!svars)
  <2>1. Volatile' = Volatile
    BY <1>2, SameMemory DEF Volatile, ataVars
  <2> QED BY <1>2, <2>1, NoWriteNext, SameDisk, LeaveStep DEF Store!Next, diskVars, RefInv, AtomInv
<1>3. CASE Call
  BY <1>1, <1>2, <1>3, RefWriteEntry, RefDeleteFile
  DEF Call, WriteRefused, DeleteRefused, ReadRefused, Reply
<1>4. CASE Crash
  <2>1. pc' = "off" /\ UNCHANGED diskVars /\ reply' = "boot" /\ \A s \in Slots : table'[s] = NoEntry
    BY <1>4 DEF Crash, ClearMemory, Reply
  <2>2. Volatile' = {}
    BY <2>1, SameMemory DEF Volatile, RefInv
  <2> QED BY <2>1, <2>2, NoWriteNext, SameDisk, LeaveStep DEF Store!Next, diskVars, RefInv, AtomInv
<1>5. CASE UNCHANGED vars
  <2>1. Durable' = Durable
    BY <1>5, SameDisk DEF vars, diskVars, RefInv, AtomInv
  <2>2. Underway' = Underway /\ reply' = reply
    BY <1>5 DEF vars, ataVars, Underway
  <2>3. Volatile' = Volatile
    BY <1>5, SameMemory DEF vars, ataVars, Volatile
  <2> QED BY <2>1, <2>2, <2>3 DEF Store!svars, Durable, Volatile
<1> QED BY <1>3, <1>4, <1>5, RefStartup, RefWriteBlock, RefWriteStore DEF Next, Continue

\* fs.c on a drive that works and may lose power: a write or delete takes effect whole
\* or not at all, is acknowledged exactly when it does, and touches no other file; and
\* it survives, unless the file was new when every entry of the one stored sector was
\* taken - for every number of entries and of those that are stored, every disk, set of
\* names and contents, empty files included, as long as no name is cut.
THEOREM FsImplementsAtomicStore == ASSUME AtomicSetting PROVE Spec => ImplementsAtomicStore
<1>1. Init => RefInv /\ Store!Init
  <2> SUFFICES ASSUME Init PROVE RefInv /\ Store!Init
    OBVIOUS
  <2>1. TypeOK /\ Safe /\ NoTwin
    BY TypeInit, SafeInit, EmptyUnique DEF Init, NoTwin
  <2>2. AtomInv /\ KnownNames
    BY DEF Init, AtaOff, AtomInv, DiskWhole, FormatsBlank, Blanked, InStep, NoEntry, KnownNames
  <2>3. \A n \in Names : FileOnDisk(n) = Absent
    BY FileAbsent DEF Init, OnDisk, UsedSlots, NoEntry
  <2>4. Underway = NoRequest /\ reply = "boot" /\ Volatile = {}
    BY <2>1, NoWrite, SameMemory DEF Init, Reply, Volatile
  <2> QED BY <2>1, <2>2, <2>3, <2>4 DEF RefInv, Store!Init, Volatile
<1>2. RefInv /\ [Next]_vars => RefInv'
  BY TypeStep, SafeStep, UniqueStep, KnownStep, AtomStep DEF RefInv, AtomicSetting, NamesFit
<1>3. RefInv /\ RefInv' /\ [Next]_vars => [Store!Next]_(Store!svars)
  BY RefStep
<1> QED BY <1>1, <1>2, <1>3, PTL DEF Spec, ImplementsAtomicStore, Store!Spec

-----------------------------------------------------------------------------
(* Every step of Fs is a step of FileStore, or none.                        *)

\* What reads answer, and what a boot will find.
Now == [n \in Names |-> FileIn(table, n)]
Stored == [n \in Names |-> FileIn(diskTable, n)]

\* A write that has come so far has stored every block, every file has the size of some
\* content, and no sector holds anything but a block of one.
Filling ==
    /\ pc \in {"data", "store"} => op.kept = op.i
    /\ \A s \in Slots : table[s].used => \E c \in Contents : table[s].size = Size[c]
    /\ \A s \in Persisted : diskTable[s].used => \E c \in Contents : diskTable[s].size = Size[c]
    /\ \A l \in DataLbas : data[l] \in Sectors

FilesInv == TypeOK /\ Safe /\ NoTwin /\ KnownNames /\ Filling

\* A name that is there is there once, and its file is the one found.
LEMMA FileIs ==
  TypeOK /\ NoTwin =>
    /\ \A s \in Slots : table[s].used => FileIn(table, table[s].name) = Held(table[s])
    /\ \A s \in Persisted : diskTable[s].used => FileIn(diskTable, diskTable[s].name) = Held(diskTable[s])
    /\ \A n : (\A s \in Slots : table[s].used => table[s].name # n) => FileIn(table, n) = NoName
    /\ \A n : (\A s \in Persisted : diskTable[s].used => diskTable[s].name # n) => FileIn(diskTable, n) = NoName
<1> SUFFICES ASSUME TypeOK, NoTwin
             PROVE  /\ \A s \in Slots : table[s].used => FileIn(table, table[s].name) = Held(table[s])
                    /\ \A s \in Persisted : diskTable[s].used => FileIn(diskTable, diskTable[s].name) = Held(diskTable[s])
                    /\ \A n : (\A s \in Slots : table[s].used => table[s].name # n) => FileIn(table, n) = NoName
                    /\ \A n : (\A s \in Persisted : diskTable[s].used => diskTable[s].name # n) => FileIn(diskTable, n) = NoName
  OBVIOUS
<1>1. ASSUME NEW S \in SUBSET Slots, NEW t \in [S -> Entry], Unique(t), NEW s \in S, t[s].used
      PROVE  FileIn(t, t[s].name) = Held(t[s])
  <2>1. PICK n : n = t[s].name
    OBVIOUS
  <2>2. Named(t, n) = {s}
    BY <1>1, <2>1 DEF Named, UsedSlots, Unique
  <2>3. (CHOOSE u \in {s} : First({s}, u)) = s
    BY <1>1 DEF First, Slots
  <2> QED BY <2>1, <2>2, <2>3 DEF FileIn
<1>2. ASSUME NEW S, NEW t \in [S -> Entry], NEW n, \A s \in S : t[s].used => t[s].name # n
      PROVE  FileIn(t, n) = NoName
  BY <1>2 DEF FileIn, Named, UsedSlots
<1>3. table \in [Slots -> Entry] /\ diskTable \in [Persisted -> Entry] /\ Persisted \subseteq Slots
  BY DEF TypeOK, Persisted
<1>4. Unique(table) /\ Unique(diskTable)
  BY DEF NoTwin
<1> QED BY <1>1, <1>2, <1>3, <1>4

LEMMA FileIsNext ==
  (TypeOK /\ NoTwin)' =>
   (/\ \A s \in Slots : table[s].used => FileIn(table, table[s].name) = Held(table[s])
    /\ \A s \in Persisted : diskTable[s].used => FileIn(diskTable, diskTable[s].name) = Held(diskTable[s])
    /\ \A n : (\A s \in Slots : table[s].used => table[s].name # n) => FileIn(table, n) = NoName
    /\ \A n : (\A s \in Persisted : diskTable[s].used => diskTable[s].name # n) => FileIn(diskTable, n) = NoName)'
BY FileIs, PTL

\* A step that leaves the slots of a name and their sectors leaves the file.
LEMMA FileKept ==
  ASSUME FilesInv, FilesInv', NEW n,
         \A s \in Slots : table[s].used /\ table[s].name = n
                            => table'[s] = table[s] /\ Held(table[s])' = Held(table[s]),
         \A s \in Slots : table'[s].used /\ table'[s].name = n => table[s].used /\ table[s].name = n
  PROVE  FileIn(table, n)' = FileIn(table, n)
<1> USE DEF FilesInv
<1>1. CASE \A s \in Slots : table[s].used => table[s].name # n
  BY <1>1, FileIs, FileIsNext
<1>2. ASSUME NEW s \in Slots, table[s].used, table[s].name = n PROVE FileIn(table, n)' = FileIn(table, n)
  <2>1. table'[s] = table[s] /\ Held(table[s])' = Held(table[s])
    BY <1>2
  <2>2. FileIn(table, n) = Held(table[s])
    BY <1>2, FileIs
  <2>3. FileIn(table, n)' = Held(table[s])'
    BY <1>2, <2>1, FileIsNext
  <2> QED BY <2>1, <2>2, <2>3
<1> QED BY <1>1, <1>2

LEMMA DiskFileKept ==
  ASSUME FilesInv, FilesInv', NEW n, diskTable' = diskTable,
         \A s \in Persisted : diskTable[s].used => Held(diskTable[s])' = Held(diskTable[s])
  PROVE  FileIn(diskTable, n)' = FileIn(diskTable, n)
<1> USE DEF FilesInv
<1>1. CASE \A s \in Persisted : diskTable[s].used => diskTable[s].name # n
  BY <1>1, FileIs, FileIsNext
<1>2. ASSUME NEW s \in Persisted, diskTable[s].used, diskTable[s].name = n
      PROVE FileIn(diskTable, n)' = FileIn(diskTable, n)
  <2>1. FileIn(diskTable, n) = Held(diskTable[s])
    BY <1>2, FileIs
  <2>2. FileIn(diskTable, n)' = Held(diskTable[s])'
    BY <1>2, FileIsNext
  <2> QED BY <1>2, <2>1, <2>2
<1> QED BY <1>1, <1>2

\* Where neither a table nor the sectors change, what they hold does not.
LEMMA NowKept == ASSUME UNCHANGED <<table, data>> PROVE Now' = Now
BY DEF Now, FileIn, Named, UsedSlots, Held

LEMMA StoredKept == ASSUME UNCHANGED <<diskTable, data>> PROVE Stored' = Stored
BY DEF Stored, FileIn, Named, UsedSlots, Held

\* An empty table holds no files.
LEMMA NothingNext ==
  /\ TypeOK' /\ NoTwin' /\ (\A s \in Slots : table'[s] = NoEntry) => Now' = Files!Formatted
  /\ TypeOK' /\ NoTwin' /\ (\A s \in Persisted : diskTable'[s] = NoEntry) => Stored' = Files!Formatted
BY FileIsNext DEF Now, Stored, Files!Formatted, NoEntry

\* The files after a step that touches those of one name.
LEMMA OneFile ==
  ASSUME NEW n \in Names, NEW x, FileIn(table, n)' = x,
         \A m \in Names \ {n} : FileIn(table, m)' = FileIn(table, m)
  PROVE  Now' = [Now EXCEPT ![n] = x]
BY DEF Now

-----------------------------------------------------------------------------
(* Where entries lie, and which sectors are reserved.                       *)

\* The stored sector lists what memory has in it, and reserves it.
LEMMA SectorStored ==
  ASSUME FilesInv, FilesInv', diskTable' = [s \in Persisted |-> table'[s]], pc' # "data"
  PROVE  Files!fs_store_table
<1> USE DEF FilesInv
<1>1. Persisted \subseteq Slots /\ \A s \in Persisted : diskTable'[s] = table'[s]
  BY DEF Persisted
<1>2. Unreserved' = {}
  <2>1. \A s \in Persisted : table'[s] \in Entry /\ End(table'[s]) \in Nat
    BY <1>1, EndNat DEF TypeOK
  <2>2. \A s \in Persisted : diskTable'[s].used => Reserved(s)'
    BY <1>1, <2>1 DEF Reserved, End
  <2> QED BY <1>1, <2>2 DEF Unreserved, UsedSlots, TypeOK
<1>3. ASSUME NEW n \in Names PROVE FileIn(diskTable, n)' = IF n \in Outside' THEN NoName ELSE FileIn(table, n)'
  <2>1. CASE n \in Outside'
    <3>1. PICK s \in Slots : s \notin Persisted /\ table'[s].used /\ table'[s].name = n
      BY <2>1 DEF Outside, UsedSlots, TypeOK
    <3>2. \A u \in Slots : table'[u].used /\ table'[u].name = n => u = s
      BY <3>1 DEF NoTwin, Unique, UsedSlots, TypeOK
    <3>3. \A u \in Persisted : diskTable'[u].used => diskTable'[u].name # n
      BY <1>1, <3>1, <3>2
    <3> QED BY <2>1, <3>3, FileIsNext
  <2>2. ASSUME n \notin Outside', NEW s \in Persisted, diskTable'[s].used, diskTable'[s].name = n
        PROVE  FileIn(diskTable, n)' = FileIn(table, n)'
    <3>1. FileIn(diskTable, n)' = Held(diskTable[s])' /\ FileIn(table, n)' = Held(table[s])'
      BY <1>1, <2>2, FileIsNext
    <3> QED BY <1>1, <3>1 DEF Held
  <2>3. ASSUME n \notin Outside', \A s \in Persisted : diskTable'[s].used => diskTable'[s].name # n
        PROVE  FileIn(diskTable, n)' = FileIn(table, n)'
    <3>1. \A s \in Slots : table'[s].used => table'[s].name # n
      BY <1>1, <2>3 DEF Outside, UsedSlots, TypeOK
    <3> QED BY <2>3, <3>1, FileIsNext
  <2> QED BY <2>1, <2>2, <2>3
<1> QED BY <1>2, <1>3 DEF Files!fs_store_table

\* What was reserved stays so while the tables do, unless a write comes under way.
LEMMA ReservedKept ==
  ASSUME UNCHANGED <<diskTable, table, mounted>>, UNCHANGED <<pc, op>> \/ (pc # "data" /\ pc' # "data") \/ ~mounted
  PROVE  Unreserved' = Unreserved
<1>1. CASE ~mounted
  BY <1>1 DEF Unreserved
<1>2. ASSUME mounted, NEW s PROVE Reserved(s)' = Reserved(s)
  BY <1>2 DEF Reserved, End
<1> QED BY <1>1, <1>2 DEF Unreserved, UsedSlots

LEMMA NoneUnreserved ==
  /\ ~mounted => Unreserved = {}
  /\ ~mounted' => Unreserved' = {}
BY DEF Unreserved

\* No step but a delete makes a sector of a disk file free.
LEMMA ReservedStays ==
  ASSUME NEW T, diskTable' = diskTable, mounted' = mounted,
         \A s \in UsedSlots(diskTable) : diskTable[s].name \notin T /\ Reserved(s) => Reserved(s)'
  PROVE  Unreserved' \subseteq Unreserved \cup T
BY DEF Unreserved, UsedSlots

\* Blocks that were written spoil no file but loose ones.
LEMMA Spoiling ==
  ASSUME Unreserved' \subseteq Unreserved,
         \A n \in Names : \/ FileIn(diskTable, n)' = FileIn(diskTable, n)
                          \/ n \in Unreserved /\ FileIn(diskTable, n)' \in Partial
  PROVE  Files!Spoils
<1>1. PICK after : after = Stored'
  OBVIOUS
<1>2. \A n \in Names : after[n] = FileIn(diskTable, n)'
  BY <1>1 DEF Stored
<1>3. Unreserved \subseteq Names
  BY DEF Unreserved
<1> DEFINE spoiled == [n \in Unreserved |-> after[n]]
           before == [n \in Names |-> FileIn(diskTable, n)]
<1>4. \A n \in Unreserved : spoiled[n] \in Partials[n] \cup {before[n]}
  BY <1>2, <1>3 DEF Partials
<1>5. spoiled \in [Unreserved -> UNION {Partials[n] \cup {before[n]} : n \in Unreserved}]
  BY <1>4
<1>6. [n \in Names |-> FileIn(diskTable, n)]' = [n \in Names |-> IF n \in Unreserved THEN spoiled[n] ELSE before[n]]
  BY <1>2
<1>7. Unreserved' \in SUBSET Unreserved
  OBVIOUS
<1> HIDE DEF spoiled
<1> QED BY <1>4, <1>5, <1>6, <1>7 DEF Files!Spoils

-----------------------------------------------------------------------------
\* The steps of FileStore, for the files that Fs keeps.
LEMMA ReachesWrite ==
  ASSUME NEW n \in Names, NEW f, mounted, mounted' = mounted, Now' = [Now EXCEPT ![n] = f],
         Files!Placed(n), Files!fs_store_table
  PROVE  Files!fs_write_file(n, f)
BY DEF Files!fs_write_file, Files!With, Now

LEMMA ReachesDelete ==
  ASSUME NEW n \in Names, mounted, mounted' = mounted, Now' = [Now EXCEPT ![n] = NoName],
         Outside' = Outside \ {n},
         Files!fs_store_table \/ (Stored' = Stored /\ Unreserved' \subseteq Unreserved \cup {n})
  PROVE  Files!fs_delete_file(n)
BY DEF Files!fs_delete_file, Files!With, Now, Stored

LEMMA ReachesLeftover ==
  ASSUME NEW n \in Names, NEW c \in Contents, NEW f \in Partial, mounted, mounted' = mounted,
         Now' = [Now EXCEPT ![n] = f], Files!Placed(n), Files!Spoils
  PROVE  StoreStep
<1>1. f \in Partials[n]
  BY DEF Partials
<1>2. Now' \in Files!WithAny(n, Partials[n] \cup {Full(c)})
  BY <1>1 DEF Files!WithAny, Now
<1>3. Files!WriteFails(n, Full(c))
  BY <1>2 DEF Files!WriteFails, Now
<1> QED BY <1>3 DEF StoreStep, Files!StoreNext, FullContents

LEMMA ReachesFailed ==
  ASSUME NEW n \in Names, NEW c \in Contents, mounted, mounted' = mounted,
         Now' = [Now EXCEPT ![n] = Full(c)], Files!Placed(n), Files!fs_store_table
  PROVE  StoreStep
<1>1. Now' \in Files!WithAny(n, Partials[n] \cup {Full(c)})
  BY DEF Files!WithAny, Now
<1>2. Files!WriteFails(n, Full(c))
  BY <1>1 DEF Files!WriteFails, Files!With, Now
<1> QED BY <1>2 DEF StoreStep, Files!StoreNext, FullContents

LEMMA ReachesPower ==
  ASSUME mounted' \in BOOLEAN, Stored' \in {Stored, Files!Formatted},
         Now' = IF mounted' THEN Stored' ELSE Files!Formatted, Outside' = {}, Unreserved' = {}
  PROVE  StoreStep
<1>1. Files!PowerCycle
  BY DEF Files!PowerCycle, Now, Stored
<1> QED BY <1>1 DEF StoreStep, Files!StoreNext

-----------------------------------------------------------------------------
(* What the transfers of a write do to sectors and files.                   *)

\* The setting: a drive that does not lose a write in silence, names that are not cut.
KeptWord == HonestDrive /\ NamesFit

\* A block of a content is what a sector may hold; a blank sector is, too.
LEMMA BlockIsSector == ASSUME NEW c \in Contents, NEW i \in 0 .. Blocks(Size[c]) - 1 PROVE <<c, i>> \in Sectors
BY DEF Sectors

\* A file of a content's size is a leftover, whatever its sectors hold.
LEMMA HeldIsPartial ==
  ASSUME NEW e, NEW c \in Contents, e.size = Size[c], \A l \in DataLbas : data[l] \in Sectors
  PROVE  Held(e) \in Partial
<1>1. Blank \in Sectors
  BY DEF Sectors
<1>2. [i \in 0 .. Blocks(e.size) - 1 |-> IF e.start + i \in DataLbas THEN data[e.start + i] ELSE Blank]
        \in [0 .. Blocks(Size[c]) - 1 -> Sectors]
  BY <1>1
<1>3. Held(e) \in [size : {Size[c]}, sectors : [0 .. Blocks(Size[c]) - 1 -> Sectors]]
  BY <1>2 DEF Held
<1> QED BY <1>3 DEF Partial

LEMMA HeldIsPartialNext ==
  (\A l \in DataLbas : data[l] \in Sectors)' =>
    \A e, c : c \in Contents /\ e.size = Size[c] => Held(e)' \in Partial
<1> SUFFICES ASSUME \A l \in DataLbas : data'[l] \in Sectors, NEW e, NEW c \in Contents, e.size = Size[c]
             PROVE  Held(e)' \in Partial
  OBVIOUS
<1>1. Blank \in Sectors
  BY DEF Sectors
<1>2. [i \in 0 .. Blocks(e.size) - 1 |-> IF e.start + i \in DataLbas THEN data'[e.start + i] ELSE Blank]
        \in [0 .. Blocks(Size[c]) - 1 -> Sectors]
  BY <1>1
<1>3. Held(e)' \in [size : {Size[c]}, sectors : [0 .. Blocks(Size[c]) - 1 -> Sectors]]
  BY <1>2 DEF Held
<1> QED BY <1>3 DEF Partial

\* A sector at or past an entry's end is none of its own.
LEMMA HeldApart ==
  ASSUME NEW e \in Entry, NEW lba \in Nat, End(e) <= lba,
         \A l \in DataLbas : l # lba => data'[l] = data[l]
  PROVE  Held(e)' = Held(e)
<1>1. Blocks(e.size) \in Nat /\ e.start \in Nat /\ e.start + Blocks(e.size) <= lba
  BY BlocksNat DEF Entry, End
<1>2. \A i \in 0 .. Blocks(e.size) - 1 : e.start + i # lba
  BY <1>1
<1>3. \A i \in 0 .. Blocks(e.size) - 1 :
        (IF e.start + i \in DataLbas THEN data'[e.start + i] ELSE Blank)
          = IF e.start + i \in DataLbas THEN data[e.start + i] ELSE Blank
  BY <1>2
<1> QED BY <1>3 DEF Held

\* One turn of the loop changes one sector at most, to a block of the content.
LEMMA BlockWritten ==
  ASSUME KeptWord, FilesInv, WriteBlock
  PROVE  /\ pc = "data" /\ op \in Writing /\ op.start + op.i \in Nat /\ op.start <= op.start + op.i
         /\ UNCHANGED <<diskTable, table, mounted>>
         /\ \A l \in DataLbas : l # op.start + op.i => data'[l] = data[l]
         /\ \A l \in DataLbas : data'[l] \in Sectors
         /\ pc' \in {"data", "store"} => op'.idx = op.idx /\ op'.kept = op'.i
<1>1. pc = "data" /\ op \in Writing /\ UNCHANGED <<diskTable, table, mounted>>
  BY DEF WriteBlock, FilesInv, TypeOK, infoVars
<1>2. PICK lba : lba = op.start + op.i
  OBVIOUS
<1>3. PICK o \in ata_write_sectors(lba) :
        /\ data' = IF o.stored THEN [data EXCEPT ![lba] = <<op.content, op.i>>] ELSE data
        /\ IF o.ok
           THEN op' = [op EXCEPT !.i = @ + 1, !.kept = IF o.stored THEN @ + 1 ELSE @]
           ELSE pc' = "idle"
  BY <1>2 DEF WriteBlock
<1>4. op.i \in 0 .. Blocks(Size[op.content]) - 1 /\ op.kept = op.i /\ op.content \in Contents
      /\ op.start \in Nat /\ op.idx \in Slots
  <2>1. op.i \in Nat /\ op.content \in Contents /\ op.i < Blocks(Size[op.content]) /\ op.kept = op.i
        /\ op.start \in Nat /\ op.idx \in Slots
    BY <1>1 DEF FilesInv, Safe, WriteInv, Filling, Writing
  <2> QED BY <2>1, BlocksNat, FsAssumption
<1>5. <<op.content, op.i>> \in Sectors
  BY <1>4, BlockIsSector
<1>6. data \in [DataLbas -> SectorVal] /\ \A l \in DataLbas : data[l] \in Sectors
  BY DEF FilesInv, TypeOK, Filling
<1>7. o.ok => o.stored
  BY HonestWrite DEF KeptWord, HonestDrive
<1>8. pc' \in {"data", "store"} => op'.idx = op.idx /\ op'.kept = op'.i
  BY <1>1, <1>3, <1>4, <1>7 DEF Writing
<1> QED BY <1>1, <1>2, <1>3, <1>4, <1>5, <1>6, <1>8

-----------------------------------------------------------------------------
(* The invariant.                                                           *)

LEMMA FillingStep ==
  ASSUME KeptWord, FilesInv, [Next]_vars
  PROVE  Filling'
<1> DEFINE Sized(e) == e.used => \E c \in Contents : e.size = Size[c]
<1>s. /\ \A s \in Slots : Sized(table[s])
      /\ \A s \in Persisted : Sized(diskTable[s])
      /\ Sized(NoEntry) /\ Persisted \subseteq Slots
  BY DEF FilesInv, Filling, NoEntry, Persisted
<1>f. ASSUME \A s \in Slots : Sized(table'[s]), \A s \in Persisted : Sized(diskTable'[s]),
             \A l \in DataLbas : data'[l] \in Sectors, pc' \in {"data", "store"} => op'.kept = op'.i
      PROVE  Filling'
  BY <1>f DEF Filling
<1> HIDE DEF Sized
<1>d. \A l \in DataLbas : data[l] \in Sectors
  BY DEF FilesInv, Filling
<1>1. ASSUME table' \in {table, [s \in Slots |-> NoEntry], [s \in Slots |-> IF s \in Persisted THEN diskTable[s] ELSE NoEntry]},
             diskTable' \in {diskTable, [s \in Persisted |-> table'[s]]},
             data' = data, pc' \notin {"data", "store"} \/ UNCHANGED <<pc, op>>
      PROVE  Filling'
  <2>1. \A s \in Slots : Sized(table'[s])
    BY <1>1, <1>s
  <2>2. \A s \in Persisted : Sized(diskTable'[s])
    BY <1>1, <1>s, <2>1
  <2>3. pc' \in {"data", "store"} => op'.kept = op'.i
    BY <1>1 DEF FilesInv, Filling
  <2> QED BY <1>1, <1>d, <1>f, <2>1, <2>2, <2>3
<1>2. CASE Startup \/ Crash \/ UNCHANGED vars
  BY <1>1, <1>2 DEF Startup, Boot, LoadSuperblock, FormatSuperblock, FormatTable, LoadTable, Crash,
                    ClearMemory, diskVars, vars
<1>3. CASE WriteBlock
  <2>1. /\ UNCHANGED <<diskTable, table>> /\ \A l \in DataLbas : data'[l] \in Sectors
        /\ pc' \in {"data", "store"} => op'.kept = op'.i
    BY <1>3, BlockWritten
  <2> QED BY <1>f, <1>s, <2>1
<1>4. CASE WriteStore
  BY <1>1, <1>4 DEF WriteStore, StoreTable
<1>5. ASSUME NEW name \in Names, NEW c \in Contents, WriteEntry(name, c) PROVE Filling'
  <2>1. PICK idx \in Slots, lba \in Ends :
          /\ table' = [table EXCEPT ![idx] =
                [used |-> TRUE, name |-> IF @.used THEN @.name ELSE Trunc[name],
                 start |-> lba, size |-> Size[c]]]
          /\ op' = [idx |-> idx, start |-> lba, content |-> c, i |-> 0, kept |-> 0]
    BY <1>5 DEF WriteEntry
  <2>2. UNCHANGED <<diskTable, data>>
    BY <1>5 DEF WriteEntry, diskVars
  <2>3. table'[idx].size = Size[c] /\ \A s \in Slots : s # idx => table'[s] = table[s]
    BY <2>1 DEF FilesInv, TypeOK
  <2>4. \A s \in Slots : Sized(table'[s])
    BY <1>s, <2>3 DEF Sized
  <2> QED BY <1>f, <1>s, <1>d, <2>1, <2>2, <2>4
<1>6. ASSUME NEW name \in Names, DeleteFile(name) PROVE Filling'
  <2>1. PICK idx \in Slots : table' = [table EXCEPT ![idx] = NoEntry]
    BY <1>6 DEF DeleteFile
  <2>2. \A s \in Slots : table'[s] = table[s] \/ table'[s] = NoEntry
    BY <2>1 DEF FilesInv, TypeOK
  <2>3. data' = data /\ pc' \notin {"data", "store"} /\ diskTable' \in {diskTable, [s \in Persisted |-> table'[s]]}
    BY <1>6 DEF DeleteFile, StoreTable
  <2>4. \A s \in Slots : Sized(table'[s])
    BY <1>s, <2>2
  <2>5. \A s \in Persisted : Sized(diskTable'[s])
    BY <1>s, <2>3, <2>4
  <2> QED BY <1>f, <1>d, <2>3, <2>4, <2>5
<1>7. CASE Call
  BY <1>1, <1>5, <1>6, <1>7 DEF Call, WriteRefused, DeleteRefused, ReadRefused, ReadFile, diskVars
<1> QED BY <1>2, <1>3, <1>4, <1>7 DEF Next, Continue

LEMMA FilesStep == ASSUME KeptWord, FilesInv, [Next]_vars PROVE FilesInv'
BY TypeStep, SafeStep, UniqueStep, KnownStep, FillingStep DEF FilesInv, KeptWord, NamesFit

LEMMA FilesStart == Init => FilesInv
<1> SUFFICES ASSUME Init PROVE FilesInv
  OBVIOUS
<1>1. TypeOK /\ Safe /\ NoTwin
  BY TypeInit, SafeInit, EmptyUnique DEF Init, NoTwin
<1>2. Filling /\ KnownNames
  BY DEF Init, Filling, KnownNames, Sectors, NoEntry
<1> QED BY <1>1, <1>2 DEF FilesInv

-----------------------------------------------------------------------------
(* The steps.                                                               *)

\* What a step of Fs is to FileStore: nothing, or one of its steps.
Quiet == UNCHANGED <<diskTable, data, table, mounted>> /\ Unreserved' = Unreserved

\* fs_init, and a power loss, are a part of a power cycle or nothing.
LEMMA PowerSteps ==
  ASSUME KeptWord, FilesInv, FilesInv', Startup \/ Crash
  PROVE  Quiet \/ StoreStep
<1>o. (\A s \in Slots \ Persisted : table'[s] = NoEntry) => Outside' = {}
  BY DEF Outside, UsedSlots, NoEntry, FilesInv, TypeOK
<1>p. Persisted \subseteq Slots
  BY DEF Persisted
<1>1. CASE Boot \/ Crash
  <2>1. ~mounted' /\ (\A s \in Slots : table'[s] = NoEntry) /\ UNCHANGED <<diskTable, data>>
    BY <1>1 DEF Boot, Crash, ClearMemory, diskVars
  <2>2. Now' = Files!Formatted /\ Stored' = Stored
    BY <2>1, NothingNext, StoredKept DEF FilesInv
  <2>3. mounted' \in BOOLEAN
    BY DEF FilesInv, TypeOK
  <2> QED BY <1>o, <2>1, <2>2, <2>3, NoneUnreserved, ReachesPower
<1>2. CASE LoadSuperblock \/ FormatSuperblock
  <2>1. ~mounted /\ mounted' = mounted
    BY <1>2 DEF LoadSuperblock, FormatSuperblock, infoVars, FilesInv, Safe, Unmounted, BootSteps
  <2>2. \A s \in Slots : table[s] = NoEntry
    BY <2>1 DEF FilesInv, Safe, Unmounted
  <2>3. FormatSuperblock => table' = table
    BY <2>2 DEF FormatSuperblock, FilesInv, TypeOK
  <2>4. UNCHANGED <<diskTable, data, table>>
    BY <1>2, <2>3 DEF LoadSuperblock, FormatSuperblock, diskVars
  <2> QED BY <2>1, <2>4, ReservedKept DEF Quiet
<1>3. CASE FormatTable
  <2>1. PICK o \in ata_write_sectors(FS_TABLE_LBA) :
          /\ diskTable' = IF o.stored THEN [s \in Persisted |-> table[s]] ELSE diskTable
          /\ mounted' = o.ok
    BY <1>3 DEF FormatTable
  <2>2. table' = table /\ data' = data /\ \A s \in Slots : table[s] = NoEntry
    BY <1>3 DEF FormatTable, FilesInv, Safe, Unmounted, BootSteps
  <2>3. Now' = Files!Formatted /\ Outside' = {}
    BY <1>o, <2>2, NothingNext DEF FilesInv
  <2>4. o.ok => o.stored
    BY HonestWrite DEF KeptWord, HonestDrive
  <2>5. CASE o.stored
    <3>1. \A s \in Persisted : diskTable'[s] = NoEntry
      BY <1>p, <2>1, <2>2, <2>5
    <3>2. Stored' = Files!Formatted
      BY <3>1, NothingNext DEF FilesInv
    <3>3. Unreserved' = {}
      BY <3>1 DEF Unreserved, UsedSlots, NoEntry, FilesInv, TypeOK
    <3> QED BY <2>3, <3>2, <3>3, ReachesPower DEF FilesInv, TypeOK
  <2>6. CASE ~o.stored
    <3>1. Stored' = Stored /\ ~mounted'
      BY <2>1, <2>2, <2>4, <2>6, StoredKept
    <3> QED BY <2>3, <3>1, NoneUnreserved, ReachesPower DEF FilesInv, TypeOK
  <2> QED BY <2>5, <2>6
<1>4. CASE LoadTable
  <2>1. PICK o \in ata_read_sectors(FS_TABLE_LBA, 1) :
          /\ mounted' = o.ok
          /\ IF o.ok
             THEN table' = [s \in Slots |-> IF s \in Persisted THEN diskTable[s] ELSE NoEntry]
             ELSE table' = table
    BY <1>4 DEF LoadTable
  <2>2. UNCHANGED <<diskTable, data>> /\ ~mounted /\ pc' = "idle"
    BY <1>4 DEF LoadTable, diskVars, FilesInv, Safe, Unmounted, BootSteps
  <2>3. Stored' = Stored
    BY <2>2, StoredKept
  <2>4. CASE o.ok
    <3>1. (\A s \in Slots \ Persisted : table'[s] = NoEntry) /\ \A s \in Persisted : table'[s] = diskTable'[s]
      BY <1>p, <2>1, <2>2, <2>4
    <3>2. Outside' = {}
      BY <1>o, <3>1
    <3>3. diskTable' = [s \in Persisted |-> table'[s]]
      BY <3>1 DEF FilesInv, TypeOK
    <3>4. Files!fs_store_table
      BY <2>2, <3>3, SectorStored
    <3>5. Stored' = Now' /\ Unreserved' = {}
      BY <3>2, <3>4 DEF Files!fs_store_table, Now, Stored
    <3> QED BY <2>1, <2>3, <2>4, <3>2, <3>5, ReachesPower DEF FilesInv, TypeOK
  <2>5. CASE ~o.ok
    <3>1. \A s \in Slots : table'[s] = NoEntry
      BY <2>1, <2>2, <2>5 DEF FilesInv, Safe, Unmounted
    <3>2. Now' = Files!Formatted /\ Outside' = {}
      BY <1>o, <3>1, NothingNext DEF FilesInv
    <3> QED BY <2>1, <2>3, <2>5, <3>2, NoneUnreserved, ReachesPower DEF FilesInv, TypeOK
  <2> QED BY <2>4, <2>5
<1> QED BY <1>1, <1>2, <1>3, <1>4 DEF Startup

\* A write that begins spoils its file in memory at once; a new one may get an entry
\* outside the sector.
LEMMA EntryStep ==
  ASSUME KeptWord, FilesInv, FilesInv', NEW name \in Names, NEW c \in Contents, WriteEntry(name, c)
  PROVE  StoreStep
<1>1. PICK idx \in Slots, lba \in Ends :
        /\ WriteSlot(name, idx)
        /\ fs_next_free_lba(lba)
        /\ table' = [table EXCEPT ![idx] =
              [used |-> TRUE, name |-> IF @.used THEN @.name ELSE Trunc[name],
               start |-> lba, size |-> Size[c]]]
        /\ op' = [idx |-> idx, start |-> lba, content |-> c, i |-> 0, kept |-> 0]
  BY DEF WriteEntry
<1>2. UNCHANGED <<diskTable, data, mounted>> /\ mounted /\ pc = "idle"
  BY DEF WriteEntry, diskVars, infoVars
<1>3. /\ table[idx].used => table[idx].name = name
      /\ ~table[idx].used => \A s \in Slots : table[s].used => table[s].name # name
  BY <1>1 DEF WriteSlot, fs_find_entry, fs_find_free_entry, First, Matching, Free
<1>4. /\ table'[idx].used /\ table'[idx].name = name /\ table'[idx].size = Size[c] /\ table'[idx].start = lba
      /\ \A s \in Slots : s # idx => table'[s] = table[s]
  BY <1>1, <1>3 DEF KeptWord, NamesFit, FilesInv, TypeOK
<1>5. FileIn(table, name)' = Held(table[idx])'
  BY <1>4, FileIsNext DEF FilesInv
<1>6. Held(table[idx])' \in Partial
  <2>1. PICK e : e = table'[idx]
    OBVIOUS
  <2>2. Held(table[idx])' = Held(e)'
    BY <2>1 DEF Held
  <2> QED BY <1>4, <2>1, <2>2, HeldIsPartialNext DEF FilesInv, Filling
<1>7. \A m \in Names \ {name} : FileIn(table, m)' = FileIn(table, m)
  <2> TAKE m \in Names \ {name}
  <2>1. \A s \in Slots : table[s].used /\ table[s].name = m
                            => table'[s] = table[s] /\ Held(table[s])' = Held(table[s])
    BY <1>2, <1>3, <1>4 DEF Held
  <2>2. \A s \in Slots : table'[s].used /\ table'[s].name = m => table[s].used /\ table[s].name = m
    BY <1>4
  <2> QED BY <2>1, <2>2, FileKept
<1>8. PICK f \in Partial : FileIn(table, name)' = f
  BY <1>5, <1>6
<1>9. Now' = [Now EXCEPT ![name] = f]
  BY <1>7, <1>8, OneFile
<1>10. Files!Placed(name)
  <2>1. DOMAIN table = Slots /\ DOMAIN table' = Slots
    BY DEF FilesInv, TypeOK
  <2>2. CASE table[idx].used
    <3>1. Outside' = Outside
      BY <1>3, <1>4, <2>1, <2>2 DEF Outside, UsedSlots
    <3> QED BY <3>1 DEF Files!Placed
  <2>3. CASE ~table[idx].used
    <3>1. FileIn(table, name) = NoName
      BY <1>3, <2>3, FileIs DEF FilesInv
    <3>2. \A n \in Names \ {name} : n \in Outside' <=> n \in Outside
      BY <1>4, <2>1, <2>3 DEF Outside, UsedSlots
    <3>3. Outside \subseteq Names /\ Outside' \subseteq Names /\ name \notin Outside
      BY <1>3, <2>1, <2>3 DEF Outside, UsedSlots
    <3>4. Outside' = Outside \/ Outside' = Outside \cup {name}
      BY <3>2, <3>3
    <3> QED BY <3>1, <3>4 DEF Files!Placed
  <2> QED BY <2>2, <2>3
<1>11. \A s \in UsedSlots(diskTable) : Reserved(s) => Reserved(s)'
  <2> SUFFICES ASSUME NEW s \in Persisted, diskTable[s].used, Reserved(s) PROVE Reserved(s)'
    BY DEF UsedSlots, FilesInv, TypeOK
  <2>t. s \in Slots /\ table \in [Slots -> Entry] /\ table' \in [Slots -> Entry] /\ diskTable[s] \in Entry
    BY DEF FilesInv, TypeOK, Persisted
  <2>1. table[s].used /\ table[s].name = diskTable[s].name /\ End(diskTable[s]) <= End(table[s])
    BY <1>2 DEF Reserved
  <2>2. /\ End(diskTable[s]) \in Nat /\ End(table[s]) \in Nat /\ Blocks(Size[c]) \in Nat
        /\ lba \in Nat /\ End(table[s]) <= lba
    BY <1>1, <2>t, <2>1, EndNat, BlocksNat, FsAssumption DEF fs_next_free_lba, Ends, UsedSlots
  <2>3. CASE s = idx
    <3>1. End(table'[s]) = lba + Blocks(Size[c]) /\ op'.start = lba
      BY <1>1, <1>4, <2>3 DEF End
    <3>2. PICK x, y, z \in Nat : x = End(diskTable[s]) /\ y = lba /\ z = Blocks(Size[c])
      BY <2>2
    <3>3. End(diskTable[s]) <= op'.start /\ End(diskTable[s]) <= End(table'[s])
      BY <2>1, <2>2, <3>1, <3>2
    <3>4. (End(table[s]))' = End(table'[s]) /\ (End(diskTable[s]))' = End(diskTable[s])
      BY <1>2 DEF End
    <3> QED BY <1>2, <1>3, <1>4, <2>1, <2>3, <3>3, <3>4 DEF Reserved
  <2>4. CASE s # idx
    <3>1. table'[s] = table[s] /\ op'.idx # s
      BY <1>1, <1>4, <2>t, <2>4
    <3> QED BY <1>2, <2>1, <3>1 DEF Reserved, End
  <2> QED BY <2>3, <2>4
<1>12. Unreserved' \subseteq Unreserved
  <2>1. Unreserved' \subseteq Unreserved \cup {}
    BY <1>2, <1>11, ReservedStays
  <2> QED BY <2>1
<1>13. Files!Spoils
  <2>1. \A n \in Names : FileIn(diskTable, n)' = FileIn(diskTable, n)
    BY <1>2 DEF FileIn, Named, UsedSlots, Held
  <2> QED BY <1>12, <2>1, Spoiling
<1> QED BY <1>2, <1>8, <1>9, <1>10, <1>13, ReachesLeftover

\* A block goes into the file that is written; no other file in memory is touched, and
\* on the disk none whose sectors are reserved.
LEMMA BlockStep ==
  ASSUME KeptWord, FilesInv, FilesInv', WriteBlock
  PROVE  StoreStep
<1> DEFINE lba == op.start + op.i
           e == table[op.idx]
<1>1. /\ pc = "data" /\ op \in Writing /\ lba \in Nat /\ op.start <= lba
      /\ UNCHANGED <<diskTable, table, mounted>>
      /\ \A l \in DataLbas : l # lba => data'[l] = data[l]
      /\ \A l \in DataLbas : data'[l] \in Sectors
      /\ pc' \in {"data", "store"} => op'.idx = op.idx
  BY BlockWritten
<1>2. /\ mounted /\ e.used /\ e.size = Size[op.content] /\ e.start = op.start
      /\ op.idx \in Slots /\ op.content \in Contents
      /\ \A s \in UsedSlots(table) : s # op.idx => End(table[s]) <= op.start
  BY <1>1 DEF FilesInv, Safe, WriteInv, Writing
<1>3. PICK n \in Names : n = e.name
  BY <1>2 DEF FilesInv, KnownNames
<1>4. /\ table \in [Slots -> Entry] /\ diskTable \in [Persisted -> Entry] /\ op.start \in Nat
      /\ Persisted \subseteq Slots
  BY <1>1 DEF FilesInv, TypeOK, Writing, Persisted
<1>5. ASSUME NEW f \in Entry, End(f) <= op.start PROVE Held(f)' = Held(f)
  <2>1. PICK l \in Nat : l = lba
    BY <1>1
  <2>2. End(f) <= l
    BY <1>1, <1>4, <1>5, <2>1, EndNat
  <2> QED BY <1>1, <2>1, <2>2, HeldApart
<1>6. ASSUME NEW s \in Persisted, diskTable[s].used, Reserved(s) PROVE Held(diskTable[s])' = Held(diskTable[s])
  <2>1. PICK f \in Entry : f = diskTable[s]
    BY <1>4
  <2>2. End(f) <= op.start
    <3>1. CASE s = op.idx
      BY <1>1, <1>6, <2>1, <3>1 DEF Reserved
    <3>2. CASE s # op.idx
      <4>1. End(f) <= End(table[s]) /\ End(table[s]) <= op.start
        BY <1>2, <1>4, <1>6, <2>1, <3>2 DEF Reserved, UsedSlots
      <4>2. End(f) \in Nat /\ End(table[s]) \in Nat
        BY <1>4, EndNat
      <4> QED BY <1>4, <4>1, <4>2
    <3> QED BY <3>1, <3>2
  <2>3. Held(f)' = Held(f)
    BY <1>5, <2>2
  <2>4. Held(diskTable[s])' = Held(f)'
    BY <1>1, <2>1 DEF Held
  <2> QED BY <2>1, <2>3, <2>4
<1>7. \A m \in Names \ {n} : FileIn(table, m)' = FileIn(table, m)
  <2> TAKE m \in Names \ {n}
  <2>1. ASSUME NEW s \in Slots, table[s].used, table[s].name = m PROVE Held(table[s])' = Held(table[s])
    <3>1. PICK f \in Entry : f = table[s]
      BY <1>4
    <3>2. End(f) <= op.start
      BY <1>2, <1>3, <1>4, <2>1, <3>1 DEF UsedSlots
    <3>3. Held(f)' = Held(f)
      BY <1>5, <3>2
    <3>4. Held(table[s])' = Held(f)'
      BY <1>1, <3>1 DEF Held
    <3> QED BY <3>1, <3>3, <3>4
  <2> QED BY <1>1, <2>1, FileKept
<1>8. PICK s \in Slots : s = op.idx
  BY <1>2
<1>9. FileIn(table, n)' \in Partial
  <2>1. PICK f : f = table[s]
    OBVIOUS
  <2>2. FileIn(table, n)' = Held(table[s])'
    BY <1>1, <1>2, <1>3, <1>8, FileIsNext DEF FilesInv
  <2>3. Held(table[s])' = Held(f)'
    BY <1>1, <2>1 DEF Held
  <2>4. op.content \in Contents /\ f.size = Size[op.content]
    BY <1>2, <1>8, <2>1
  <2>5. Held(f)' \in Partial
    BY <1>1, <2>4, HeldIsPartialNext
  <2> QED BY <2>2, <2>3, <2>5
<1>10. PICK f \in Partial : FileIn(table, n)' = f
  BY <1>9
<1>11. Now' = [Now EXCEPT ![n] = f]
  BY <1>7, <1>10, OneFile
<1>12. Files!Placed(n)
  BY <1>1 DEF Files!Placed, Outside, UsedSlots
<1>13. Unreserved' \subseteq Unreserved
  <2>1. ASSUME NEW u \in Persisted, diskTable[u].used, Reserved(u) PROVE Reserved(u)'
    <3>1. table[u].used /\ table[u].name = diskTable[u].name
      BY <2>1 DEF Reserved
    <3>2. u # op.idx => End(diskTable[u]) <= End(table[u])
      BY <2>1 DEF Reserved
    <3>3. u = op.idx => End(diskTable[u]) <= op.start /\ End(diskTable[u]) <= End(table[u])
      <4> SUFFICES ASSUME u = op.idx PROVE End(diskTable[u]) <= op.start /\ End(diskTable[u]) <= End(table[u])
        OBVIOUS
      <4>1. End(diskTable[u]) <= op.start
        BY <1>1, <2>1 DEF Reserved
      <4>2. End(table[u]) = op.start + Blocks(e.size) /\ Blocks(e.size) \in Nat
        BY <1>2, BlocksNat, FsAssumption DEF End
      <4>3. End(diskTable[u]) \in Nat
        BY <1>4, EndNat
      <4>4. PICK x, y, z \in Nat : x = End(diskTable[u]) /\ y = op.start /\ z = Blocks(e.size)
        BY <1>4, <4>2, <4>3
      <4> QED BY <4>1, <4>2, <4>4
    <3>4. pc' = "data" => op'.idx = op.idx /\ op'.start = op.start
      <4>1. PICK o \in ata_write_sectors(op.start + op.i) :
              IF o.ok THEN op' = [op EXCEPT !.i = @ + 1, !.kept = IF o.stored THEN @ + 1 ELSE @]
              ELSE pc' = "idle"
        BY DEF WriteBlock
      <4> QED BY <1>1, <4>1 DEF Writing
    <3>5. End(table[u])' = End(table[u]) /\ End(diskTable[u])' = End(diskTable[u])
      BY <1>1 DEF End
    <3>6. (table[u].used /\ table[u].name = diskTable[u].name)'
      BY <1>1, <3>1
    <3>7. (End(diskTable[u]) <= (IF pc = "data" /\ u = op.idx THEN op.start ELSE End(table[u])))'
      BY <3>2, <3>3, <3>4, <3>5
    <3> QED BY <3>6, <3>7 DEF Reserved
  <2>2. Unreserved' \subseteq Unreserved \cup {}
    BY <1>1, <1>4, <2>1, ReservedStays DEF UsedSlots
  <2> QED BY <2>2
<1>14. ASSUME NEW m \in Names
       PROVE  \/ FileIn(diskTable, m)' = FileIn(diskTable, m)
              \/ m \in Unreserved /\ FileIn(diskTable, m)' \in Partial
  <2>1. CASE \A u \in Persisted : diskTable[u].used => diskTable[u].name # m
    <3>1. FileIn(diskTable, m) = NoName
      BY <2>1, FileIs DEF FilesInv
    <3>2. FileIn(diskTable, m)' = NoName
      BY <1>1, <2>1, FileIsNext DEF FilesInv
    <3> QED BY <3>1, <3>2
  <2>2. ASSUME NEW u \in Persisted, diskTable[u].used, diskTable[u].name = m
        PROVE  \/ FileIn(diskTable, m)' = FileIn(diskTable, m)
               \/ m \in Unreserved /\ FileIn(diskTable, m)' \in Partial
    <3>1. FileIn(diskTable, m) = Held(diskTable[u])
      BY <2>2, FileIs DEF FilesInv
    <3>2. FileIn(diskTable, m)' = Held(diskTable[u])'
      BY <1>1, <2>2, FileIsNext DEF FilesInv
    <3>3. CASE Reserved(u)
      BY <1>6, <2>2, <3>1, <3>2, <3>3
    <3>4. CASE ~Reserved(u)
      <4>1. m \in Unreserved
        BY <1>2, <1>4, <2>2, <3>4 DEF Unreserved, UsedSlots
      <4>2. PICK g \in Entry : g = diskTable[u]
        BY <1>4
      <4>3. PICK c \in Contents : g.size = Size[c]
        BY <2>2, <4>2 DEF FilesInv, Filling
      <4>4. Held(diskTable[u])' = Held(g)'
        BY <1>1, <4>2 DEF Held
      <4>5. Held(g)' \in Partial
        BY <1>1, <4>3, HeldIsPartialNext
      <4> QED BY <3>2, <4>1, <4>4, <4>5
    <3> QED BY <3>3, <3>4
  <2> QED BY <2>1, <2>2
<1>15. Files!Spoils
  BY <1>13, <1>14, Spoiling
<1> HIDE DEF lba, e
<1> QED BY <1>1, <1>2, <1>10, <1>11, <1>12, <1>15, ReachesLeftover

\* When the table is stored the file is whole: the write succeeds, or fails with the
\* file written in memory and perhaps on the disk.
LEMMA StoreStepIs ==
  ASSUME KeptWord, FilesInv, FilesInv', WriteStore
  PROVE  /\ Quiet \/ StoreStep
         /\ reply' = "write" => Files!fs_write_file(table[op.idx].name, Full(op.content))
<1>1. PICK o \in ata_write_sectors(FS_TABLE_LBA) : StoreTable(o, table, ledger') /\ reply' = Reply("write", o.ok)
  BY DEF WriteStore
<1>2. pc = "store" /\ pc' = "idle" /\ UNCHANGED <<data, table, mounted>>
  BY DEF WriteStore
<1>3. PICK n \in Names, c \in Contents : n = table[op.idx].name /\ c = op.content
  BY <1>2 DEF FilesInv, TypeOK, Writing, KnownNames, Safe, WriteInv
<1>4. /\ mounted /\ table[op.idx].used /\ op.idx \in Slots
      /\ table[op.idx].start = op.start /\ table[op.idx].size = Size[c]
      /\ \A j \in 0 .. Blocks(Size[c]) - 1 : op.start + j \in DataLbas /\ data[op.start + j] = <<c, j>>
  BY <1>2, <1>3 DEF FilesInv, TypeOK, Writing, Safe, WriteInv, Filling
<1>5. Held(table[op.idx]) = Full(c)
  BY <1>4 DEF Held, Full
<1>6. Now[n] = Full(c)
  BY <1>3, <1>4, <1>5, FileIs DEF FilesInv, Now
<1>7. Now' = Now
  BY <1>2, NowKept
<1>8. Now' = [Now EXCEPT ![n] = Full(c)]
  BY <1>6, <1>7 DEF Now
<1>9. Files!Placed(n)
  BY <1>2 DEF Files!Placed, Outside, UsedSlots
<1>10. CASE o.stored
  <2>1. diskTable' = [s \in Persisted |-> table'[s]]
    BY <1>1, <1>2, <1>10 DEF StoreTable
  <2>2. Files!fs_store_table
    BY <1>2, <2>1, SectorStored
  <2>3. StoreStep
    BY <1>2, <1>4, <1>8, <1>9, <2>2, ReachesFailed
  <2>4. Files!fs_write_file(n, Full(c))
    BY <1>2, <1>4, <1>8, <1>9, <2>2, ReachesWrite
  <2> QED BY <1>3, <2>3, <2>4
<1>11. CASE ~o.stored
  <2>1. ~o.ok
    BY <1>11, HonestWrite DEF KeptWord, HonestDrive
  <2>2. UNCHANGED diskTable /\ reply' = "failed"
    BY <1>1, <1>11, <2>1 DEF StoreTable, Reply
  <2> QED BY <1>2, <2>2, ReservedKept DEF Quiet
<1> QED BY <1>10, <1>11

\* A delete takes its file from memory, and the table to the disk if the drive does.
LEMMA DeleteStep ==
  ASSUME KeptWord, FilesInv, FilesInv', NEW name \in Names, DeleteFile(name)
  PROVE  Files!fs_delete_file(name)
<1>1. PICK idx \in Slots, o \in ata_write_sectors(FS_TABLE_LBA) :
        /\ fs_find_entry(name, idx)
        /\ table' = [table EXCEPT ![idx] = NoEntry]
        /\ IF o.stored THEN StoreTable(o, table', ledger') ELSE UNCHANGED diskTable
  BY DEF DeleteFile
<1>2. UNCHANGED <<data, mounted, pc>> /\ pc = "idle"
  BY DEF DeleteFile
<1>3. table[idx].used /\ table[idx].name = name /\ mounted
  BY <1>1 DEF fs_find_entry, First, Matching, FilesInv, Safe, Unmounted, NoEntry
<1>4. ~table'[idx].used /\ \A s \in Slots : s # idx => table'[s] = table[s]
  BY <1>1 DEF FilesInv, TypeOK, NoEntry
<1>5. \A s \in Slots : table[s].used /\ table[s].name = name => s = idx
  BY <1>3, UniqueOver DEF FilesInv, NoTwin, TypeOK
<1>6. FileIn(table, name)' = NoName
  <2>1. \A s \in Slots : table'[s].used => table'[s].name # name
    BY <1>4, <1>5
  <2> QED BY <2>1, FileIsNext DEF FilesInv
<1>7. \A m \in Names \ {name} : FileIn(table, m)' = FileIn(table, m)
  <2> TAKE m \in Names \ {name}
  <2>1. \A s \in Slots : table[s].used /\ table[s].name = m
                            => table'[s] = table[s] /\ Held(table[s])' = Held(table[s])
    BY <1>2, <1>3, <1>4 DEF Held
  <2>2. \A s \in Slots : table'[s].used /\ table'[s].name = m => table[s].used /\ table[s].name = m
    BY <1>4
  <2> QED BY <2>1, <2>2, FileKept
<1>8. Now' = [Now EXCEPT ![name] = NoName]
  BY <1>6, <1>7, OneFile
<1>9. Outside' = Outside \ {name}
  <2>1. DOMAIN table = Slots /\ DOMAIN table' = Slots
    BY DEF FilesInv, TypeOK
  <2>2. \A m \in Names : m \in Outside' <=> m \in Outside /\ m # name
    BY <1>3, <1>4, <1>5, <2>1 DEF Outside, UsedSlots
  <2>3. Outside \subseteq Names /\ Outside' \subseteq Names
    BY DEF Outside
  <2> QED BY <2>2, <2>3
<1>10. CASE o.stored
  <2>1. diskTable' = [s \in Persisted |-> table'[s]]
    BY <1>1, <1>10 DEF StoreTable
  <2>2. Files!fs_store_table
    BY <1>2, <2>1, SectorStored
  <2> QED BY <1>2, <1>3, <1>8, <1>9, <2>2, ReachesDelete
<1>11. CASE ~o.stored
  <2>1. diskTable' = diskTable
    BY <1>1, <1>11
  <2>2. ASSUME NEW s \in UsedSlots(diskTable), diskTable[s].name \notin {name}, Reserved(s) PROVE Reserved(s)'
    <3>1. s \in Slots /\ s # idx
      BY <1>3, <2>2 DEF UsedSlots, FilesInv, TypeOK, Persisted, Reserved
    <3>2. table'[s] = table[s]
      BY <1>4, <3>1
    <3> QED BY <1>2, <2>1, <2>2, <3>2 DEF Reserved, End
  <2>3. Unreserved' \subseteq Unreserved \cup {name}
    BY <1>2, <2>1, <2>2, ReservedStays
  <2> QED BY <1>2, <1>3, <1>8, <1>9, <2>1, <2>3, StoredKept, ReachesDelete
<1> QED BY <1>10, <1>11

LEMMA StoresStep ==
  ASSUME KeptWord, FilesInv, FilesInv', [Next]_vars
  PROVE  /\ Quiet \/ StoreStep
         /\ WriteStore /\ reply' = "write" => Files!fs_write_file(table[op.idx].name, Full(op.content))
         /\ \A n \in Names : DeleteFile(n) => Files!fs_delete_file(n)
<1>1. ASSUME NEW n \in Names, DeleteFile(n) PROVE Files!fs_delete_file(n) /\ StoreStep
  <2>1. Files!fs_delete_file(n)
    BY <1>1, DeleteStep
  <2> QED BY <2>1 DEF StoreStep, Files!StoreNext
<1>2. WriteStore /\ reply' = "write" => Files!fs_write_file(table[op.idx].name, Full(op.content))
  BY StoreStepIs
<1>3. ASSUME UNCHANGED <<diskTable, data, table, mounted, pc, op>> PROVE Quiet
  BY <1>3, ReservedKept DEF Quiet
<1>4. CASE Call
  <2>1. ASSUME NEW n \in Names, NEW b \in Buffers, ReadFile(n, b) PROVE Quiet
    BY <1>3, <2>1 DEF ReadFile, diskVars, infoVars
  <2>2. ASSUME UNCHANGED <<ataVars, diskVars, table, cache, infoVars, pc, op, ledgers, crashes>> PROVE Quiet
    BY <1>3, <2>2 DEF diskVars, infoVars
  <2> HIDE DEF Quiet
  <2>3. Quiet \/ StoreStep
    BY <1>1, <1>4, <2>1, <2>2, EntryStep DEF Call, WriteRefused, DeleteRefused, ReadRefused
  <2> QED BY <1>1, <1>2, <2>3
<1>5. CASE UNCHANGED vars
  BY <1>1, <1>2, <1>3, <1>5 DEF vars, diskVars, infoVars
<1>6. CASE Startup \/ Crash
  BY <1>1, <1>2, <1>6, PowerSteps
<1>7. CASE WriteBlock
  BY <1>1, <1>2, <1>7, BlockStep
<1>8. CASE WriteStore
  BY <1>1, <1>8, StoreStepIs
<1> QED BY <1>4, <1>5, <1>6, <1>7, <1>8 DEF Next, Continue

\* fs.c as its callers model it, for every table, disk and content, through all faults
\* but a lost write: an acknowledged write stores all that reads answer, but for the
\* files whose entry lies outside the stored sector; one that fails spoils at most the
\* file it writes, in memory, and on the disk those whose delete the drive did not store.
THEOREM CallsRefineFileStore == ASSUME HonestDrive, NamesFit PROVE Spec => CallsAreStoreSteps
<1>1. Init => FilesInv
  BY FilesStart
<1>2. FilesInv /\ [Next]_vars => FilesInv'
  BY FilesStep DEF KeptWord
<1>3. FilesInv /\ FilesInv' /\ [Next]_vars =>
        /\ UNCHANGED <<diskTable, data, table, mounted>> \/ StoreStep
        /\ WriteStore /\ reply' = "write" => Files!fs_write_file(table[op.idx].name, Full(op.content))
        /\ \A n \in Names : DeleteFile(n) => Files!fs_delete_file(n)
  <2>1. Quiet => UNCHANGED <<diskTable, data, table, mounted>>
    BY DEF Quiet
  <2> QED BY <2>1, StoresStep DEF KeptWord
<1> QED BY <1>1, <1>2, <1>3, PTL DEF Spec, CallsAreStoreSteps

\* Fs implements FileStore, for every table, disk and content, as long as the drive
\* answers for what it stored: the programs of Config, Package and Editor may then take
\* the calls of fs.c for single steps.
THEOREM FsImplementsFileStore == ASSUME HonestDrive, NamesFit PROVE Spec => ImplementsFileStore
<1>1. Init => FilesInv /\ Files!StoreInit
  <2> SUFFICES ASSUME Init PROVE FilesInv /\ Files!StoreInit
    OBVIOUS
  <2>1. FilesInv
    BY FilesStart
  <2>2. mounted \in BOOLEAN /\ Outside = {} /\ Unreserved = {}
    BY DEF Init, Outside, Unreserved, UsedSlots, NoEntry
  <2>3. /\ \A n \in Names : FileIn(table, n) = NoName
        /\ \A n \in Names : FileIn(diskTable, n) = NoName
    BY DEF Init, FileIn, Named, UsedSlots, NoEntry
  <2> QED BY <2>1, <2>2, <2>3 DEF Files!StoreInit, Files!Formatted
<1>2. FilesInv /\ [Next]_vars => FilesInv'
  BY FilesStep DEF KeptWord
<1>3. FilesInv /\ FilesInv' /\ [Next]_vars => [StoreStep]_(Files!storeVars)
  <2> SUFFICES ASSUME FilesInv, FilesInv', [Next]_vars PROVE [StoreStep]_(Files!storeVars)
    OBVIOUS
  <2>1. Quiet \/ StoreStep
    BY StoresStep DEF KeptWord
  <2>2. CASE Quiet
    <3>1. Now' = Now /\ Stored' = Stored /\ mounted' = mounted
      BY <2>2, NowKept, StoredKept DEF Quiet
    <3>2. Outside' = Outside /\ Unreserved' = Unreserved
      BY <2>2 DEF Quiet, Outside, UsedSlots
    <3> QED BY <3>1, <3>2 DEF Files!storeVars, Now, Stored
  <2> QED BY <2>1, <2>2
<1> QED BY <1>1, <1>2, <1>3, PTL DEF Spec, ImplementsFileStore

=============================================================================
