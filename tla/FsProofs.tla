------------------------------- MODULE FsProofs -------------------------------
(***************************************************************************)
(* Proofs about Fs for every table size, disk size, set of names and        *)
(* contents and every set of device faults, lost writes included.           *)
(***************************************************************************)
EXTENDS Fs, FiniteSetTheorems, TLAPS

-----------------------------------------------------------------------------
(* Facts about the operators.                                               *)

\* fs_blocks_for_bytes returns a number of blocks.
LEMMA BlocksNat == \A n \in Nat : Blocks(n) \in Nat
  BY FsAssumption DEF Blocks

\* The end of an extent is an LBA.
LEMMA EndNat == \A e \in Entry : End(e) \in Nat
  BY BlocksNat DEF End, Entry

\* An outcome of ata_write_sectors is well formed, and a sector that is stored
\* is a sector of the medium.
LEMMA WriteOutcomes ==
  ASSUME NEW lba, AtaTypeOK, NEW o \in ata_write_sectors(lba)
  PROVE  /\ o \in Outcome
         /\ o.stored => ~(lba >= TotalSectors)
<1>1. Refused \in Outcome /\ ~Refused.stored
  BY DEF AtaTypeOK, Refused, Outcome
<1>2. \A f \in BOOLEAN : /\ Rejected(f) \in Outcome /\ ~Rejected(f).stored
                         /\ Lost(f) \in Outcome /\ ~Lost(f).stored
  BY DEF Rejected, Lost, Outcome
<1>3. /\ Done \in Outcome /\ TimedOut \in Outcome
      /\ \A f \in BOOLEAN : FlushFailed(f) \subseteq Outcome
  BY DEF Done, TimedOut, FlushFailed, Outcome
<1>4. CASE ~Ready
  BY <1>1, <1>4 DEF ata_write_sectors
<1>5. CASE Ready /\ lba >= TotalSectors
  BY <1>2, <1>5 DEF ata_write_sectors
<1>6. CASE Ready /\ ~(lba >= TotalSectors)
  BY <1>2, <1>3, <1>6 DEF ata_write_sectors
<1>7. QED BY <1>4, <1>5, <1>6

\* An outcome of ata_read_sectors is well formed.
LEMMA ReadOutcomes ==
  ASSUME NEW lba, NEW count, AtaTypeOK, NEW o \in ata_read_sectors(lba, count)
  PROVE  o \in Outcome
<1>1. Refused \in Outcome
  BY DEF AtaTypeOK, Refused, Outcome
<1>2. \A f \in BOOLEAN : Rejected(f) \in Outcome /\ Torn(f) \in Outcome
  BY DEF Rejected, Torn, Outcome
<1>3. Done \in Outcome /\ TimedOut \in Outcome
  BY DEF Done, TimedOut, Outcome
<1>4. QED BY <1>1, <1>2, <1>3 DEF ata_read_sectors

\* A transfer keeps the driver's state well formed.
LEMMA TransferType ==
  ASSUME AtaTypeOK, NEW o \in Outcome, Transfer(o)
  PROVE  AtaTypeOK'
  BY DEF AtaTypeOK, Outcome, Transfer

\* The number of used slots of a table is a natural number.
LEMMA UsedCount ==
  ASSUME NEW t \in [Slots -> Entry]
  PROVE  Cardinality(UsedSlots(t)) \in Nat
<1>1. IsFiniteSet(Slots)
  BY FsAssumption, FS_Interval DEF Slots
<1>2. UsedSlots(t) \subseteq Slots
  BY DEF UsedSlots
<1>3. QED BY <1>1, <1>2, FS_Subset, FS_CardinalityType

\* The constants of the empty memory have the types of the state.
LEMMA EmptyTypes ==
  /\ NoEntry \in Entry
  /\ Nothing \in Promise \cup {Nothing}
  /\ Blank \in SectorVal
<1>1. NoEntry \in Entry
  BY DEF NoEntry, Entry
<1>2. Blank \in SectorVal
  BY DEF Blank, SectorVal
<1>3. QED BY <1>1, <1>2

-----------------------------------------------------------------------------
(* Type correctness.                                                        *)

\* A blank disk and a machine that is off are well typed.
LEMMA TypeInit == Init => TypeOK
<1> SUFFICES ASSUME Init PROVE TypeOK
  OBVIOUS
<1>1. AtaTypeOK
  BY DEF Init, AtaOff, AtaTypeOK
<1>2. /\ diskTable \in [Persisted -> Entry]
      /\ data \in [DataLbas -> SectorVal]
      /\ table \in [Slots -> Entry]
      /\ cache \in [Slots -> Entry]
      /\ ledger \in [Slots -> Promise \cup {Nothing}]
      /\ diskLedger \in [Persisted -> Promise \cup {Nothing}]
  BY EmptyTypes DEF Init
<1>3. QED
  BY <1>1, <1>2 DEF Init, TypeOK, Reply, Replies, BootSteps

\* Zeroed memory is well formed.
LEMMA ClearType ==
  ASSUME ClearMemory
  PROVE  /\ table' \in [Slots -> Entry] /\ cache' \in [Slots -> Entry]
         /\ mounted' \in BOOLEAN /\ used_files' \in Nat
         /\ op' \in Writing \cup {NoOp}
         /\ ledger' \in [Slots -> Promise \cup {Nothing}]
  BY EmptyTypes DEF ClearMemory

\* The steps of ata_init and fs_init keep every variable's type.
LEMMA TypeStartup == TypeOK /\ Startup => TypeOK'
<1> SUFFICES ASSUME TypeOK, Startup PROVE TypeOK'
  OBVIOUS
<1>0. AtaTypeOK
  BY DEF TypeOK
<1>1. CASE Boot
  <2>1. AtaTypeOK'
    <3>1. latched' \in BOOLEAN /\ present' \in BOOLEAN
      BY <1>1 DEF Boot, ata_init
    <3>2. faults' \in Nat
      BY <1>0, <1>1 DEF Boot, ata_init, AtaTypeOK
    <3>3. QED BY <3>1, <3>2 DEF AtaTypeOK
  <2>2. pc' \in BootSteps \cup {"idle"} /\ pc' \notin {"data", "store"}
    BY <1>1 DEF Boot, BootSteps
  <2>3. QED
    BY <1>1, <2>1, <2>2, ClearType DEF Boot, TypeOK, diskVars
<1>2. CASE LoadSuperblock
  <2>1. PICK o \in ata_read_sectors(0, 1) : Transfer(o)
    BY <1>2 DEF LoadSuperblock
  <2>2. AtaTypeOK'
    BY <1>0, <2>1, ReadOutcomes, TransferType
  <2>3. QED
    BY <1>2, <2>2 DEF LoadSuperblock, TypeOK, BootSteps, diskVars, infoVars, ledgers
<1>3. CASE FormatSuperblock
  <2>1. PICK o \in ata_write_sectors(0) :
           /\ Transfer(o)
           /\ superblock' = (o.stored \/ superblock)
           /\ pc' = IF o.ok THEN "fmtTable" ELSE "idle"
           /\ reply' = Reply("boot", o.ok)
    BY <1>3 DEF FormatSuperblock
  <2>2. o \in Outcome /\ AtaTypeOK'
    BY <1>0, <2>1, WriteOutcomes, TransferType
  <2>3. QED
    BY <1>3, <2>1, <2>2, EmptyTypes
    DEF FormatSuperblock, TypeOK, BootSteps, diskVars, infoVars, ledgers, Outcome, Reply, Replies
<1>4. CASE FormatTable
  <2>1. PICK o \in ata_write_sectors(FS_TABLE_LBA) :
           /\ Transfer(o)
           /\ diskTable' = IF o.stored THEN [s \in Persisted |-> table[s]] ELSE diskTable
           /\ diskLedger' = IF o.stored \/ o.ok
                            THEN [s \in Persisted |-> Nothing] ELSE diskLedger
           /\ mounted' = o.ok
           /\ reply' = Reply("boot", o.ok)
           /\ cache' = IF o.ok THEN table ELSE cache
    BY <1>4 DEF FormatTable
  <2>2. o \in Outcome /\ AtaTypeOK'
    BY <1>0, <2>1, WriteOutcomes, TransferType
  <2>3. diskTable' \in [Persisted -> Entry] /\ diskLedger' \in [Persisted -> Promise \cup {Nothing}]
    BY <2>1, EmptyTypes DEF TypeOK, Persisted
  <2>4. QED
    BY <1>4, <2>1, <2>2, <2>3
    DEF FormatTable, TypeOK, BootSteps, diskVars, infoVars, ledgers, Outcome, Reply, Replies
<1>5. CASE LoadTable
  <2>1. PICK o \in ata_read_sectors(FS_TABLE_LBA, 1) :
           /\ Transfer(o)
           /\ IF o.ok
              THEN /\ table' = [s \in Slots |->
                                   IF s \in Persisted THEN diskTable[s] ELSE NoEntry]
                   /\ ledger' = [s \in Slots |->
                                   IF s \in Persisted THEN diskLedger[s] ELSE Nothing]
              ELSE UNCHANGED <<table, ledger>>
           /\ mounted' = o.ok
           /\ used_files' = Cardinality(UsedSlots(table'))
           /\ cache' = table'
           /\ reply' = Reply("boot", o.ok)
    BY <1>5 DEF LoadTable
  <2>2. o \in Outcome /\ AtaTypeOK'
    BY <1>0, <2>1, ReadOutcomes, TransferType
  <2>3. table' \in [Slots -> Entry] /\ ledger' \in [Slots -> Promise \cup {Nothing}]
    BY <2>1, EmptyTypes DEF TypeOK
  <2>4. used_files' \in Nat
    BY <2>1, <2>3, UsedCount
  <2>5. QED
    BY <1>5, <2>1, <2>2, <2>3, <2>4
    DEF LoadTable, TypeOK, BootSteps, diskVars, Outcome, Reply, Replies
<1>6. QED BY <1>1, <1>2, <1>3, <1>4, <1>5 DEF Startup

\* The transfers of a running fs_write_file keep every variable's type.
LEMMA TypeContinue == TypeOK /\ Continue => TypeOK'
<1> SUFFICES ASSUME TypeOK, Continue PROVE TypeOK'
  OBVIOUS
<1>0. AtaTypeOK
  BY DEF TypeOK
<1>1. CASE WriteBlock
  <2> DEFINE lba == op.start + op.i
  <2>1. PICK o \in ata_write_sectors(lba) :
          /\ Transfer(o)
          /\ data' = IF o.stored THEN [data EXCEPT ![lba] = <<op.content, op.i>>] ELSE data
          /\ IF o.ok
             THEN /\ pc' = IF op.i + 1 = Blocks(Size[op.content]) THEN "store" ELSE "data"
                  /\ op' = [op EXCEPT !.i = @ + 1, !.kept = IF o.stored THEN @ + 1 ELSE @]
                  /\ UNCHANGED reply
             ELSE /\ pc' = "idle"
                  /\ op' = NoOp
                  /\ reply' = Reply("write", FALSE)
    BY <1>1 DEF WriteBlock
  <2>2. o \in Outcome /\ AtaTypeOK'
    BY <1>0, <2>1, WriteOutcomes, TransferType
  <2>3. op \in Writing
    BY <1>1 DEF WriteBlock, TypeOK
  <2>4. data' \in [DataLbas -> SectorVal]
    BY <2>1, <2>3 DEF TypeOK, Writing, SectorVal
  <2>5. o.ok => op' \in Writing
    <3> DEFINE k == IF o.stored THEN op.kept + 1 ELSE op.kept
    <3>1. k \in Nat /\ op.i + 1 \in Nat
      BY <2>3 DEF Writing
    <3>2. o.ok => op' = [op EXCEPT !.i = op.i + 1, !.kept = k]
      BY <2>1
    <3> HIDE DEF k
    <3>3. QED BY <2>3, <3>1, <3>2 DEF Writing
  <2>6. pc' \in {"idle", "data", "store"} /\ (pc' \in {"data", "store"} => op' \in Writing)
        /\ op' \in Writing \cup {NoOp} /\ reply' \in Replies
    BY <2>1, <2>5 DEF TypeOK, Reply, Replies
  <2>7. QED
    BY <1>1, <2>2, <2>4, <2>6 DEF WriteBlock, TypeOK, infoVars, ledgers
<1>2. CASE WriteStore
  <2>1. PICK o \in ata_write_sectors(FS_TABLE_LBA) :
          /\ Transfer(o)
          /\ ledger' = IF o.ok /\ op.kept = op.i
                       THEN [ledger EXCEPT ![op.idx] =
                              [name |-> table[op.idx].name, content |-> op.content]]
                       ELSE ledger
          /\ StoreTable(o, table, ledger')
          /\ IF o.ok
             THEN /\ used_files' = Cardinality(UsedSlots(table))
                  /\ cache' = table
             ELSE UNCHANGED <<used_files, cache>>
          /\ reply' = Reply("write", o.ok)
    BY <1>2 DEF WriteStore
  <2>2. o \in Outcome /\ AtaTypeOK'
    BY <1>0, <2>1, WriteOutcomes, TransferType
  <2>3. op \in Writing
    BY <1>2 DEF WriteStore, TypeOK
  <2>4. ledger' \in [Slots -> Promise \cup {Nothing}]
    BY <2>1, <2>3 DEF TypeOK, Writing, Promise, Entry
  <2>5. /\ diskTable' \in [Persisted -> Entry]
        /\ diskLedger' \in [Persisted -> Promise \cup {Nothing}]
    BY <2>1, <2>4 DEF StoreTable, TypeOK, Persisted
  <2>6. used_files' \in Nat /\ cache' \in [Slots -> Entry] /\ reply' \in Replies
    BY <2>1, UsedCount DEF TypeOK, Reply, Replies
  <2>7. QED
    BY <1>2, <2>2, <2>4, <2>5, <2>6 DEF WriteStore, TypeOK
<1>3. QED BY <1>1, <1>2 DEF Continue

\* fs_write_file's change of the table in memory yields an entry again.
LEMMA TypeWriteEntry ==
  ASSUME TypeOK, NEW name \in Names, NEW c \in Contents, WriteEntry(name, c)
  PROVE  TypeOK'
<1>1. PICK idx \in Slots, lba \in Ends :
        /\ table' = [table EXCEPT ![idx] =
              [used |-> TRUE,
               name |-> IF @.used THEN @.name ELSE Trunc[name],
               start |-> lba,
               size |-> Size[c]]]
        /\ op' = [idx |-> idx, start |-> lba, content |-> c, i |-> 0, kept |-> 0]
        /\ ledger' = [ledger EXCEPT ![idx] = Nothing]
  BY DEF WriteEntry
<1>2. lba \in Nat
  BY FsAssumption, EndNat DEF Ends, UsedSlots, TypeOK
<1>3. table' \in [Slots -> Entry]
  <2> DEFINE n == IF table[idx].used THEN table[idx].name ELSE Trunc[name]
  <2>1. n \in Names \cup {NoName}
    BY FsAssumption DEF TypeOK, Entry
  <2>2. table' = [table EXCEPT ![idx] =
                    [used |-> TRUE, name |-> n, start |-> lba, size |-> Size[c]]]
    BY <1>1 DEF TypeOK
  <2>3. Size[c] \in Nat
    BY FsAssumption
  <2> HIDE DEF n
  <2>4. [used |-> TRUE, name |-> n, start |-> lba, size |-> Size[c]] \in Entry
    BY <1>2, <2>1, <2>3 DEF Entry
  <2>5. QED BY <2>2, <2>4 DEF TypeOK
<1>4. op' \in Writing
  BY <1>1, <1>2 DEF Writing
<1>5. ledger' \in [Slots -> Promise \cup {Nothing}]
  BY <1>1 DEF TypeOK
<1>6. pc' \in {"data", "store"}
  BY DEF WriteEntry
<1>7. AtaTypeOK'
  BY DEF WriteEntry, TypeOK, AtaTypeOK, ataVars
<1>8. QED
  BY <1>3, <1>4, <1>5, <1>6, <1>7 DEF WriteEntry, TypeOK, diskVars, infoVars

\* fs_delete_file leaves entries, and a count that is not negative.
LEMMA TypeDeleteFile ==
  ASSUME TypeOK, NEW name \in Names, DeleteFile(name)
  PROVE  TypeOK'
<1>1. PICK idx \in Slots, o \in ata_write_sectors(FS_TABLE_LBA) :
        /\ table' = [table EXCEPT ![idx] = NoEntry]
        /\ ledger' = [ledger EXCEPT ![idx] = Nothing]
        /\ Transfer(o)
        /\ IF o.stored
           THEN StoreTable(o, table', ledger')
           ELSE /\ diskLedger' = [s \in Persisted |->
                                    IF s = idx THEN Nothing ELSE diskLedger[s]]
                /\ UNCHANGED diskTable
        /\ IF o.ok
           THEN /\ used_files' = IF used_files > 0 THEN used_files - 1 ELSE 0
                /\ cache' = table'
           ELSE UNCHANGED <<used_files, cache>>
        /\ reply' = Reply("delete", o.ok)
  BY DEF DeleteFile, OneLess
<1>2. o \in Outcome /\ AtaTypeOK'
  BY <1>1, WriteOutcomes, TransferType DEF TypeOK
<1>3. table' \in [Slots -> Entry] /\ ledger' \in [Slots -> Promise \cup {Nothing}]
  BY <1>1, EmptyTypes DEF TypeOK
<1>4. /\ diskTable' \in [Persisted -> Entry]
      /\ diskLedger' \in [Persisted -> Promise \cup {Nothing}]
  BY <1>1, <1>3 DEF StoreTable, TypeOK, Persisted
<1>5. used_files' \in Nat /\ cache' \in [Slots -> Entry] /\ reply' \in Replies
  BY <1>1, <1>3 DEF TypeOK, Reply, Replies
<1>6. QED
  BY <1>2, <1>3, <1>4, <1>5 DEF DeleteFile, TypeOK

\* fs_read_file changes nothing but the drive's state and the reply.
LEMMA TypeReadFile ==
  ASSUME TypeOK, NEW name \in Names, NEW buflen \in Buffers, ReadFile(name, buflen)
  PROVE  TypeOK'
<1>1. AtaTypeOK' /\ reply' \in Replies
  <2>1. PICK s \in Slots :
          IF Blocks(table[s].size) = 0
          THEN /\ reply' = Reply("read", TRUE)
               /\ UNCHANGED ataVars
          ELSE \E o \in ata_read_sectors(table[s].start, ReadCount(table[s])) :
                 /\ Transfer(o)
                 /\ reply' = Reply("read", o.ok)
    BY DEF ReadFile
  <2>2. CASE Blocks(table[s].size) = 0
    BY <2>1, <2>2 DEF TypeOK, AtaTypeOK, ataVars, Reply, Replies
  <2>3. CASE Blocks(table[s].size) # 0
    <3>1. PICK o \in ata_read_sectors(table[s].start, ReadCount(table[s])) :
            Transfer(o) /\ reply' = Reply("read", o.ok)
      BY <2>1, <2>3
    <3>2. AtaTypeOK'
      BY <3>1, ReadOutcomes, TransferType DEF TypeOK
    <3>3. QED BY <3>1, <3>2 DEF Reply, Replies
  <2>4. QED BY <2>2, <2>3
<1>2. QED
  BY <1>1 DEF ReadFile, TypeOK, diskVars, infoVars, ledgers

\* A refused call changes nothing but the reply.
LEMMA TypeRefused ==
  ASSUME TypeOK, reply' = Reply("write", FALSE),
         UNCHANGED <<ataVars, diskVars, table, cache, infoVars, pc, op, ledgers, crashes>>
  PROVE  TypeOK'
  BY DEF TypeOK, AtaTypeOK, Reply, Replies, ataVars, diskVars, infoVars, ledgers

\* Every call of the shell, refused or begun, keeps every variable's type.
LEMMA TypeCall == TypeOK /\ Call => TypeOK'
<1> SUFFICES ASSUME TypeOK, Call PROVE TypeOK'
  OBVIOUS
<1>1. ASSUME NEW name \in Names, NEW c \in Contents, WriteRefused(name, c) PROVE TypeOK'
  BY <1>1, TypeRefused DEF WriteRefused
<1>2. ASSUME NEW name \in Names, DeleteRefused(name) PROVE TypeOK'
  BY <1>2, TypeRefused DEF DeleteRefused, Reply
<1>3. ASSUME NEW name \in Names, NEW b \in Buffers, ReadRefused(name, b) PROVE TypeOK'
  BY <1>3, TypeRefused DEF ReadRefused, Reply
<1>4. QED
  BY <1>1, <1>2, <1>3, TypeWriteEntry, TypeDeleteFile, TypeReadFile DEF Call

\* A power loss keeps every variable's type.
LEMMA TypeCrash == TypeOK /\ Crash => TypeOK'
<1> SUFFICES ASSUME TypeOK, Crash PROVE TypeOK'
  OBVIOUS
<1>1. AtaTypeOK' /\ crashes' \in Nat /\ reply' \in Replies /\ pc' = "off"
  BY DEF Crash, TypeOK, AtaTypeOK, ataVars, Reply, Replies
<1>2. QED
  BY <1>1, ClearType DEF Crash, TypeOK, diskVars, BootSteps

\* Every step keeps every variable's type.
LEMMA TypeStep == TypeOK /\ [Next]_vars => TypeOK'
<1>1. TypeOK /\ UNCHANGED vars => TypeOK'
  BY DEF TypeOK, AtaTypeOK, vars, ataVars, diskVars, infoVars, ledgers
<1>2. QED
  BY <1>1, TypeStartup, TypeContinue, TypeCall, TypeCrash DEF Next

\* Every variable of the filesystem keeps its type: in particular LBAs stay
\* natural numbers and no handler leaves a half-built entry.
THEOREM FsTypeCorrect == Spec => []TypeOK
  BY TypeInit, TypeStep, PTL DEF Spec

-----------------------------------------------------------------------------
(***************************************************************************)
(* The safety invariant.  Safe is FsInv without its type part: each lemma   *)
(* below shows that one action preserves it.                                *)
(***************************************************************************)
Safe == ExtentsDisjoint /\ KeepsPromises /\ Covered /\ WriteInv /\ Unmounted

\* A table without used entries has disjoint extents.
LEMMA EmptyDisjoint ==
  ASSUME NEW S, NEW t, t = [s \in S |-> NoEntry]
  PROVE  Disjoint(t)
  BY DEF Disjoint, UsedSlots, NoEntry

\* Disjointness of a table, with its domain spelled out.
LEMMA DisjointOver ==
  ASSUME NEW S, NEW t \in [S -> Entry]
  PROVE  Disjoint(t) <=> \A s, u \in S :
            t[s].used /\ t[u].used /\ s # u => Apart(t[s], t[u])
  BY DEF Disjoint, UsedSlots

\* Memory cleared, disk as before: power off and power on.
LEMMA SafeCleared ==
  ASSUME TypeOK, Safe, ClearMemory, UNCHANGED <<diskVars, diskLedger>>,
         pc' \notin {"data", "store"}
  PROVE  Safe'
<1>1. ExtentsDisjoint'
  BY EmptyDisjoint DEF ClearMemory, Safe, ExtentsDisjoint, diskVars
<1>2. KeepsPromises'
  BY DEF ClearMemory, Safe, KeepsPromises, Holds, diskVars
<1>3. Covered' /\ WriteInv' /\ Unmounted'
  BY DEF ClearMemory, Covered, WriteInv, Unmounted
<1>4. QED BY <1>1, <1>2, <1>3 DEF Safe

\* A step that changes neither the disk nor memory and begins no write.
LEMMA SafeUnchanged ==
  ASSUME TypeOK, Safe,
         UNCHANGED <<diskTable, data, table, mounted, op, ledgers>>,
         \/ UNCHANGED pc
         \/ pc' = "idle"
         \/ pc \in BootSteps /\ pc' \in BootSteps
  PROVE  Safe'
<1>1. ExtentsDisjoint' /\ KeepsPromises' /\ Covered'
  BY DEF Safe, ExtentsDisjoint, Disjoint, UsedSlots, Apart, End,
         KeepsPromises, Holds, Covered, ledgers
<1>2. WriteInv'
  BY DEF Safe, WriteInv, UsedSlots, ledgers, BootSteps
<1>3. Unmounted'
  BY DEF Safe, Unmounted, ledgers, BootSteps
<1>4. QED BY <1>1, <1>2, <1>3 DEF Safe

\* Booting, formatting or loading the table, keeps what Safe says of disk and memory.
LEMMA SafeStartup == TypeOK /\ Safe /\ Startup => Safe'
<1> SUFFICES ASSUME TypeOK, Safe, Startup PROVE Safe'
  OBVIOUS
<1>1. CASE Boot
  <2>1. pc' \notin {"data", "store"}
    BY <1>1 DEF Boot
  <2>2. QED BY <1>1, <2>1, SafeCleared DEF Boot
<1>2. CASE LoadSuperblock
  <2>1. pc \in BootSteps /\ pc' \in BootSteps
    BY <1>2 DEF LoadSuperblock, BootSteps
  <2>2. QED BY <1>2, <2>1, SafeUnchanged DEF LoadSuperblock, diskVars, infoVars
<1>3. CASE FormatSuperblock
  <2>1. \A s \in Slots : table[s] = NoEntry
    BY <1>3 DEF FormatSuperblock, Safe, Unmounted, BootSteps
  <2>2. table' = table
    BY <1>3, <2>1 DEF FormatSuperblock, TypeOK
  <2>3. pc' = "idle" \/ (pc \in BootSteps /\ pc' \in BootSteps)
    BY <1>3 DEF FormatSuperblock, BootSteps
  <2>4. QED BY <1>3, <2>2, <2>3, SafeUnchanged DEF FormatSuperblock, infoVars
<1>4. CASE FormatTable
  <2>1. PICK o \in ata_write_sectors(FS_TABLE_LBA) :
           /\ diskTable' = IF o.stored THEN [s \in Persisted |-> table[s]] ELSE diskTable
           /\ diskLedger' = IF o.stored \/ o.ok
                            THEN [s \in Persisted |-> Nothing] ELSE diskLedger
           /\ mounted' = o.ok
    BY <1>4 DEF FormatTable
  <2>2. \A s \in Slots : table[s] = NoEntry /\ ledger[s] = Nothing
    BY <1>4 DEF FormatTable, Safe, Unmounted, BootSteps
  <2>3. table' = table /\ ledger' = ledger /\ data' = data /\ pc' = "idle"
    BY <1>4 DEF FormatTable
  <2>4. ExtentsDisjoint'
    <3>1. Disjoint(table')
      BY <2>3 DEF Safe, ExtentsDisjoint
    <3>2. o.stored => diskTable' = [s \in Persisted |-> NoEntry]
      BY <2>1, <2>2 DEF Persisted
    <3>3. QED BY <2>1, <3>1, <3>2, EmptyDisjoint DEF Safe, ExtentsDisjoint
  <2>5. KeepsPromises'
    BY <2>1, <2>2, <2>3 DEF Safe, KeepsPromises, Holds, Persisted
  <2>6. Covered'
    BY <2>1 DEF Covered
  <2>7. WriteInv' /\ Unmounted'
    BY <2>2, <2>3 DEF WriteInv, Unmounted, BootSteps
  <2>8. QED BY <2>4, <2>5, <2>6, <2>7 DEF Safe
<1>5. CASE LoadTable
  <2>1. PICK o \in ata_read_sectors(FS_TABLE_LBA, 1) :
           /\ IF o.ok
              THEN /\ table' = [s \in Slots |->
                                   IF s \in Persisted THEN diskTable[s] ELSE NoEntry]
                   /\ ledger' = [s \in Slots |->
                                   IF s \in Persisted THEN diskLedger[s] ELSE Nothing]
              ELSE UNCHANGED <<table, ledger>>
           /\ mounted' = o.ok
    BY <1>5 DEF LoadTable
  <2>2. diskTable' = diskTable /\ diskLedger' = diskLedger /\ data' = data /\ pc' = "idle"
    BY <1>5 DEF LoadTable, diskVars
  <2>3. CASE o.ok
    <3>1. table' = [s \in Slots |-> IF s \in Persisted THEN diskTable[s] ELSE NoEntry]
      BY <2>1, <2>3
    <3>2. ledger' = [s \in Slots |-> IF s \in Persisted THEN diskLedger[s] ELSE Nothing]
      BY <2>1, <2>3
    <3>3. Disjoint(table')
      <4>1. table' \in [Slots -> Entry] /\ diskTable \in [Persisted -> Entry]
        BY <3>1, EmptyTypes DEF TypeOK
      <4>2. Disjoint(diskTable)
        BY DEF Safe, ExtentsDisjoint
      <4>3. QED BY <3>1, <4>1, <4>2, DisjointOver DEF NoEntry
    <3>4. ExtentsDisjoint'
      BY <2>2, <3>3 DEF Safe, ExtentsDisjoint
    <3>5. KeepsPromises'
      BY <2>2, <3>1, <3>2 DEF Safe, KeepsPromises, Holds
    <3>6. Covered'
      <4>1. \A s \in Persisted : s \in Slots /\ table'[s] = diskTable[s]
        BY <3>1 DEF Persisted
      <4>2. \A s \in Persisted : diskLedger[s] # Nothing => diskTable[s].used
        BY DEF Safe, KeepsPromises, Holds
      <4>3. \A s \in Persisted : End(diskTable[s]) <= End(diskTable[s])
        BY EndNat DEF TypeOK
      <4>4. QED BY <2>2, <4>1, <4>2, <4>3 DEF Covered
    <3>7. WriteInv' /\ Unmounted'
      BY <2>1, <2>2, <2>3 DEF WriteInv, Unmounted, BootSteps
    <3>8. QED BY <3>4, <3>5, <3>6, <3>7 DEF Safe
  <2>4. CASE ~o.ok
    <3>1. \A s \in Slots : table[s] = NoEntry /\ ledger[s] = Nothing
      BY <1>5 DEF LoadTable, Safe, Unmounted, BootSteps
    <3>2. table' = table /\ ledger' = ledger
      BY <2>1, <2>4
    <3>3. ExtentsDisjoint' /\ KeepsPromises'
      BY <2>2, <3>2 DEF Safe, ExtentsDisjoint, KeepsPromises, Holds
    <3>4. Covered' /\ WriteInv' /\ Unmounted'
      BY <2>1, <2>2, <2>4, <3>1, <3>2 DEF Covered, WriteInv, Unmounted, BootSteps
    <3>5. QED BY <3>3, <3>4 DEF Safe
  <2>5. QED BY <2>3, <2>4
<1>6. QED BY <1>1, <1>2, <1>3, <1>4, <1>5 DEF Startup

\* The entry is pointed at a fresh extent past everything in use.
LEMMA SafeWriteEntry ==
  ASSUME TypeOK, Safe, NEW name \in Names, NEW c \in Contents, WriteEntry(name, c)
  PROVE  Safe'
<1>1. PICK idx \in Slots, lba \in Ends :
        /\ WriteSlot(name, idx)
        /\ fs_next_free_lba(lba)
        /\ table' = [table EXCEPT ![idx] =
              [used |-> TRUE,
               name |-> IF @.used THEN @.name ELSE Trunc[name],
               start |-> lba,
               size |-> Size[c]]]
        /\ op' = [idx |-> idx, start |-> lba, content |-> c, i |-> 0, kept |-> 0]
        /\ ledger' = [ledger EXCEPT ![idx] = Nothing]
  BY DEF WriteEntry
<1>2. /\ diskTable' = diskTable /\ diskLedger' = diskLedger /\ data' = data
      /\ mounted /\ mounted' = mounted
  BY DEF WriteEntry, diskVars, infoVars
<1>3. /\ lba \in Nat /\ FS_DATA_LBA <= lba
      /\ \A s \in Slots : table[s].used => End(table[s]) <= lba
  <2>1. UsedSlots(table) = {s \in Slots : table[s].used}
    BY DEF UsedSlots, TypeOK
  <2>2. lba \in Nat
    BY <2>1, FsAssumption, EndNat DEF Ends, TypeOK
  <2>3. QED BY <1>1, <2>1, <2>2 DEF fs_next_free_lba, Ends
<1>4. Size[c] \in Nat /\ Blocks(Size[c]) \in Nat
  BY FsAssumption, BlocksNat
<1>5. /\ table'[idx].used /\ table'[idx].start = lba /\ table'[idx].size = Size[c]
      /\ \A s \in Slots : s # idx => table'[s] = table[s]
  BY <1>1 DEF TypeOK
<1>6. End(table'[idx]) = lba + Blocks(Size[c])
  BY <1>5 DEF End
<1>7. \A s \in Persisted : diskLedger[s] # Nothing =>
         s \in Slots /\ table[s].used /\ End(diskTable[s]) <= lba
  <2>1. \A s \in Persisted : End(diskTable[s]) \in Nat /\ End(table[s]) \in Nat
    BY EndNat DEF TypeOK, Persisted
  <2>2. QED BY <1>2, <1>3, <2>1 DEF Safe, Covered, Persisted
<1>8. ExtentsDisjoint'
  <2>1. table' \in [Slots -> Entry]
    BY TypeWriteEntry DEF TypeOK
  <2>2. \A s \in Slots : s # idx /\ table[s].used =>
           Apart(table'[s], table'[idx]) /\ Apart(table'[idx], table'[s])
    BY <1>3, <1>5 DEF Apart
  <2>3. Disjoint(table')
    BY <1>5, <2>1, <2>2, DisjointOver DEF Safe, ExtentsDisjoint, TypeOK
  <2>4. QED BY <1>2, <2>3 DEF Safe, ExtentsDisjoint
<1>9. KeepsPromises'
  BY <1>1, <1>2, <1>5 DEF Safe, KeepsPromises, Holds, TypeOK
<1>10. Covered'
  <2>1. \A s \in Persisted : diskLedger[s] # Nothing =>
           table'[s].used /\ End(diskTable[s]) <= End(table'[s])
    <3> SUFFICES ASSUME NEW s \in Persisted, diskLedger[s] # Nothing
                 PROVE  table'[s].used /\ End(diskTable[s]) <= End(table'[s])
      OBVIOUS
    <3>1. CASE s = idx
      <4>1. End(diskTable[s]) \in Nat
        BY EndNat DEF TypeOK
      <4>2. QED BY <1>3, <1>4, <1>5, <1>6, <1>7, <3>1, <4>1
    <3>2. CASE s # idx
      BY <1>2, <1>5, <1>7, <3>2 DEF Safe, Covered
    <3>3. QED BY <3>1, <3>2
  <2>2. QED BY <1>2, <2>1 DEF Covered
<1>11. WriteInv'
  <2>1. /\ op'.idx = idx /\ op'.start = lba /\ op'.content = c /\ op'.i = 0 /\ op'.kept = 0
    BY <1>1
  <2>2. ledger'[idx] = Nothing
    BY <1>1 DEF TypeOK
  <2>3. \A s \in UsedSlots(table') : s # idx => End(table'[s]) <= lba
    <3>1. UsedSlots(table') = {s \in Slots : table'[s].used}
      BY <1>1 DEF UsedSlots, TypeOK
    <3>2. QED BY <1>3, <1>5, <3>1
  <2>4. /\ pc' = "data" => 0 < Blocks(Size[c])
        /\ pc' = "store" => 0 = Blocks(Size[c])
    BY <1>4 DEF WriteEntry
  <2>5. 0 .. op'.i - 1 = {}
    BY <2>1
  <2>6. QED
    BY <1>2, <1>3, <1>5, <1>7, <2>1, <2>2, <2>3, <2>4, <2>5 DEF WriteInv
<1>12. Unmounted'
  <2>1. pc' \in {"data", "store"}
    BY DEF WriteEntry
  <2>2. QED BY <1>2, <2>1 DEF Unmounted, BootSteps
<1>13. QED BY <1>8, <1>9, <1>10, <1>11, <1>12 DEF Safe

\* A block goes to a sector past every promised extent.
LEMMA SafeWriteBlock ==
  ASSUME TypeOK, Safe, WriteBlock
  PROVE  Safe'
<1> DEFINE lba == op.start + op.i
<1>1. PICK o \in ata_write_sectors(lba) :
        /\ data' = IF o.stored THEN [data EXCEPT ![lba] = <<op.content, op.i>>] ELSE data
        /\ IF o.ok
           THEN /\ pc' = IF op.i + 1 = Blocks(Size[op.content]) THEN "store" ELSE "data"
                /\ op' = [op EXCEPT !.i = @ + 1, !.kept = IF o.stored THEN @ + 1 ELSE @]
                /\ UNCHANGED reply
           ELSE /\ pc' = "idle"
                /\ op' = NoOp
                /\ reply' = Reply("write", FALSE)
  BY DEF WriteBlock
<1>2. /\ table' = table /\ ledger' = ledger /\ mounted' = mounted
      /\ diskTable' = diskTable /\ diskLedger' = diskLedger /\ pc = "data"
  BY DEF WriteBlock, infoVars, ledgers
<1>3. /\ op \in Writing /\ op.idx \in Slots /\ op.start \in Nat /\ op.i \in Nat
      /\ op.kept \in Nat /\ op.content \in Contents
  BY <1>2 DEF TypeOK, Writing
<1>4. /\ mounted /\ table[op.idx].used /\ ledger[op.idx] = Nothing
      /\ table[op.idx].start = op.start /\ table[op.idx].size = Size[op.content]
      /\ FS_DATA_LBA <= op.start
      /\ \A s \in UsedSlots(table) : s # op.idx => End(table[s]) <= op.start
      /\ \A s \in Persisted : diskLedger[s] # Nothing => End(diskTable[s]) <= op.start
      /\ op.i < Blocks(Size[op.content])
      /\ op.kept <= op.i
      /\ op.kept = op.i => \A j \in 0 .. op.i - 1 :
            op.start + j \in DataLbas /\ data[op.start + j] = <<op.content, j>>
  BY <1>2 DEF Safe, WriteInv
<1>5. o.stored => lba \in DataLbas
  BY <1>3, <1>4, WriteOutcomes, AtaAssumption, FsAssumption DEF TypeOK, DataLbas
<1>6. \A l \in DataLbas : l # lba => data'[l] = data[l]
  BY <1>1 DEF TypeOK
<1>7. ASSUME NEW e \in Entry, NEW p, Holds(e, p), End(e) <= op.start
      PROVE  Holds(e, p)'
  <2>1. \A i \in 0 .. Blocks(e.size) - 1 : e.start + i # lba
    BY <1>3, <1>7, BlocksNat DEF End, Entry
  <2>2. QED BY <1>6, <1>7, <2>1 DEF Holds
<1>8. KeepsPromises'
  <2>1. \A s \in Persisted : diskLedger[s] # Nothing => Holds(diskTable[s], diskLedger[s])'
    BY <1>2, <1>4, <1>7 DEF Safe, KeepsPromises, TypeOK
  <2>2. \A s \in Slots : ledger[s] # Nothing => Holds(table[s], ledger[s])'
    <3> SUFFICES ASSUME NEW s \in Slots, ledger[s] # Nothing
                 PROVE  Holds(table[s], ledger[s])'
      OBVIOUS
    <3>1. s # op.idx /\ Holds(table[s], ledger[s])
      BY <1>4 DEF Safe, KeepsPromises
    <3>2. s \in UsedSlots(table)
      BY <3>1 DEF Holds, UsedSlots, TypeOK
    <3>3. Holds(table[s], ledger[s])'
      BY <1>2, <1>4, <1>7, <3>1, <3>2 DEF TypeOK
    <3>4. QED BY <3>3
  <2>3. QED BY <1>2, <2>1, <2>2 DEF KeepsPromises
<1>9. ExtentsDisjoint' /\ Covered'
  BY <1>2 DEF Safe, ExtentsDisjoint, Covered
<1>10. Unmounted'
  BY <1>2, <1>4, <1>1 DEF Safe, Unmounted, BootSteps
<1>11. WriteInv'
  <2>1. CASE ~o.ok
    BY <1>1, <2>1 DEF WriteInv
  <2>2. CASE o.ok
    <3>1. /\ op'.idx = op.idx /\ op'.start = op.start /\ op'.content = op.content
          /\ op'.i = op.i + 1
          /\ op'.kept = IF o.stored THEN op.kept + 1 ELSE op.kept
      BY <1>1, <1>3, <2>2 DEF Writing
    <3>2. /\ pc' = "data" => op'.i < Blocks(Size[op.content])
          /\ pc' = "store" => op'.i = Blocks(Size[op.content])
      BY <1>1, <1>3, <1>4, <2>2, <3>1, BlocksNat, FsAssumption
    <3>3. op'.kept = op'.i => o.stored /\ op.kept = op.i
      BY <1>3, <1>4, <3>1
    <3>4. op'.kept = op'.i => \A j \in 0 .. op'.i - 1 :
              op.start + j \in DataLbas /\ data'[op.start + j] = <<op.content, j>>
      <4> SUFFICES ASSUME op'.kept = op'.i, NEW j \in 0 .. op'.i - 1
                   PROVE  op.start + j \in DataLbas /\ data'[op.start + j] = <<op.content, j>>
        OBVIOUS
      <4>1. CASE j = op.i
        BY <1>1, <1>5, <3>3, <4>1 DEF TypeOK
      <4>2. CASE j # op.i
        <5>1. j \in 0 .. op.i - 1 /\ op.start + j # lba
          BY <1>3, <3>1, <4>2
        <5>2. QED BY <1>4, <1>6, <3>3, <5>1
      <4>3. QED BY <4>1, <4>2
    <3>5. op'.kept <= op'.i
      BY <1>3, <1>4, <3>1
    <3>6. QED
      BY <1>2, <1>4, <3>1, <3>2, <3>4, <3>5 DEF WriteInv
  <2>3. QED BY <2>1, <2>2
<1>12. QED BY <1>8, <1>9, <1>10, <1>11 DEF Safe

\* The table reaches the disk, or does not.
LEMMA SafeWriteStore ==
  ASSUME TypeOK, Safe, WriteStore
  PROVE  Safe'
<1>1. PICK o \in ata_write_sectors(FS_TABLE_LBA) :
        /\ ledger' = IF o.ok /\ op.kept = op.i
                     THEN [ledger EXCEPT ![op.idx] =
                            [name |-> table[op.idx].name, content |-> op.content]]
                     ELSE ledger
        /\ StoreTable(o, table, ledger')
  BY DEF WriteStore
<1>2. /\ table' = table /\ data' = data /\ mounted' = mounted
      /\ pc = "store" /\ pc' = "idle"
  BY DEF WriteStore
<1>3. op \in Writing /\ op.idx \in Slots
  BY <1>2 DEF TypeOK, Writing
<1>4. \A s \in Slots : ledger'[s] # Nothing => Holds(table[s], ledger'[s])
  <2> SUFFICES ASSUME NEW s \in Slots, ledger'[s] # Nothing
               PROVE  Holds(table[s], ledger'[s])
    OBVIOUS
  <2>1. CASE ledger'[s] = ledger[s]
    BY <2>1 DEF Safe, KeepsPromises
  <2>2. CASE ledger'[s] # ledger[s]
    <3>1. /\ s = op.idx /\ op.kept = op.i
          /\ ledger'[s] = [name |-> table[s].name, content |-> op.content]
      BY <1>1, <1>3, <2>2 DEF TypeOK
    <3>2. /\ table[s].used /\ table[s].start = op.start
          /\ table[s].size = Size[op.content] /\ op.i = Blocks(Size[op.content])
          /\ \A j \in 0 .. op.i - 1 :
                op.start + j \in DataLbas /\ data[op.start + j] = <<op.content, j>>
      BY <1>2, <3>1 DEF Safe, WriteInv
    <3>3. QED BY <3>1, <3>2 DEF Holds
  <2>3. QED BY <2>1, <2>2
<1>5. Persisted \subseteq Slots
  BY DEF Persisted
<1>6. KeepsPromises'
  <2>1. (\A s \in Slots : ledger[s] # Nothing => Holds(table[s], ledger[s]))'
    BY <1>2, <1>4 DEF Holds
  <2>2. (\A s \in Persisted : diskLedger[s] # Nothing => Holds(diskTable[s], diskLedger[s]))'
    <3>1. CASE o.stored
      <4>1. \A s \in Persisted : diskTable'[s] = table'[s] /\ diskLedger'[s] = ledger'[s]
        BY <1>1, <1>2, <3>1 DEF StoreTable
      <4>2. QED BY <1>5, <2>1, <4>1
    <3>2. CASE ~o.stored
      BY <1>1, <1>2, <3>2 DEF StoreTable, Holds, Safe, KeepsPromises
    <3>3. QED BY <3>1, <3>2
  <2>3. QED BY <2>1, <2>2 DEF KeepsPromises
<1>7. ExtentsDisjoint'
  <2>1. Disjoint(table) /\ Disjoint(diskTable)
    BY DEF Safe, ExtentsDisjoint
  <2>2. o.stored => Disjoint(diskTable')
    <3> SUFFICES ASSUME o.stored PROVE Disjoint(diskTable')
      OBVIOUS
    <3>1. diskTable' = [s \in Persisted |-> table[s]]
      BY <1>1 DEF StoreTable
    <3>2. diskTable' \in [Persisted -> Entry]
      BY <1>5, <3>1 DEF TypeOK
    <3>3. QED BY <1>5, <2>1, <3>1, <3>2, DisjointOver DEF TypeOK
  <2>3. ~o.stored => diskTable' = diskTable
    BY <1>1 DEF StoreTable
  <2>4. QED BY <1>2, <2>1, <2>2, <2>3 DEF ExtentsDisjoint
<1>8. Covered'
  <2>1. CASE o.stored
    <3>1. \A s \in Persisted : diskTable'[s] = table[s] /\ diskLedger'[s] = ledger'[s]
      BY <1>1, <2>1 DEF StoreTable
    <3>2. \A s \in Persisted : ledger'[s] # Nothing => table[s].used
      BY <1>4, <1>5 DEF Holds
    <3>3. \A s \in Persisted : End(table[s]) <= End(table[s])
      BY <1>5, EndNat DEF TypeOK
    <3>4. QED BY <1>2, <3>1, <3>2, <3>3 DEF Covered
  <2>2. CASE ~o.stored
    BY <1>1, <1>2, <2>2 DEF StoreTable, Safe, Covered
  <2>3. QED BY <2>1, <2>2
<1>9. WriteInv' /\ Unmounted'
  BY <1>2 DEF Safe, WriteInv, Unmounted, BootSteps
<1>10. QED BY <1>6, <1>7, <1>8, <1>9 DEF Safe

\* The entry is cleared in memory, then on disk or not at all.
LEMMA SafeDeleteFile ==
  ASSUME TypeOK, Safe, NEW name \in Names, DeleteFile(name)
  PROVE  Safe'
<1>1. PICK idx \in Slots, o \in ata_write_sectors(FS_TABLE_LBA) :
        /\ fs_find_entry(name, idx)
        /\ table' = [table EXCEPT ![idx] = NoEntry]
        /\ ledger' = [ledger EXCEPT ![idx] = Nothing]
        /\ IF o.stored
           THEN StoreTable(o, table', ledger')
           ELSE /\ diskLedger' = [s \in Persisted |->
                                    IF s = idx THEN Nothing ELSE diskLedger[s]]
                /\ UNCHANGED diskTable
  BY DEF DeleteFile
<1>2. data' = data /\ mounted' = mounted /\ pc = "idle" /\ pc' = "idle"
  BY DEF DeleteFile
<1>3. /\ table'[idx] = NoEntry /\ ledger'[idx] = Nothing
      /\ \A s \in Slots : s # idx => table'[s] = table[s] /\ ledger'[s] = ledger[s]
  BY <1>1 DEF TypeOK
<1>4. Persisted \subseteq Slots
  BY DEF Persisted
<1>5. mounted
  BY <1>1 DEF fs_find_entry, First, Matching, Safe, Unmounted, NoEntry
<1>6. \A s \in Slots : ledger'[s] # Nothing => Holds(table'[s], ledger'[s])
  BY <1>3 DEF Safe, KeepsPromises
<1>7. KeepsPromises'
  <2>1. (\A s \in Slots : ledger[s] # Nothing => Holds(table[s], ledger[s]))'
    BY <1>2, <1>6 DEF Holds
  <2>2. (\A s \in Persisted : diskLedger[s] # Nothing => Holds(diskTable[s], diskLedger[s]))'
    <3>1. CASE o.stored
      BY <1>1, <1>4, <2>1, <3>1 DEF StoreTable
    <3>2. CASE ~o.stored
      BY <1>1, <1>2, <3>2 DEF Holds, Safe, KeepsPromises
    <3>3. QED BY <3>1, <3>2
  <2>3. QED BY <2>1, <2>2 DEF KeepsPromises
<1>8. ExtentsDisjoint'
  <2>1. table' \in [Slots -> Entry] /\ Disjoint(table) /\ Disjoint(diskTable)
    BY <1>1, EmptyTypes DEF TypeOK, Safe, ExtentsDisjoint
  <2>2. Disjoint(table')
    BY <1>3, <2>1, DisjointOver DEF TypeOK, NoEntry
  <2>3. o.stored => Disjoint(diskTable')
    <3> SUFFICES ASSUME o.stored PROVE Disjoint(diskTable')
      OBVIOUS
    <3>1. diskTable' = [s \in Persisted |-> table'[s]]
      BY <1>1 DEF StoreTable
    <3>2. diskTable' \in [Persisted -> Entry]
      BY <1>4, <2>1, <3>1
    <3>3. QED BY <1>4, <2>1, <2>2, <3>1, <3>2, DisjointOver
  <2>4. ~o.stored => diskTable' = diskTable
    BY <1>1
  <2>5. QED BY <2>1, <2>2, <2>3, <2>4 DEF ExtentsDisjoint
<1>9. Covered'
  <2>1. CASE o.stored
    <3>1. \A s \in Persisted : diskTable'[s] = table'[s] /\ diskLedger'[s] = ledger'[s]
      BY <1>1, <2>1 DEF StoreTable
    <3>2. \A s \in Persisted : ledger'[s] # Nothing => table'[s].used
      BY <1>4, <1>6 DEF Holds
    <3>3. \A s \in Persisted : End(table'[s]) <= End(table'[s])
      BY <1>1, <1>4, EmptyTypes, EndNat DEF TypeOK
    <3>4. QED BY <3>1, <3>2, <3>3 DEF Covered
  <2>2. CASE ~o.stored
    <3>1. \A s \in Persisted : diskLedger'[s] # Nothing =>
             s # idx /\ diskLedger[s] # Nothing /\ table'[s] = table[s]
      BY <1>1, <1>3, <1>4, <2>2
    <3>2. diskTable' = diskTable
      BY <1>1, <2>2
    <3>3. QED BY <1>5, <3>1, <3>2 DEF Safe, Covered
  <2>3. QED BY <2>1, <2>2
<1>10. WriteInv' /\ Unmounted'
  BY <1>2, <1>5 DEF WriteInv, Unmounted, BootSteps
<1>11. QED BY <1>7, <1>8, <1>9, <1>10 DEF Safe

\* Every call that the shell may start keeps Safe.
LEMMA SafeCall == TypeOK /\ Safe /\ Call => Safe'
<1> SUFFICES ASSUME TypeOK, Safe, Call PROVE Safe'
  OBVIOUS
<1>1. ASSUME NEW name \in Names, NEW c \in Contents, WriteRefused(name, c) PROVE Safe'
  BY <1>1, SafeUnchanged DEF WriteRefused, diskVars, infoVars
<1>2. ASSUME NEW name \in Names, DeleteRefused(name) PROVE Safe'
  BY <1>2, SafeUnchanged DEF DeleteRefused, diskVars, infoVars
<1>3. ASSUME NEW name \in Names, NEW b \in Buffers, ReadRefused(name, b) PROVE Safe'
  BY <1>3, SafeUnchanged DEF ReadRefused, diskVars, infoVars
<1>4. ASSUME NEW name \in Names, NEW b \in Buffers, ReadFile(name, b) PROVE Safe'
  BY <1>4, SafeUnchanged DEF ReadFile, diskVars, infoVars
<1>5. QED
  BY <1>1, <1>2, <1>3, <1>4, SafeWriteEntry, SafeDeleteFile DEF Call

\* A blank disk promises nothing, so Safe holds of it.
LEMMA SafeInit == Init => Safe
<1> SUFFICES ASSUME Init PROVE Safe
  OBVIOUS
<1>1. ExtentsDisjoint
  BY EmptyDisjoint DEF Init, ExtentsDisjoint
<1>2. KeepsPromises
  BY DEF Init, KeepsPromises
<1>3. Covered /\ WriteInv /\ Unmounted
  BY DEF Init, Covered, WriteInv, Unmounted
<1>4. QED BY <1>1, <1>2, <1>3 DEF Safe

\* Every step keeps Safe: calls, their transfers, booting, and power losses.
LEMMA SafeStep == TypeOK /\ Safe /\ [Next]_vars => Safe'
<1> SUFFICES ASSUME TypeOK, Safe, [Next]_vars PROVE Safe'
  OBVIOUS
<1>1. CASE Startup
  BY <1>1, SafeStartup
<1>2. CASE Continue
  BY <1>2, SafeWriteBlock, SafeWriteStore DEF Continue
<1>3. CASE Call
  BY <1>3, SafeCall
<1>4. CASE Crash
  <2>1. pc' \notin {"data", "store"}
    BY <1>4 DEF Crash
  <2>2. QED BY <1>4, <2>1, SafeCleared DEF Crash
<1>5. CASE UNCHANGED vars
  BY <1>5, SafeUnchanged DEF vars, diskVars, infoVars, ledgers
<1>6. QED BY <1>1, <1>2, <1>3, <1>4, <1>5 DEF Next

\* The inductive invariant of the filesystem holds for every instance.
THEOREM FsInvariant == Spec => []FsInv
<1>1. Init => TypeOK /\ Safe
  BY TypeInit, SafeInit
<1>2. TypeOK /\ Safe /\ [Next]_vars => (TypeOK /\ Safe)'
  BY TypeStep, SafeStep
<1>3. TypeOK /\ Safe => FsInv
  BY DEF Safe, FsInv
<1>4. QED BY <1>1, <1>2, <1>3, PTL DEF Spec

\* No two files ever share a sector, in memory or on disk, whatever the drive
\* does and wherever power is lost.
THEOREM FilesNeverOverlap == Spec => []ExtentsDisjoint
<1>1. FsInv => ExtentsDisjoint
  BY DEF FsInv
<1>2. QED BY <1>1, FsInvariant, PTL

\* A file whose write was acknowledged stays whole until it is itself rewritten,
\* deleted or formatted away.
THEOREM PromisesKept == Spec => []KeepsPromises
<1>1. FsInv => KeepsPromises
  BY DEF FsInv
<1>2. QED BY <1>1, FsInvariant, PTL

\* fs_delete_file needs no test of fs_info.mounted.
THEOREM UnmountedTableEmpty == Spec => []UnmountedIsEmpty
<1>1. FsInv => UnmountedIsEmpty
  BY DEF FsInv, Unmounted, UnmountedIsEmpty, UsedSlots, TypeOK, NoEntry
<1>2. QED BY <1>1, FsInvariant, PTL

-----------------------------------------------------------------------------
(* What a step may never do.                                                *)

\* Only WriteBlock writes data sectors, and it writes past every promise.
LEMMA OnlyFreshSectors ==
  ASSUME TypeOK, Safe, [Next]_vars, NEW l \in DataLbas, data'[l] # data[l],
         NEW s \in Persisted, diskLedger[s] # Nothing
  PROVE  l \notin Extent(diskTable[s])
<1>1. WriteBlock
  BY DEF Next, vars, Startup, Continue, Call, Crash, Boot, LoadSuperblock, FormatSuperblock,
         FormatTable, LoadTable, WriteStore, WriteRefused, WriteEntry, DeleteRefused,
         DeleteFile, ReadRefused, ReadFile, diskVars
<1>2. l = op.start + op.i
  BY <1>1 DEF WriteBlock, TypeOK
<1>3. op.start \in Nat /\ op.i \in Nat
  BY <1>1 DEF WriteBlock, TypeOK, Writing
<1>4. End(diskTable[s]) <= op.start
  BY <1>1 DEF WriteBlock, Safe, WriteInv
<1>5. End(diskTable[s]) \in Nat
  BY EndNat DEF TypeOK
<1>6. QED BY <1>2, <1>3, <1>4, <1>5 DEF Extent

\* The sectors of an acknowledged file are not written again while the table on
\* disk points at them.
THEOREM WritesNeverInPlace == Spec => NeverInPlace
<1>1. TypeOK /\ Safe /\ [Next]_vars =>
        [\A l \in DataLbas : data'[l] # data[l] =>
           \A s \in Persisted : diskLedger[s] # Nothing => l \notin Extent(diskTable[s])]_vars
  BY OnlyFreshSectors
<1>2. FsInv => TypeOK /\ Safe
  BY DEF FsInv, Safe
<1>3. QED BY <1>1, <1>2, FsInvariant, PTL DEF Spec, NeverInPlace

-----------------------------------------------------------------------------
(* No name is in the table twice.                                           *)

\* Uniqueness of names, with the table's domain spelled out.
LEMMA UniqueOver ==
  ASSUME NEW S, NEW t \in [S -> Entry]
  PROVE  Unique(t) <=> \A s, u \in S :
            t[s].used /\ t[u].used /\ t[s].name = t[u].name => s = u
  BY DEF Unique, UsedSlots

\* A table without used entries has no name twice.
LEMMA EmptyUnique ==
  ASSUME NEW S, NEW t, t = [s \in S |-> NoEntry]
  PROVE  Unique(t)
  BY DEF Unique, UsedSlots, NoEntry

NoTwin == Unique(table) /\ Unique(diskTable)

\* No step of fs.c enters a name that is already in the table.
LEMMA UniqueStep ==
  ASSUME \A n \in Names : Trunc[n] = n, TypeOK, TypeOK', NoTwin, [Next]_vars
  PROVE  NoTwin'
<1>0. Persisted \subseteq Slots
  BY DEF Persisted
<1>t. /\ table \in [Slots -> Entry] /\ table' \in [Slots -> Entry]
      /\ diskTable \in [Persisted -> Entry] /\ diskTable' \in [Persisted -> Entry]
  BY DEF TypeOK
<1>u. /\ \A s, u \in Slots :
            table[s].used /\ table[u].used /\ table[s].name = table[u].name => s = u
      /\ \A s, u \in Persisted :
            diskTable[s].used /\ diskTable[u].used /\ diskTable[s].name = diskTable[u].name
              => s = u
  BY <1>t, UniqueOver DEF NoTwin
<1>n. ASSUME \A s, u \in Slots :
               table'[s].used /\ table'[u].used /\ table'[s].name = table'[u].name => s = u
      PROVE  Unique(table')
  BY <1>n, <1>t, UniqueOver
<1>1. ASSUME UNCHANGED <<table, diskTable>> PROVE NoTwin'
  BY <1>1 DEF NoTwin
<1>2. ASSUME table' = [s \in Slots |-> NoEntry], UNCHANGED diskTable PROVE NoTwin'
  BY <1>2, EmptyUnique DEF NoTwin
<1>3. ASSUME diskTable' = [s \in Persisted |-> table'[s]], Unique(table') PROVE NoTwin'
  BY <1>0, <1>3, <1>t, UniqueOver DEF NoTwin
<1>4. CASE Boot \/ Crash \/ FormatSuperblock
  BY <1>2, <1>4 DEF Boot, Crash, FormatSuperblock, ClearMemory, diskVars
<1>5. CASE LoadSuperblock \/ WriteBlock \/ UNCHANGED vars
  BY <1>1, <1>5 DEF LoadSuperblock, WriteBlock, vars, diskVars
<1>6. CASE FormatTable
  <2>1. table' = table /\ \/ diskTable' = diskTable
                          \/ diskTable' = [s \in Persisted |-> table'[s]]
    BY <1>6 DEF FormatTable
  <2>2. QED BY <1>1, <1>3, <2>1 DEF NoTwin
<1>7. CASE LoadTable
  <2>1. /\ diskTable' = diskTable
        /\ \/ table' = table
           \/ table' = [s \in Slots |-> IF s \in Persisted THEN diskTable[s] ELSE NoEntry]
    BY <1>7 DEF LoadTable, diskVars
  <2>2. ASSUME table' = [s \in Slots |-> IF s \in Persisted THEN diskTable[s] ELSE NoEntry]
        PROVE  Unique(table')
    BY <1>n, <1>u, <2>2 DEF NoEntry
  <2>3. QED BY <1>1, <2>1, <2>2 DEF NoTwin
<1>8. CASE WriteStore
  <2>1. table' = table /\ \/ diskTable' = diskTable
                          \/ diskTable' = [s \in Persisted |-> table'[s]]
    BY <1>8 DEF WriteStore, StoreTable
  <2>2. QED BY <1>1, <1>3, <2>1 DEF NoTwin
<1>9. ASSUME NEW name \in Names, NEW c \in Contents, WriteEntry(name, c) PROVE NoTwin'
  <2>1. PICK idx \in Slots : \E lba \in Ends :
          /\ WriteSlot(name, idx)
          /\ table' = [table EXCEPT ![idx] =
                [used |-> TRUE,
                 name |-> IF @.used THEN @.name ELSE Trunc[name],
                 start |-> lba,
                 size |-> Size[c]]]
    BY <1>9 DEF WriteEntry
  <2>2. /\ table'[idx].name = IF table[idx].used THEN table[idx].name ELSE name
        /\ \A s \in Slots : s # idx => table'[s] = table[s]
    BY <2>1 DEF TypeOK
  <2>3. table[idx].used \/ \A s \in Slots : table[s].used => table[s].name # name
    BY <2>1 DEF WriteSlot, fs_find_entry, First, Matching
  <2>4. Unique(table')
    BY <1>n, <1>u, <2>2, <2>3
  <2>5. QED BY <1>9, <2>4 DEF WriteEntry, diskVars, NoTwin
<1>10. ASSUME NEW name \in Names, DeleteFile(name) PROVE NoTwin'
  <2>1. PICK idx \in Slots : table' = [table EXCEPT ![idx] = NoEntry]
    BY <1>10 DEF DeleteFile
  <2>2. \/ diskTable' = diskTable
        \/ diskTable' = [s \in Persisted |-> table'[s]]
    BY <1>10 DEF DeleteFile, StoreTable
  <2>3. Unique(table')
    BY <1>n, <1>t, <1>u, <2>1 DEF NoEntry
  <2>4. QED BY <1>3, <2>2, <2>3 DEF NoTwin
<1>11. ASSUME NEW name \in Names, NEW b \in Buffers,
              ReadFile(name, b) \/ ReadRefused(name, b)
       PROVE  NoTwin'
  BY <1>1, <1>11 DEF ReadFile, ReadRefused, diskVars
<1>12. ASSUME NEW name \in Names, NEW c \in Contents, WriteRefused(name, c) PROVE NoTwin'
  BY <1>1, <1>12 DEF WriteRefused, diskVars
<1>13. ASSUME NEW name \in Names, DeleteRefused(name) PROVE NoTwin'
  BY <1>1, <1>13 DEF DeleteRefused, diskVars
<1>14. CASE Call
  BY <1>9, <1>10, <1>11, <1>12, <1>13, <1>14 DEF Call
<1>15. QED
  BY <1>4, <1>5, <1>6, <1>7, <1>8, <1>14 DEF Next, Startup, Continue

\* With names that fs_copy_name does not cut, no name is ever in the table twice,
\* in memory or on disk, so the slot a lookup finds is the file that was written.
THEOREM NamesUnique == Spec => []UniqueNames
<1>1. Init => UniqueNames
  BY EmptyUnique DEF Init, UniqueNames
<1>2. TypeOK /\ TypeOK' /\ UniqueNames /\ [Next]_vars => UniqueNames'
  BY UniqueStep DEF UniqueNames, NoTwin
<1>3. QED BY <1>1, <1>2, FsTypeCorrect, PTL DEF Spec

=============================================================================
