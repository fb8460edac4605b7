--------------------------------- MODULE Ata ---------------------------------
(***************************************************************************)
(* The polled ATA driver of drivers/disk/ata.c, seen from its callers: what *)
(* one sector transfer may return, what it leaves on the medium and what it *)
(* leaves in the drive's status register.                                   *)
(*                                                                          *)
(* The driver keeps one bit of state (ata_info.present).  The drive keeps   *)
(* the ERR bit of its status register: a failed command raises it and only  *)
(* the next command clears it.  Since ata_read_sectors and                  *)
(* ata_write_sectors look at that bit BEFORE they issue a command           *)
(* (ata_wait_not_busy), a raised ERR makes every later transfer fail until  *)
(* ata_identify, which issues its command without looking first.            *)
(***************************************************************************)
EXTENDS Integers

CONSTANTS
    TotalSectors,       \* sectors of the medium; the driver never compares an LBA with it
    Faults,             \* how a transfer to a sector of the medium may fail
    OverrunWrites,      \* how the drive reports a write past the end: "reject", "lost"
    MaxFaults           \* bound: device faults in one behaviour

(***************************************************************************)
(* The ways a transfer fails, by where the driver notices:                  *)
(*   reject    ERR before the data phase (ata_wait_drq)                     *)
(*   timeout   BSY or DRQ never came within the poll budget, nothing moved  *)
(*   flushErr  the data was taken, the flush ended with ERR                 *)
(*   flushSlow the data was taken, the flush outlasted the poll budget      *)
(*   lost      the write failed after its data phase, and the flush command *)
(*             that follows at once cleared the ERR bit: reported as success *)
(***************************************************************************)
FaultKinds == {"reject", "timeout", "flushErr", "flushSlow", "lost"}

ASSUME AtaAssumption ==
    /\ TotalSectors \in Nat
    /\ Faults \subseteq FaultKinds
    /\ OverrunWrites \subseteq {"reject", "lost"}
    /\ OverrunWrites # {}
    /\ MaxFaults \in Nat

VARIABLES
    present,    \* ata_info.present
    latched,    \* the ERR bit the drive shows while no command runs
    faults      \* device faults so far

ataVars == <<present, latched, faults>>

AtaTypeOK ==
    /\ present \in BOOLEAN
    /\ latched \in BOOLEAN
    /\ faults \in Nat

AtaOff ==
    /\ present = FALSE
    /\ latched = FALSE
    /\ faults = 0

-----------------------------------------------------------------------------
(***************************************************************************)
(* The outcome of a transfer: the returned value, whether the medium holds  *)
(* the new sector, the ERR bit left behind, and whether the device failed.  *)
(***************************************************************************)
Outcome == [ok : BOOLEAN, stored : BOOLEAN, latch : BOOLEAN, fault : BOOLEAN]

Done == [ok |-> TRUE, stored |-> TRUE, latch |-> FALSE, fault |-> FALSE]
Lost(f) == [ok |-> TRUE, stored |-> FALSE, latch |-> FALSE, fault |-> f]
Rejected(f) == [ok |-> FALSE, stored |-> FALSE, latch |-> TRUE, fault |-> f]
Torn(f) == [ok |-> TRUE, stored |-> FALSE, latch |-> TRUE, fault |-> f]
TimedOut == [ok |-> FALSE, stored |-> FALSE, latch |-> FALSE, fault |-> TRUE]

FlushFailed(latch) ==
    [ok : {FALSE}, stored : BOOLEAN, latch : {latch}, fault : {TRUE}]

\* ata_wait_not_busy and the checks on top of both transfers: no command is issued.
Refused == [ok |-> FALSE, stored |-> FALSE, latch |-> latched, fault |-> FALSE]

Ready == present /\ ~latched

MayFail(kind) == kind \in Faults /\ faults < MaxFaults

ata_write_sectors(lba) ==
    IF ~Ready THEN {Refused}
    ELSE IF lba >= TotalSectors
    THEN {o \in {Rejected(FALSE), Lost(FALSE)} :
            (IF o.ok THEN "lost" ELSE "reject") \in OverrunWrites}
    ELSE {Done}
         \cup (IF MayFail("reject") THEN {Rejected(TRUE)} ELSE {})
         \cup (IF MayFail("timeout") THEN {TimedOut} ELSE {})
         \cup (IF MayFail("flushErr") THEN FlushFailed(TRUE) ELSE {})
         \cup (IF MayFail("flushSlow") THEN FlushFailed(FALSE) ELSE {})
         \cup (IF MayFail("lost") THEN {Lost(TRUE)} ELSE {})

\* For a read, "stored" says that the buffer holds the sectors.  A count of 0
\* is refused before anything is sent to the drive.  DRQ is awaited once, before
\* the first sector: an error in a later one is not noticed (Torn).
ata_read_sectors(lba, count) ==
    IF ~Ready \/ count = 0 THEN {Refused}
    ELSE IF lba >= TotalSectors THEN {Rejected(FALSE)}
    ELSE IF lba + count > TotalSectors THEN {Torn(FALSE)}
    ELSE {Done}
         \cup (IF MayFail("reject") THEN {Rejected(TRUE)} ELSE {})
         \cup (IF MayFail("reject") /\ count > 1 THEN {Torn(TRUE)} ELSE {})
         \cup (IF MayFail("timeout") THEN {TimedOut} ELSE {})

\* What a transfer with outcome o leaves in the driver and the drive.
Transfer(o) ==
    /\ latched' = o.latch
    /\ faults' = IF o.fault THEN faults + 1 ELSE faults
    /\ UNCHANGED present

(***************************************************************************)
(* ata_init: IDENTIFY clears ERR; a drive that does not answer is taken as  *)
(* absent.                                                                  *)
(***************************************************************************)
ata_init ==
    /\ latched' = FALSE
    /\ \/ /\ present' = TRUE
          /\ UNCHANGED faults
       \/ /\ Faults # {} /\ faults < MaxFaults
          /\ present' = FALSE
          /\ faults' = faults + 1

=============================================================================
