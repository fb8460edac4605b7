----------------------------- MODULE AtaSelfTest -----------------------------
(***************************************************************************)
(* ata_disk_self_test (shell command `disktest`): save sector 2048, write a *)
(* pattern over it, read it back, and put the saved contents back.  Each    *)
(* transfer is a step that may fail in the ways of module Ata; a reboot may *)
(* come between any two.                                                    *)
(***************************************************************************)
EXTENDS Ata

CONSTANTS
    ScratchLba,     \* 2048
    User,           \* what the sector held before anyone ran the test
    Pattern,        \* what the test writes
    Unset,          \* a local of the test that was not assigned
    MaxReboots      \* bound: reboots in one behaviour

ASSUME SelfTestAssumption ==
    /\ ScratchLba \in Nat
    /\ User # Pattern /\ Unset \notin {User, Pattern}
    /\ MaxReboots \in Nat

VARIABLES
    scratch,        \* the sector
    test_step,      \* the transfer the test is about to make: "read", "pattern", "verify", ...
    original,       \* its local copies
    verify,
    result,         \* what the last test returned
    before,         \* the sector when the last test began
    reboots

locals == <<original, verify>>
diskTestVars == <<ataVars, scratch, test_step, locals, result, before, reboots>>

DiskTestInit ==
    /\ present = TRUE /\ latched = FALSE /\ faults = 0
    /\ scratch = User /\ original = Unset /\ verify = Unset /\ before = User
    /\ test_step = "none"
    /\ result = "none"
    /\ reboots = 0

Finish(r) == test_step' = "none" /\ result' = r

Begin ==
    /\ test_step = "none"
    /\ IF present /\ TotalSectors > ScratchLba
       THEN test_step' = "read" /\ UNCHANGED result
       ELSE Finish("failed")
    /\ original' = Unset /\ verify' = Unset
    /\ before' = scratch
    /\ UNCHANGED <<ataVars, scratch, reboots>>

Read ==
    /\ test_step = "read"
    /\ \E o \in ata_read_sectors(ScratchLba, 1) :
        /\ Transfer(o)
        /\ IF o.ok
           THEN original' = scratch /\ test_step' = "pattern" /\ UNCHANGED result
           ELSE Finish("failed") /\ UNCHANGED original
    /\ UNCHANGED <<scratch, verify, before, reboots>>

Put(o, v) == scratch' = IF o.stored THEN v ELSE scratch

\* A failure here returns at once, without putting the saved contents back.
WritePattern ==
    /\ test_step = "pattern"
    /\ \E o \in ata_write_sectors(ScratchLba) :
        /\ Transfer(o)
        /\ Put(o, Pattern)
        /\ IF o.ok
           THEN test_step' = "verify" /\ UNCHANGED result
           ELSE Finish("failed")
    /\ UNCHANGED <<locals, before, reboots>>

Verify ==
    /\ test_step = "verify"
    /\ \E o \in ata_read_sectors(ScratchLba, 1) :
        /\ Transfer(o)
        /\ verify' = IF o.ok THEN scratch ELSE verify
        /\ test_step' = IF o.ok /\ verify' = Pattern THEN "restore" ELSE "undo"
    /\ UNCHANGED <<scratch, original, result, before, reboots>>

\* After a failed verification the result of the restoring write is ignored.
Undo ==
    /\ test_step = "undo"
    /\ \E o \in ata_write_sectors(ScratchLba) : Transfer(o) /\ Put(o, original)
    /\ Finish("failed")
    /\ UNCHANGED <<locals, before, reboots>>

\* Mutant: the buffer that was read back is written instead of the saved one.
RestoreWrongBuffer ==
    /\ test_step = "restore"
    /\ \E o \in ata_write_sectors(ScratchLba) :
        /\ Transfer(o)
        /\ Put(o, verify)
        /\ Finish(IF o.ok THEN "passed" ELSE "failed")
    /\ UNCHANGED <<locals, before, reboots>>

Restore ==
    /\ test_step = "restore"
    /\ \E o \in ata_write_sectors(ScratchLba) :
        /\ Transfer(o)
        /\ Put(o, original)
        /\ Finish(IF o.ok THEN "passed" ELSE "failed")
    /\ UNCHANGED <<locals, before, reboots>>

Reboot ==
    /\ reboots < MaxReboots
    /\ reboots' = reboots + 1
    /\ ata_init
    /\ test_step' = "none" /\ result' = "none"
    /\ original' = Unset /\ verify' = Unset
    /\ UNCHANGED <<scratch, before>>

DiskTestNext == Begin \/ Read \/ WritePattern \/ Verify \/ Undo \/ Restore \/ Reboot

DiskTestSpec == DiskTestInit /\ [][DiskTestNext]_diskTestVars

-----------------------------------------------------------------------------

\* A test that reports success left the sector as it found it, whatever faults
\* an earlier run met and whatever that run left behind.
PassedLeavesNoTrace == test_step = "none" /\ result = "passed" => scratch = before

=============================================================================
