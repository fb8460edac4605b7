\* The parts under the subsystems: heap, disk self-test, interrupts, mouse, console, paging.
SPECIFICATION MachineSpec
CONSTANTS
    AddressRange = 256
    KernelEnd = 20
    PageSize = 32
    KHEAP_SIZE_BYTES = 64
    KHEAP_ALIGNMENT = 8
    Sizes = {0, 1, 8, 13, 64, 225}
    SizeA = 10
    SizeB = 12
    TotalSectors = 3
    Faults = {"reject", "timeout", "flushErr", "flushSlow"}
    OverrunWrites = {"reject"}
    MaxFaults = 3
    ScratchLba = 2
    User = user
    Pattern = pattern
    Unset = unset
    MaxReboots = 2
    Lines = {0, 1, 4, 12, 14}
    Main = Main
    Deltas <- MouseDeltas
    MaxPackets = 3
    VGA_ROWS = 3
    VGA_COLS = 4
    EchoPrefix = 5
    PAGE_ENTRIES = 4
    SPANS = 2
    PAGE_SIZE = 2
    CodePage = 2
    StackPage = 4
    OtherPage = 0
    SCHED_MAX_TASKS = 4
    PROCESS_MAX = 4
    TimeSlice = 2
    TickRange = 2
    MaxTicks = 2
INVARIANTS BlocksDisjoint ContentsKept PassedLeavesNoTrace NothingLeftInService ShownIsOnTrail NextCellOnScreen WalkFindsWhatWasAsked
PROPERTIES InputServed EveryTaskRuns CallsReturn
