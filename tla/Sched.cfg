SPECIFICATION Spec
CONSTANTS
    SCHED_MAX_TASKS = 4
    PROCESS_MAX = 5
    TimeSlice = 2
    TickRange = 64
    MaxTicks = 11
INVARIANTS ProcessesBound NoOrphanTask TurnsAreBounded SnapshotBetween EvenShares
