\* Every device fault but a lost write: one of them, besides what the end of the disk
\* rejects, and a power loss. The stored sector is one entry short of the table.
SPECIFICATION Spec
CONSTANTS
    TotalSectors = 5
    Faults = {"reject", "timeout", "flushErr", "flushSlow"}
    OverrunWrites = {"reject"}
    MaxFaults = 1
    FS_FILES_MAX = 3
    TableSlots = 2
    FS_TABLE_LBA = 1
    FS_DATA_LBA = 2
    FS_BLOCK_SIZE = 2
    MaxBlocks = 3
    CountWidth = 3
    Names = {a, b, c}
    Trunc <- MCTrunc
    NoName = none
    Contents = {"odd", "three"}
    Size <- MCSize
    Buffers = {4}
    LbaBound = 6
    MaxCrashes = 1
INVARIANTS
    ExtentsDisjoint
    KeepsPromises
    AckedIsStored
PROPERTIES
    NeverInPlace
    CallsAreStoreSteps
SYMMETRY NameSymmetry
