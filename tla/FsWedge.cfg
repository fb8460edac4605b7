\* A drive that works, filled to its end.
SPECIFICATION Spec
CONSTANTS
    TotalSectors = 6
    Faults = {}
    OverrunWrites = {"reject"}
    MaxFaults = 0
    FS_FILES_MAX = 2
    TableSlots = 2
    FS_TABLE_LBA = 1
    FS_DATA_LBA = 2
    FS_BLOCK_SIZE = 2
    MaxBlocks = 3
    CountWidth = 3
    Names = {a, b}
    Trunc <- MCTrunc
    NoName = none
    Contents = {"three"}
    Size <- MCSize
    Buffers = {4}
    LbaBound = 8
    MaxCrashes = 1
PROPERTY
    RmfsDeletes
