\* One transient timeout, on a volume that was formatted.
SPECIFICATION Spec
CONSTANTS
    TotalSectors = 6
    Faults = {"timeout"}
    OverrunWrites = {"reject"}
    MaxFaults = 1
    FS_FILES_MAX = 2
    TableSlots = 2
    FS_TABLE_LBA = 1
    FS_DATA_LBA = 2
    FS_BLOCK_SIZE = 2
    MaxBlocks = 3
    CountWidth = 3
    Names = {a, b}
    Trunc <- MCTrunc
    NoName = none
    Contents = {"three"}
    Size <- MCSize
    Buffers = {4}
    LbaBound = 7
    MaxCrashes = 1
INVARIANT
    FormatsOnlyForeign
