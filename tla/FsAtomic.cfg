\* A drive that works and may lose power: one slot outside the stored sector, a
\* content over the size cap, and room to run off the end of the disk.
SPECIFICATION FairSpec
CONSTANTS
    TotalSectors = 5
    Faults = {}
    OverrunWrites = {"reject"}
    MaxFaults = 0
    FS_FILES_MAX = 3
    TableSlots = 2
    FS_TABLE_LBA = 1
    FS_DATA_LBA = 2
    FS_BLOCK_SIZE = 2
    MaxBlocks = 3
    CountWidth = 3
    Names = {"a", "b", "c"}
    Trunc <- MCTrunc
    NoName = none
    Contents = {"odd", "three", "huge"}
    Size <- MCSize
    Buffers = {2, 4}
    LbaBound = 6
    MaxCrashes = 1
    Absent = absent
    Corrupt = corrupt
    NoRequest = norequest
INVARIANTS
    InfoFresh
PROPERTIES
    ImplementsAtomicStore
    CallReturns
