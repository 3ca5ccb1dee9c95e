CONSTANTS
    NBlocks = 7
    NInodeBlocks = 1
    InodesPerBlock = 2
    RefsPerBlock = 2
    Modulus = 16
    MaxOffset = 1
    Data = {a}
    Zero = Zero
    Garbage = Garbage
    MaxStops = 1
SPECIFICATION Spec
CHECK_DEADLOCK FALSE
INVARIANT FreeListHoldsFreeBlocks
