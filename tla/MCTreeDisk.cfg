CONSTANTS
    NBlocks = 6
    NInodeBlocks = 1
    InodesPerBlock = 2
    RefsPerBlock = 2
    Modulus = 16
    MaxOffset = 2
    Data = {a}
    Zero = Zero
    Garbage = Garbage
    MaxStops = 1
SPECIFICATION Spec
INVARIANT AllAccounted
PROPERTY ImplementsSparseStore
CHECK_DEADLOCK FALSE
