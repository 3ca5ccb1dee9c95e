CONSTANTS
    NBelow = 3
    MaxSize = 2
    Block = {ZeroBlk, Blk}
    Zero = ZeroBlk
    Err = Err
    WtInodes = 2
    NCache = 2
    CanFail = FALSE
    PartSizes <- MCPartSizes
    NBlocks = 3
    Pass = {Pass1, Pass2}
    Salts = {Salt}
    Tails = {Tail1, Tail2}
    NoKey = NoKey
SPECIFICATION MCSpec
INVARIANTS
    WtWrittenThrough
    MirrorsRight
    StackRight
    UnixRight
PROPERTIES
    CipherRight
