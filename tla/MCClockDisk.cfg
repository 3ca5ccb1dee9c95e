CONSTANTS
    NInodes = 1
    MaxSize = 3
    NCache = 2
    Block = {z, a}
    Zero = z
    Err = Err
    Growable = FALSE
SPECIFICATION Spec
INVARIANTS TypeOK Coherent WriteBackAccepted
PROPERTY ImplementsBlockStore
