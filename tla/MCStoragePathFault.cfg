CONSTANTS
    Blk = {1, 2, 3}
    Val = {0, 3}
    NCache = 2
    Client = {c1}
    MaxCalls = 3
    MaxAccesses = 2
    FailingOps = {"write"}
    MaxFaults = 1
    MaxStops = 1
    None = None
SPECIFICATION Spec
CHECK_DEADLOCK FALSE
INVARIANTS SyncIsDurable
