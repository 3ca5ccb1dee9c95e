CONSTANTS
    Procs = {1, 2}
    Text = {1}
    Data = {2}
    Bss = {3}
    Stack = 3
    CopyPages = {0, 2}
    NFrames = 3
    TlbSize = 2
    NVals = 1
    MaxOps = 2
    MaxTicks = 1
    MaxSpawns = 2
    MaxKills = 1
    FileMayGo = FALSE
    Objects = {o1, o2, o3}
SPECIFICATION MCSpec
SYMMETRY Symmetry
INVARIANTS
    PagingRight
PROPERTIES
    HeapRight
