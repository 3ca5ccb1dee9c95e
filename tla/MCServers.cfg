CONSTANTS
    Super = Super
    User = User
    NameA = NameA
    NameD = NameD
    Self = Self
    Parent = Parent
    None = None
    Uid <- MCUid
    \* StoragePath
    Blk = {1, 2, 3}
    Val = {0, 3}
    NCache = 2
    Client = {User}
    MaxCalls = 3
    MaxAccesses = 2
    FailingOps = {"read"}
    MaxFaults = 1
    MaxStops = 1
    \* RamFile
    Users = {0, 1}
    MaxFiles = 3
    MaxSize = 2
    MaxGap = 0
    NBytes = 1
    RamModes <- MCRamModes
    MaxOps = 4
    MaxTime = 1
    \* Bfs
    NFcbs = 2
    BS = 3
    FcbSize = 2
    MaxBytes = 4
    Byte = {1}
    FsModes <- MCOwnerOnly
    Sizes = {0, 2}
    Lengths = {2}
    FsClient = {Super, User}
    FsCalls = 3
    MaxFails = 1
    MaxWrites = 1
    ScrapFcbs <- MCJunk
    \* DirSvr
    NFiles = 4
    Opened <- MCFiles
    Made <- MCDirs
    Removed <- MCRemoved
    DirClient = {Super, User}
    DirMode = {"OWNER_READ", "OWNER_WRITE", "OTHER_READ", "OTHER_WRITE"}
    DirCalls = 5
SPECIFICATION MCSpec
CHECK_DEADLOCK FALSE
INVARIANTS
    BfsRight
    StorageRight
    StreamsRight
PROPERTIES
    RamFilesRight
    DirectoriesRight
