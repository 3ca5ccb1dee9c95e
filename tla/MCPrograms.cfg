CONSTANTS
    NItems = 3
    MaxBoots = 2
    MaxFiles = 1
    FromMkfs = TRUE
    Client1 = Client1
    Client2 = Client2
    NoValue = NoValue
SPECIFICATION MCSpec
CHECK_DEADLOCK FALSE
INVARIANTS
    BootRight
PROPERTIES
    CopiesRight
    ShellRight
    Progress
    EveryCallAnswered
