CONSTANTS
    Clients = {shell, job}
    Interruptable = {job}
    Letter = x
    MaxRead = 2
    MaxChunk = 2
    MaxTyped = 3
    MaxLines = 3
SPECIFICATION FairSpec
INVARIANTS InOrder OneRequestEach
PROPERTIES ReadersInOrder OthersAnswered
CHECK_DEADLOCK FALSE
