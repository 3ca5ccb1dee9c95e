SPECIFICATION Spec
CONSTANTS
    NSlots = 3
    MaxPid = 3
    MaxMsgs <- OneRequest
    MaxDelay = 0
    Horizon = 1
    Uids = {0}
    Frames = {}
INVARIANTS TablesConsistent CallsRight RpcFailsOnDeath
PROPERTIES ZombiesStayDead OwnerNotified ShutdownFinal
