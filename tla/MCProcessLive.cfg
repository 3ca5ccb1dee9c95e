SPECIFICATION FairSpec
CONSTANTS
    NSlots = 3
    MaxPid = 3
    MaxMsgs <- NoMessages
    MaxDelay = 2
    Horizon = 1
    Uids = {0}
    Frames = {}
PROPERTIES RunnableRuns AlarmsRing ShutdownEnds
