\* Two slots and three processes, one after the other: slots, frames and alarms
\* are reused.
SPECIFICATION Spec
CONSTANTS
    NSlots = 2
    MaxPid = 3
    MaxMsgs <- OneOfEach
    MaxDelay = 1
    Horizon = 1
    Uids = {0, 1}
    Frames = {f1}
INVARIANTS TablesConsistent CallsRight TimeoutValid
