CONSTANTS
    Threads = {t1, t2}
    MaxSends = 2
    MsgLen = 2
    SendRoom = 1
    highWaterMark_ = 3
    KeepsReferences = TRUE
SPECIFICATION Spec
INVARIANT
    RemovedForGood
CHECK_DEADLOCK FALSE
