CONSTANTS
    Threads = {t1}
    MaxSends = 2
    MsgLen = 2
    SendRoom = 1
    highWaterMark_ = 3
    KeepsReferences = FALSE
SPECIFICATION Spec
INVARIANT
    NoUseAfterFree
CHECK_DEADLOCK FALSE
