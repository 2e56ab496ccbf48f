CONSTANTS
    Threads = {t1}
    MaxSends = 2
    MsgLen = 2
    SendRoom = 1
    highWaterMark_ = 3
    KeepsReferences = FALSE
SPECIFICATION FairSpec
PROPERTIES
    ShutdownCompletes
    CloseCompletes
    OutputDrains
CHECK_DEADLOCK FALSE
