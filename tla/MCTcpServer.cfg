SPECIFICATION FairSpec
CONSTANTS
    MaxThreads = 2
    MaxFds = 2
    MaxConns = 3
    MaxStarts = 2
INVARIANTS
    TypeOK
    PollersHoldLiveChannels
    EndIsTold
    ServerOutlivesItsUsers
    Balanced
PROPERTIES
    ClosedIsReleased
    PendingIsAccepted
CHECK_DEADLOCK FALSE
