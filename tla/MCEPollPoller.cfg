CONSTANTS
    Channels = {c1, c2}
    Fds = {f1, f2}
    kInitEventListSize = 1
SPECIFICATION FairSpec
INVARIANTS
    TypeOK
    RecordsAgree
    EpollCtlSucceeds
    NoEventMissed
PROPERTIES
    NoStarvation
