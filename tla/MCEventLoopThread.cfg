CONSTANTS
    LoopThread = loop
    Owner = owner
    Threads = {owner, user}
    Tasks = {early, a}
    EarlyTasks = {early}
    NoTask = none
    UsersQuit = TRUE
SPECIFICATION FairSpec
INVARIANTS
    TypeOK
    LoopPointerValid
    NoLoopLeftRunning
PROPERTIES
    StartLoopReturnsLoop
    StartLoopReturns
    QuitThenJoinEnds
CHECK_DEADLOCK FALSE
