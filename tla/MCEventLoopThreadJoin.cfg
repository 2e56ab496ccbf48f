CONSTANTS
    LoopThread = loop
    Owner = owner
    Threads = {owner, user}
    Tasks = {early, a}
    EarlyTasks = {early}
    NoTask = none
    UsersQuit = FALSE
SPECIFICATION FairSpec
PROPERTY
    DestructorEnds
CHECK_DEADLOCK FALSE
