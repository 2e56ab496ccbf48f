CONSTANTS
    LoopThread = loop
    Threads = {t1, t2}
    Tasks = {early, a, b}
    EarlyTasks = {early}
    NoTask = none
SPECIFICATION FairSpec
INVARIANTS
    TypeOK
    NoLostWakeup
    NoLostQuit
PROPERTIES
    ImplementsTaskQueue
    QueuedTasksRun
    EarlyTasksRun
    PollsForever
