SPECIFICATION FairSpec
CONSTANTS
    Threads = {th1, th2, th3}
    Tasks = {t1, t2}
    LockingTasks = {t1}
    Senders = {s1}
    Events = {"event"}
    Delays = {1}
    NULL = NULL
INVARIANTS
    TasksPlaced
    LockingCorrect
PROPERTIES
    ImplementsTaskService
    SignalledRuns
