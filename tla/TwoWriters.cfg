SPECIFICATION Spec
CONSTANTS
    Threads = {th1, th2}
    Tasks = {t1, t2}
    LockingTasks = {t1, t2}
    Senders = {s1}
    Events = {"event"}
    Delays = {1}
    NULL = NULL
INVARIANTS
    OneWriter
