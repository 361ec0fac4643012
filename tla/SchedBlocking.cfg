SPECIFICATION Spec
CONSTANTS
    Main = main
    Threads = {main, t1, t2, t3}
    Idle = idle
    None = none
    Mutexes = {}
    Conds = {}
    Timeouts <- TwoOrForever
    Elapsed = {0, 1}
    Calls = {"create", "exit", "join", "interrupt", "poll", "usleep"}
CHECK_DEADLOCK FALSE
SYMMETRY ThreadSymmetry
INVARIANTS
    RunQueueExact
    DispatchMeetsWaiters
PROPERTIES
    UsesSleepQueue
    ExitsCorrect
