SPECIFICATION Spec
CONSTANTS
    Main = main
    Threads = {main, t1, t2}
    Idle = idle
    None = none
    Mutexes = {m1}
    Conds = {c1}
    Timeouts <- OneOrForever
    Elapsed = {0, 1}
    Calls = {"create", "exit", "interrupt", "timedwait", "signal", "broadcast", "lock", "unlock", "trylock", "destroy"}
CHECK_DEADLOCK FALSE
SYMMETRY ThreadSymmetry
INVARIANTS
    IInv
    NoLostHandoff
    NoUseAfterDestroy
PROPERTIES
    LockOutcome
    WaitsCorrect
    ImplementsFairMutex
