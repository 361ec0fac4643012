SPECIFICATION Spec
CONSTANTS
    Threads = {t1, t2, t3}
    Fds = {0, 1, 2}
    PollSets <- SomePollSets
    Refused = {2}
    Failures = {"HUP"}
    FD_SETSIZE = 2
    MIN_SIZE = 2
    GROWTH = 1
    EVTLIST_SIZE = 1
    LIST_SIZE = 2
    MaxAdds = 4
    MaxForks = 1
SYMMETRY ThreadSymmetry
INVARIANTS
    TablesExact
    KernelAsked
PROPERTIES
    ImplementsEventSystem
