SPECIFICATION Spec
CONSTANTS
    Threads = {t1, t2, t3, t4, t5, t6, t7}
    None = none
    Timeouts = {0, 1, 2}
    Elapsed = {0, 1}
SYMMETRY ThreadSymmetry
INVARIANTS
    HeapCorrect
PROPERTIES
    ImplementsSleepQueue
