SPECIFICATION Spec
CONSTANTS
    Refs = {c1, c2}
    Listeners = {c1}
    Unprompted = {c1}
    Ids = {1, 2}
    FDs = {1, 2}
    c1 = c1
    c2 = c2
    Masks <- AllMasks
    NULL = NULL
INVARIANTS
    AInv
CHECK_DEADLOCK FALSE
