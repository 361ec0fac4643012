SPECIFICATION FairSpec
CONSTANTS
    Refs = {c1, c2}
    Listeners = {c1}
    Unprompted = {}
    Ids = {1, 2}
    FDs = {1, 2}
    Masks <- ReadAll
    NULL = NULL
INVARIANTS
    AskedIsSelected
    NoStaleContext
    ClosedLast
PROPERTIES
    NobodyStaysDeaf
    CleanupCompletes
