SPECIFICATION FairDNSSpec
CONSTANTS
    Entries = {e1, e2}
    Keys = {h1, h2}
    Weights = {1, 3}
    max_size = 1
    max_weight = 2
    Threads = {t1, t2}
    Ports = {1, 2}
    Ids = {1, 2}
    NULL = NULL
    Queries = 2
    TTLs = {1}
    MaxTime = 2
INVARIANTS
    AnswersCorrect
    NothingPinned
PROPERTIES
    LookupReturns
