SPECIFICATION Spec
CONSTANTS
    Entries = {e1, e2, e3, e4}
    Keys = {k1, k2}
    Weights = {1, 2}
    max_size = 3
    max_weight = 4
    Users = {u1, u2}
    NULL = NULL
SYMMETRY CacheSymmetry
INVARIANTS
    CacheCorrect
    CacheWithinLimits
PROPERTIES
    EvictionInOrder
    ImplementsSharedCache
