CONSTANTS
    Threads = {t1, t2, t3}
    Conns = {c1, c2, c3}
    NULL = NULL
    MaxPoolSize = 2
    MaxCalls = 2
    TryPoppers = {t1, t2, t3}
    Destroyers = {t1, t2, t3}
    MallocMayFail = TRUE
SPECIFICATION Spec
SYMMETRY Symmetry
INVARIANTS
    ExclusiveUse
    PoolBound
    NoLostWakeup
