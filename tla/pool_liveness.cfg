CONSTANTS
    Threads = {t1, t2, t3}
    Conns = {c1, c2}
    NULL = NULL
    MaxPoolSize = 2
    MaxCalls = 2
    TryPoppers = {}
    Destroyers = {}
    MallocMayFail = FALSE
SPECIFICATION FairSpec
INVARIANTS
    CapacityKept
PROPERTIES
    PopReturns
