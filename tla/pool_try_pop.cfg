CONSTANTS
    Threads = {t1, t2}
    Conns = {c1, c2}
    NULL = NULL
    MaxPoolSize = 1
    MaxCalls = 1
    TryPoppers = {t1}
    Destroyers = {}
    MallocMayFail = FALSE
SPECIFICATION FairSpec
PROPERTY
    TryPopReturns
