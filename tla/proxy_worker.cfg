CONSTANTS
    Clients = {c1, c2}
    Threads = {t1, t2}
    Bytes = {"x", "e", "b"}
    BufSize = 1
    ReallocLimit = 1
    WorkqLength = 2
    MaxBytes = 2
    MaxLeaves = 1
    NULL = NULL
SPECIFICATION FairSpec
INVARIANTS
    NoEventLost
    RequestsExact
    SafeWithoutOverlap
PROPERTIES
    ClientsServed
CHECK_DEADLOCK FALSE
