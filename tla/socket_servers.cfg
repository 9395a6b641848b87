CONSTANTS
    Clients = {c1, c2}
    MaxRequests = 2
    EClients = {e1, e2}
    MaxChunks = 2
    MAXEVENTS = 2
    TClients = {t1, t2}
    MaxLines = 2
    LineLengths = {1, 2}
    ServerMax = 2
    ClientMax = 4
    UClients = {u1, u2}
    MaxMessages = 1
    MaxAccepts = 2
    Singles = {s1}
    Ports = {p1, p2}
    Mmp = m
    MaxSends = 1
    MaxCopies = 1
SPECIFICATION Spec
INVARIANTS
    LibEventsSound
    EpollNothingLost
    EchoIntact
PROPERTIES
    LibRequestsAnswered
CHECK_DEADLOCK FALSE
