CONSTANTS
    NumChild = 2
    MaxChild = 3
    Pids = {1, 2, 3, 4, 5, 6}
    MaxFaults = 2
    MaxForkFailures = 1
    SpliceSize = 3
    PipeSlots = 2
    MaxBytes = 4
SPECIFICATION ProxiesSpec
INVARIANTS
    WorkersAccounted
    ShutdownReachesAll
    TunnelBytesIntact
    EverythingReleased
PROPERTIES
    CrashedIsReplaced
    RequestForwarded
CHECK_DEADLOCK FALSE
