CONSTANTS
    Producer = p
    Consumers = {c1, c2}
    Values = {v1, v2}
    Size = 2
    NULL = NULL
    Mortals = {p, c1, c2}
    MaxKills = 1
SPECIFICATION FairSpec
INVARIANTS
    MutexExclusive
    TokensNeverGrow
    PrintEnds
PROPERTIES
    ImplementsFifo
    EverybodyProgresses
CHECK_DEADLOCK FALSE
