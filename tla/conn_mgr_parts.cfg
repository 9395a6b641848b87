CONSTANTS
    Items = {i1, i2, i3, i4}
    Data = {d1, d2}
    NULL = NULL
    Callers = {t1}
    Timeout = 2
    MaxCalls = 2
    MaxInterrupts = 2
SPECIFICATION PartsSpec
INVARIANTS
    ListShape
    ConnNewSound
PROPERTIES
    ImplementsDeque
    NewReturns
