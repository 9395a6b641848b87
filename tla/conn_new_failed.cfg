CONSTANTS
    Callers = {t1}
    Timeout = 2
    MaxCalls = 2
    MaxInterrupts = 1
SPECIFICATION Spec
INVARIANT FailureReturnsNull
