CONSTANTS
    Instances = {p1, p2}
SPECIFICATION Spec
INVARIANT NetcntSynchronized
CHECK_DEADLOCK FALSE
