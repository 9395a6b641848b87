CONSTANTS
    N = 5
    WordBits = 10
    OffsetBits = 6
    SlabsMax = 2
    TestSlabsMax = 4
    ObjSzs = {1, 16}
    ObjCnts = {1, 3}
    count_limit = 3
    tcount = 3
    ALLOC_SIZE = 2
    REALLOC_THRESHOLD = 1
    FileLengths = {0, 1, 3, 5}
    OldLengths = {0, 4}
    Users = {u1, u2, u3}
    Inputs = {1, 2}
SPECIFICATION SysSpec
INVARIANTS
    NoCircularWait
    MemPoolSound
    TestsKeepTheirObjects
    AioCopyIsWhole
    IoctlPairsAreWhole
PROPERTIES
    PhilEverybodyEats
    CondMainCompletes
CHECK_DEADLOCK FALSE
