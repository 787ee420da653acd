CONSTANTS
    t1 = t1 t2 = t2 d1 = d1 d2 = d2
    Thread = {t1, t2}
    Desc = {d1, d2}
    nCapacity = 3
    c_nMaxCredits = 1
    MaxSuperblocks = 2
    NULL = NULL
SYMMETRY Symmetry
SPECIFICATION Spec
INVARIANTS
    CreditsExact
    ListExact
    NoUseAfterFree
    NothingLost
PROPERTIES
    KeepsContract
CHECK_DEADLOCK FALSE
