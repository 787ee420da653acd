CONSTANTS
    t1 = t1 t2 = t2 d1 = d1 d2 = d2
    Thread = {t1, t2}
    Desc = {d1, d2}
    nCapacity = 2
    c_nMaxCredits = 1
    MaxSuperblocks = 3
    NULL = NULL
SYMMETRY Symmetry
SPECIFICATION Spec
PROPERTIES FreedWhenEmpty
CHECK_DEADLOCK FALSE
