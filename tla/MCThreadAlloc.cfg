CONSTANTS
    t1 = t1 t2 = t2
    d1 = d1 d2 = d2 d3 = d3
    p1 = p1 p2 = p2
    g1 = g1 g2 = g2
    Thread = {t1, t2}
    Dir = {d1, d2}
    Page = {p1, p2}
    Chain = {0, 1}
    Main = t1
    Slots = {1}
    Big = {g1}
    PENDING_THRESHOLD = 0
    Win32 = FALSE
    CHECK_FREQUENCY = 1
    COUNT_BOUND = 2
    NULL = NULL
SPECIFICATION FairSpec
INVARIANTS
    NoUseAfterFree
    OneOwner
    NothingLost
PROPERTIES
    CleanupTerminates
CHECK_DEADLOCK FALSE
