CONSTANTS
    t1 = t1 t2 = t2
    d1 = d1 d2 = d2 d3 = d3
    p1 = p1 p2 = p2
    g1 = g1 g2 = g2
    Thread = {t1, t2}
    Dir = {d1, d2}
    Page = {p1, p2}
    Chain = {0}
    Main = t1
    Slots = {1, 2}
    Big = {}
    PENDING_THRESHOLD = 0
    Win32 = TRUE
    CHECK_FREQUENCY = 1
    COUNT_BOUND = 2
    NULL = NULL
SPECIFICATION Spec
SYMMETRY Symmetry
INVARIANTS
    TypeOK
    CountersExact
PROPERTIES
    KeepsContract
CHECK_DEADLOCK FALSE
