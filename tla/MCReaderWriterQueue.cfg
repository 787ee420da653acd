CONSTANTS
    b1 = b1 b2 = b2 b3 = b3
    Block = {b1, b2, b3}
    maxSize = 1
    LABELS = 5
    MaxLength = 6
    NULL = NULL
SPECIFICATION FairSpec
INVARIANTS
    TypeOK
    SlotsKeptApart
    AssertionsHold
    FalseMeansEmpty
PROPERTIES
    KeepsOrder
    RoomForMaxSize
    Delivered
CHECK_DEADLOCK FALSE
