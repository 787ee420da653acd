CONSTANTS
    b1 = b1 b2 = b2 b3 = b3
    Block = {b1, b2}
    maxSize = 1
    LABELS = 5
    MaxLength = 4
    NULL = NULL
SPECIFICATION Spec
INVARIANT
    DestructorFreesAll
CHECK_DEADLOCK FALSE
