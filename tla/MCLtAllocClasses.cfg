CONSTANTS
    t1 = t1 t2 = t2
    Thread = {t1, t2}
    LargeChunk = {1, 2}
    LargeNumBlocks = 3
    LargeBATCH = 2
    SmallChunk = {1, 2, 3}
    SmallNumBlocks = 2
    SmallBATCH = 2
    NUM_OF_BATCHES = 1
    Squeezer = {}
    PadSize = {0}
    NULL = NULL
SYMMETRY ThreadSymmetry
SPECIFICATION Spec
INVARIANTS
    TypeOK
    InOnePlace
    NothingLost
    ArraysInOrder
CHECK_DEADLOCK FALSE
