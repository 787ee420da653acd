CONSTANTS
    t1 = t1 t2 = t2
    Thread = {t1, t2}
    Chunk = {1, 3}
    NumBlocks = 2
    BATCH = 1
    CHUNK_IS_SMALL = FALSE
    NUM_OF_BATCHES = 2
    Squeezer = {t1}
    PadSize = {0}
    NULL = NULL
SPECIFICATION Spec
INVARIANT
    SqueezeLosesNothing
CHECK_DEADLOCK FALSE
