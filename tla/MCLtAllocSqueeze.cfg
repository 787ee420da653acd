CONSTANTS
    t1 = t1 t2 = t2
    Thread = {t1, t2}
    Chunk = {1, 3}
    NumBlocks = 3
    BATCH = 2
    CHUNK_IS_SMALL = FALSE
    NUM_OF_BATCHES = 2
    Squeezer = {t1, t2}
    PadSize = {0, 1}
    NULL = NULL
SYMMETRY ThreadSymmetry
VIEW ByChunk
SPECIFICATION Spec
INVARIANTS
    InOnePlace
    ReleasedWhenUnused
    CountersCover
    BufferFits
    PadBounded
PROPERTIES
    KeepsContract
CHECK_DEADLOCK FALSE
