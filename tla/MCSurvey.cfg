CONSTANTS
    SmallRequest <- MCSmallRequest
    WIDTH = 65536
    Request <- MCRequest
    Alignment <- MCAlignment
    t1 = t1 t2 = t2 p1 = p1 p2 = p2 p3 = p3
    Thread = {t1, t2}
    Address <- MCAddress
    SizesAt <- MCSizesAt
    NodePage <- MCNodePage
    PTRIE_NULL_NODE = 0
    NULL = NULL
    Page = {p1, p2, p3}
    Base = 0
    Spot = {10, 20, 30}
    mMaxChunks = 2
    DEFAULT_CHUNKS = 1
    LINEAR = 2
    MaxChunkChunks = 3
    BlockElements = 2
    Bin = {1, 2}
    Objects <- MCObjects
    MBRequest = {7, 12}
    MEGABLOCK_SIZE = 40
    MB_MAX_BLOCK_SIZE = 20
    DumbRequest = {8, 15}
    alloc_size = 40
    MaxRegions = 2
    WinnieRequest = {0, 2, 3}
    malloc_threshold = 3
    first_os_block_size_log = 2
    max_os_block_num = 2
    MaxMalloced = 1
    WinnieSize = {1, 2}
    WinnieBlocks <- MCWinnieBlocks
    m1 = m1 m2 = m2
    Memory = {m1, m2}
    PoolBytes = 176
    TlsfRequest = {1, 72}
    TlsfAlignment = {32}
    MaxUsed = 3
    SL_INDEX_COUNT_LOG2 = 2
    FL_INDEX_MAX = 8
SYMMETRY Symmetry
SPECIFICATION Spec
INVARIANTS
    RequestFits
    FreedWhereItBelongs
    PagesTiled
    Aligned
    SizesFound
    OneNodePerKey
    OneNullChild
    KeyIsNew
    Tiled
    CountersExact
    TableExact
