-------------------------------- MODULE Pools --------------------------------
(***************************************************************************)
(* The allocators that hand out blocks of fixed sizes from lists, side by  *)
(* side: a behaviour runs one of them.  Each keeps lists, counters or      *)
(* tables beside the blocks themselves, under a lock for each call or for  *)
(* one thread, and the question is whether they still agree after any      *)
(* sequence of calls.  Variables that have the same meaning in two of them *)
(* are shared.                                                             *)
(***************************************************************************)
EXTENDS Integers, Sequences, FiniteSets

CONSTANTS
    NULL,
    Page,                       \* memories of one size that the system can return
    Thread, Base, Spot, mMaxChunks, DEFAULT_CHUNKS, LINEAR, MaxChunkChunks, \* of MicroAllocator
    BlockElements,              \* of FSBAllocator and FSBAllocator2
    Bin, Objects,               \* of IronPeter
    MBRequest, MEGABLOCK_SIZE, MB_MAX_BLOCK_SIZE,                   \* of MBAlloc
    DumbRequest, alloc_size, MaxRegions,                            \* of DumbTlsf
    WinnieRequest, malloc_threshold, first_os_block_size_log, max_os_block_num, MaxMalloced,
                                \* of WinnieAlloc
    WinnieSize, WinnieBlocks,   \* of WinniePool
    Memory, PoolBytes, TlsfRequest, TlsfAlignment, MaxUsed, SL_INDEX_COUNT_LOG2, FL_INDEX_MAX
                                \* of Tlsf

VARIABLES
    part,                       \* the allocator that runs
    users,                      \* blocks of the application, except of MicroAllocator
    mData, mUsedCount, mFreeList, chunkChunks, mCurrent, mMicroChunks, mLastMicroChunk,
    held, bigBlocks, task,      \* of MicroAllocator
    data, blocksWithFree, vectorIndex,                              \* of FSBAllocator
    ptrs, headIndex, freeList, allocatedElementsAmount,             \* of FSBAllocator2
    index, firstObject,         \* of IronPeter and MBAlloc
    nodes, usedObjs, allocs, bigs,                                  \* of IronPeter
    partlyFree, filledMegaBlock, freeMegaBlock, link, numOfAllocatedBlocks, \* of MBAlloc
    table, res,                 \* of DumbTlsf
    free_blocks_lists, os_block_num,                                \* of WinnieAlloc
    pChunksHead, pFirstFree, pThreadAllocatorStates, news,          \* of WinniePool
    header, fl_bitmap, sl_bitmap, blocks                            \* of Tlsf

micro  == INSTANCE MicroAllocatorProofs
fsb    == INSTANCE FSBAllocator WITH Memory <- Page, used <- users
fsb2   == INSTANCE FSBAllocator2 WITH Memory <- Page, used <- users
iron   == INSTANCE IronPeter WITH Platform <- Page, objects <- users
mb     == INSTANCE MBAlloc WITH MegaBlock <- Page, Request <- MBRequest,
                                MAX_BLOCK_SIZE <- MB_MAX_BLOCK_SIZE, firstBlock <- firstObject
dumb   == INSTANCE DumbTlsf WITH Request <- DumbRequest, blocks <- users
winnie == INSTANCE WinnieAlloc WITH Request <- WinnieRequest
states == INSTANCE WinniePool WITH Memory <- Page, Size <- WinnieSize, NumBlocks <- WinnieBlocks
tlsf   == INSTANCE Tlsf WITH Request <- TlsfRequest, Alignment <- TlsfAlignment, used <- users

PoolsAssumption ==
    /\ micro!MicroAssumption /\ fsb!FSBAssumption /\ fsb2!FSB2Assumption
    /\ iron!IronAssumption /\ mb!MBAssumption
    /\ dumb!DumbAssumption /\ winnie!WinnieAssumption /\ states!WinniePoolAssumption
    /\ tlsf!TlsfAssumption

Pool == {"MicroAllocator", "FSBAllocator", "FSBAllocator2", "ironpeter", "tav", "dumb_tlsf", "winnie1",
         "winnie3", "tlsf"}

\* What each of them has for itself.
microVars  == <<mData, mUsedCount, mFreeList, chunkChunks, mCurrent, mMicroChunks,
                mLastMicroChunk, held, bigBlocks, task>>
fsbVars    == <<data, blocksWithFree, vectorIndex>>
fsb2Vars   == <<ptrs, headIndex, freeList, allocatedElementsAmount>>
ironVars   == <<nodes, usedObjs, allocs, bigs>>
mbVars     == <<partlyFree, filledMegaBlock, freeMegaBlock, link, numOfAllocatedBlocks>>
bothVars   == <<index, firstObject>>
dumbVars   == <<table, res>>
winnieVars == <<free_blocks_lists, os_block_num>>
statesVars == <<pChunksHead, pFirstFree, pThreadAllocatorStates, news>>
tlsfVars   == <<header, fl_bitmap, sl_bitmap, blocks>>

\* An allocator that does not run has no state.
NoMicro  == /\ mData = NULL /\ mUsedCount = NULL /\ mFreeList = NULL /\ chunkChunks = NULL
            /\ mCurrent = NULL /\ mMicroChunks = NULL /\ mLastMicroChunk = NULL
            /\ held = NULL /\ bigBlocks = NULL /\ task = NULL
NoFsb    == data = NULL /\ blocksWithFree = NULL /\ vectorIndex = NULL
NoFsb2   == ptrs = NULL /\ headIndex = NULL /\ freeList = NULL /\ allocatedElementsAmount = NULL
NoIron   == nodes = NULL /\ usedObjs = NULL /\ allocs = NULL /\ bigs = NULL
NoMb     == /\ partlyFree = NULL /\ filledMegaBlock = NULL /\ freeMegaBlock = NULL
            /\ link = NULL /\ numOfAllocatedBlocks = NULL
NoPages  == index = NULL /\ firstObject = NULL
NoDumb   == table = NULL /\ res = NULL
NoWinnie == free_blocks_lists = NULL /\ os_block_num = NULL
NoStates == pChunksHead = NULL /\ pFirstFree = NULL /\ pThreadAllocatorStates = NULL /\ news = NULL
NoTlsf   == header = NULL /\ fl_bitmap = NULL /\ sl_bitmap = NULL /\ blocks = NULL

PoolsInit ==
    /\ users = {}
    /\ IF part = "MicroAllocator" THEN micro!Init ELSE NoMicro
    /\ IF part = "FSBAllocator" THEN fsb!Init ELSE NoFsb
    /\ IF part = "FSBAllocator2" THEN fsb2!Init ELSE NoFsb2
    /\ IF part = "ironpeter" THEN iron!Init ELSE NoIron
    /\ IF part = "tav" THEN mb!Init ELSE NoMb
    /\ part \notin {"ironpeter", "tav"} => NoPages
    /\ IF part = "dumb_tlsf" THEN dumb!Init ELSE NoDumb
    /\ IF part = "winnie1" THEN winnie!Init ELSE NoWinnie
    /\ IF part = "winnie3" THEN states!Init ELSE NoStates
    /\ IF part = "tlsf" THEN tlsf!Init ELSE NoTlsf

PoolsNext ==
    \/ /\ part = "MicroAllocator" /\ micro!Next
       /\ UNCHANGED <<users, fsbVars, fsb2Vars, ironVars, mbVars, bothVars, dumbVars, winnieVars, statesVars, tlsfVars>>
    \/ /\ part = "FSBAllocator" /\ fsb!Next
       /\ UNCHANGED <<microVars, fsb2Vars, ironVars, mbVars, bothVars, dumbVars, winnieVars, statesVars, tlsfVars>>
    \/ /\ part = "FSBAllocator2" /\ fsb2!Next
       /\ UNCHANGED <<microVars, fsbVars, ironVars, mbVars, bothVars, dumbVars, winnieVars, statesVars, tlsfVars>>
    \/ /\ part = "ironpeter" /\ iron!Next
       /\ UNCHANGED <<microVars, fsbVars, fsb2Vars, mbVars, dumbVars, winnieVars, statesVars, tlsfVars>>
    \/ /\ part = "tav" /\ mb!Next
       /\ UNCHANGED <<microVars, fsbVars, fsb2Vars, ironVars, dumbVars, winnieVars, statesVars, tlsfVars>>
    \/ /\ part = "dumb_tlsf" /\ dumb!Next
       /\ UNCHANGED <<microVars, fsbVars, fsb2Vars, ironVars, mbVars, bothVars, winnieVars, statesVars, tlsfVars>>
    \/ /\ part = "winnie1" /\ winnie!Next
       /\ UNCHANGED <<microVars, fsbVars, fsb2Vars, ironVars, mbVars, bothVars, dumbVars, statesVars, tlsfVars>>
    \/ /\ part = "winnie3" /\ states!Next
       /\ UNCHANGED <<microVars, fsbVars, fsb2Vars, ironVars, mbVars, bothVars, dumbVars, winnieVars, tlsfVars>>
    \/ /\ part = "tlsf" /\ tlsf!Next
       /\ UNCHANGED <<microVars, fsbVars, fsb2Vars, ironVars, mbVars, bothVars, dumbVars, winnieVars, statesVars>>

poolVars == <<users, microVars, fsbVars, fsb2Vars, ironVars, mbVars, bothVars, dumbVars, winnieVars, statesVars, tlsfVars>>

-----------------------------------------------------------------------------
\* A block has room for what was asked for when it was allocated or reallocated,
\* whichever list it came from.
BlocksFit ==
    /\ part = "tav" => mb!RequestFits
    /\ part = "dumb_tlsf" => dumb!AllocatesGivenBytes
    /\ part = "winnie1" => winnie!RequestFits
    /\ part = "tlsf" => tlsf!RequestFits

\* Freeing finds the chunk or block of memory that an address belongs to.
FoundAgain ==
    /\ part = "MicroAllocator" => micro!FreedWhereItBelongs
    /\ part = "FSBAllocator" => fsb!FreedWhereItBelongs

\* The blocks in use, those on lists and those never handed out tile the memory taken
\* from the system: nothing is handed out twice, or lost, or lies in memory returned.
Tiled ==
    /\ part = "MicroAllocator" => micro!Tiled
    /\ part = "FSBAllocator" => fsb!Tiled
    /\ part = "FSBAllocator2" => fsb2!Tiled
    /\ part = "ironpeter" => iron!Tiled
    /\ part = "tav" => mb!Tiled
    /\ part = "dumb_tlsf" => dumb!Tiled
    /\ part = "winnie1" => winnie!Tiled
    /\ part = "winnie3" => states!Tiled
    /\ part = "tlsf" => tlsf!Tiled

\* The counters are exact, and a list, stack, flag or bitmap says what is so of the
\* blocks, however pages, megablocks and pools were filled and emptied; tlsf has joined
\* its free blocks.
CountersExact ==
    /\ part = "FSBAllocator" => fsb!CountersExact
    /\ part = "FSBAllocator2" => fsb2!CountExact
    /\ part = "ironpeter" => iron!CountersExact
    /\ part = "tav" => mb!CountersExact
    /\ part = "tlsf" => tlsf!CountersExact

\* MicroAllocator's table of chunks, which is searched by halves, stays sorted and has
\* the chunks that are in memory of the heap.
TableExact == part = "MicroAllocator" => micro!TableExact
=============================================================================
