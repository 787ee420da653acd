--------------------------- MODULE MicroAllocator ---------------------------
(***************************************************************************)
(* MicroAllocator, for one of its seventeen size classes: the fixed chunk  *)
(* of the base memory and the chunks taken from the heap as needed and     *)
(* given back when empty; the sorted table by which an address is led back *)
(* to its chunk; and the heap manager in front, which sends what the table *)
(* does not know to the C library.                                         *)
(*                                                                         *)
(* Atomicity.  The allocator locks for each call.  heap_free() and         *)
(* heap_realloc() make two calls, isMicroAlloc() and free(): the chunk     *)
(* found by the first is used in the second.  Addresses count in blocks.   *)
(***************************************************************************)
EXTENDS Integers, Sequences, FiniteSets, SequencesExt

CONSTANTS
    Thread,
    Base,           \* address of the fixed chunk
    Spot,           \* addresses at which the C library can place memory
    mMaxChunks,     \* blocks of a chunk
    DEFAULT_CHUNKS, \* chunks of a MemoryChunkChunk (32)
    LINEAR,         \* shorter tables are searched from the start (4)
    MaxChunkChunks, \* bound: how many MemoryChunkChunks there are
    NULL

\* The C library keeps a header between any two of its blocks.
MicroAssumption ==
    /\ Spot \cup {Base} \subseteq Nat /\ Base \notin Spot /\ mMaxChunks \in Nat \ {0}
    /\ NULL \notin Nat \cup (Nat \X Nat)
    /\ \A s, r \in Spot \cup {Base} : s < r => s + mMaxChunks < r
    /\ DEFAULT_CHUNKS \in Nat \ {0} /\ LINEAR \in Nat /\ MaxChunkChunks \in Nat \ {0}

VARIABLES
    mData, mUsedCount, mFreeList,   \* of every MemoryChunk
    chunkChunks,            \* how many MemoryChunkChunks
    mCurrent,               \* the chunk that served last
    mMicroChunks,           \* the table of the chunks in memory of the heap
    mLastMicroChunk,        \* position in the table, 0 for none
    held,                   \* blocks of the application, of either allocator
    bigBlocks,              \* the spots of requests too large
    task                    \* task[t]: the call thread t has not finished

chunkVars == <<mData, mUsedCount, mFreeList, chunkChunks, mCurrent>>
tableVars == <<mMicroChunks, mLastMicroChunk>>
vars == <<chunkVars, tableVars, held, bigBlocks, task>>

\* The i-th chunk of the k-th MemoryChunkChunk made.
Chunk == (1 .. MaxChunkChunks) \X (1 .. DEFAULT_CHUNKS)
FixedChunk == <<1, 1>>

Blocks(s) == [i \in 1 .. mMaxChunks |-> s + i - 1]
End(s) == s + mMaxChunks
Within(p, s) == s <= p /\ p < End(s)

Idle == [pc |-> "idle", p |-> NULL, chunk |-> NULL]

Init ==
    /\ mData = [c \in Chunk |-> IF c = FixedChunk THEN Base ELSE NULL]
    /\ mUsedCount = [c \in Chunk |-> 0]
    /\ mFreeList = [c \in Chunk |-> IF c = FixedChunk THEN Blocks(Base) ELSE <<>>]
    /\ chunkChunks = 1 /\ mCurrent = FixedChunk
    /\ mMicroChunks = <<>> /\ mLastMicroChunk = 0
    /\ held = {} /\ bigBlocks = {}
    /\ task = [t \in Thread |-> Idle]

-----------------------------------------------------------------------------
FreeSpots == Spot \ (bigBlocks \cup {mMicroChunks[i].start : i \in DOMAIN mMicroChunks})

\* MemoryChunk::allocate gives a block, having fetched memory if it has none.
Gives(c) == mData[c] = NULL \/ mFreeList[c] # <<>>

\* The list of MemoryChunkChunks: the first one made, then from the newest on.
Turn(c) == (IF c[1] = 1 THEN 0 ELSE chunkChunks + 1 - c[1]) * DEFAULT_CHUNKS + c[2]

ChunkToUse ==
    LET givers == {c \in Chunk : c[1] <= chunkChunks /\ Gives(c)}
    IN  CASE Gives(mCurrent) -> mCurrent
          [] ~Gives(mCurrent) /\ givers # {} ->
                CHOOSE c \in givers : \A d \in givers : Turn(c) <= Turn(d)
          [] OTHER -> <<chunkChunks + 1, 1>>

\* addMicroChunk: before the first chunk that lies behind, or else at the end.
PlaceInTable_Last(s) == Len(mMicroChunks) + 1
PlaceInTable(s) ==
    LET behind == {i \in DOMAIN mMicroChunks : End(s) < mMicroChunks[i].start}
    IN  IF behind = {} THEN Len(mMicroChunks) + 1
        ELSE CHOOSE i \in behind : \A j \in behind : i <= j

addMicroChunk(s, c) ==
    /\ mMicroChunks' = InsertAt(mMicroChunks, PlaceInTable(s), [start |-> s, chunk |-> c])
    /\ mLastMicroChunk' = PlaceInTable(s)

removeMicroChunk(c) ==
    /\ mMicroChunks' = RemoveFirstMatch(mMicroChunks, LAMBDA e : e.chunk = c)
    /\ mLastMicroChunk' = 0

\* heap_malloc of a small request.
Malloc(t) ==
    LET c == ChunkToUse
    IN  /\ task[t].pc = "idle" /\ c \in Chunk
        /\ mCurrent' = c
        /\ chunkChunks' = IF c[1] > chunkChunks THEN c[1] ELSE chunkChunks
        /\ mUsedCount' = [mUsedCount EXCEPT ![c] = @ + 1]
        /\ \/ /\ mData[c] # NULL
              /\ held' = held \cup {Head(mFreeList[c])}
              /\ mFreeList' = [mFreeList EXCEPT ![c] = Tail(@)]
              /\ UNCHANGED <<mData, tableVars>>
           \/ /\ mData[c] = NULL
              /\ \E s \in FreeSpots :
                    /\ mData' = [mData EXCEPT ![c] = s]
                    /\ held' = held \cup {s}
                    /\ mFreeList' = [mFreeList EXCEPT ![c] = Tail(Blocks(s))]
                    /\ addMicroChunk(s, c)
        /\ UNCHANGED <<bigBlocks, task>>

\* heap_malloc of a request too large.
MallocBig(t) ==
    /\ task[t].pc = "idle"
    /\ \E s \in FreeSpots : bigBlocks' = bigBlocks \cup {s} /\ held' = held \cup {s}
    /\ UNCHANGED <<chunkVars, tableVars, task>>

-----------------------------------------------------------------------------
\* binarySearchMicroChunks: between low and high, of which mid is the half way.
Search(p) ==
    LET n == Len(mMicroChunks)
        s[r \in {r \in (0 .. n) \X (0 .. n) : r[1] <= r[2]}] ==
            LET mid == (r[2] - r[1]) \div 2 + r[1]
                e   == mMicroChunks[mid + 1].start
            IN  IF r[1] = r[2] THEN 0
                ELSE IF Within(p, e) THEN mid + 1
                ELSE IF p > End(e) THEN s[<<mid + 1, r[2]>>] ELSE s[<<r[1], mid>>]
    IN  s[<<0, n>>]

\* Where in the table the chunk of p is, 0 if nowhere.
Found(p) ==
    LET inside == {i \in DOMAIN mMicroChunks : Within(p, mMicroChunks[i].start)}
    IN  IF mLastMicroChunk \in inside THEN mLastMicroChunk
        ELSE IF Len(mMicroChunks) >= LINEAR THEN Search(p)
        ELSE IF inside = {} THEN 0
        ELSE CHOOSE i \in inside : \A j \in inside : i <= j

\* isMicroAlloc, the first half of heap_free and of heap_realloc.
isMicroAlloc(t, p, next) ==
    LET i == Found(p)
    IN  /\ task[t].pc = "idle"
        /\ p \in held
        /\ held' = held \ {p}
        /\ \/ /\ Within(p, Base)
              /\ task' = [task EXCEPT ![t] = [pc |-> next, p |-> p, chunk |-> FixedChunk]]
              /\ UNCHANGED mLastMicroChunk
           \/ /\ ~Within(p, Base)
              /\ task' = [task EXCEPT ![t] =
                   [pc |-> next, p |-> p, chunk |-> IF i = 0 THEN NULL ELSE mMicroChunks[i].chunk]]
              /\ mLastMicroChunk' = IF i = 0 THEN mLastMicroChunk ELSE i
        /\ UNCHANGED <<chunkVars, mMicroChunks, bigBlocks>>

Find(t) == \E p \in held, next \in {"free", "realloc"} : isMicroAlloc(t, p, next)

Done(t) == task' = [task EXCEPT ![t] = Idle]

\* free(p, chunk): a chunk without blocks in use goes back to the heap.
NowEmpty_Early(c) == mUsedCount[c] <= 2 /\ c # FixedChunk
NowEmpty(c) == mUsedCount[c] = 1 /\ c # FixedChunk

Free(t) ==
    LET p == task[t].p
        c == task[t].chunk
    IN  /\ task[t].pc = "free" /\ c # NULL
        /\ mUsedCount' = [mUsedCount EXCEPT ![c] = @ - 1]
        /\ \/ /\ NowEmpty(c)
              /\ removeMicroChunk(c)
              /\ mData' = [mData EXCEPT ![c] = NULL]
              /\ mFreeList' = [mFreeList EXCEPT ![c] = <<>>]
           \/ /\ ~NowEmpty(c)
              /\ mFreeList' = [mFreeList EXCEPT ![c] = <<p>> \o @]
              /\ UNCHANGED <<mData, tableVars>>
        /\ Done(t)
        /\ UNCHANGED <<chunkChunks, mCurrent, held, bigBlocks>>

\* What the table does not know is freed by the C library.
FreeBig(t) ==
    /\ task[t].pc = "free" /\ task[t].chunk = NULL
    /\ bigBlocks' = bigBlocks \ {task[t].p}
    /\ Done(t)
    /\ UNCHANGED <<chunkVars, tableVars, held>>

\* The new size fits the size class, or the C library's block can stay.
ReallocStays(t) ==
    /\ task[t].pc = "realloc"
    /\ held' = held \cup {task[t].p}
    /\ Done(t)
    /\ UNCHANGED <<chunkVars, tableVars, bigBlocks>>

\* It does not fit: new memory, and then the old block is freed with the chunk that
\* was found before.  The C library moves its own block in one call.
ReallocMoves(t) ==
    /\ task[t].pc = "realloc"
    /\ \E s \in FreeSpots :
          /\ held' = held \cup {s}
          /\ bigBlocks' = (IF task[t].chunk = NULL THEN bigBlocks \ {task[t].p} ELSE bigBlocks) \cup {s}
    /\ IF task[t].chunk = NULL THEN Done(t) ELSE task' = [task EXCEPT ![t].pc = "free"]
    /\ UNCHANGED <<chunkVars, tableVars>>

Next ==
    \E t \in Thread :
       Malloc(t) \/ MallocBig(t) \/ Find(t) \/ Free(t) \/ FreeBig(t) \/ ReallocStays(t) \/ ReallocMoves(t)

Spec == Init /\ [][Next]_vars

-----------------------------------------------------------------------------
\* The blocks that somebody uses or is about to free.
Busy == held \cup ({task[t].p : t \in Thread} \ {NULL})

\* "assert(s >= mData && s < mDataEnd)": the chunk that isMicroAlloc() found holds the
\* block, and still does when free() locks again, though others have allocated, freed
\* and moved the table in between; no chunk is found for a block of the C library.
FreedWhereItBelongs ==
    \A t \in Thread : task[t].pc # "idle" =>
       IF task[t].chunk = NULL THEN task[t].p \in bigBlocks
       ELSE mData[task[t].chunk] # NULL /\ Within(task[t].p, mData[task[t].chunk])

\* A chunk's blocks are on its list or in use, each once; the counter is exact, so a
\* chunk keeps its memory exactly as long as a block of it is in use.
Tiled ==
    \A c \in Chunk :
       LET blocks == IF mData[c] = NULL THEN {} ELSE Range(Blocks(mData[c]))
       IN  /\ Range(mFreeList[c]) = blocks \ Busy
           /\ IsInjective(mFreeList[c])
           /\ mUsedCount[c] = Cardinality(blocks \cap Busy)
           /\ c # FixedChunk => (mData[c] = NULL <=> mUsedCount[c] = 0)

\* The table has the chunks that are in memory of the heap, in the order of their
\* addresses, and the last hit is a position in it.
TableExact ==
    /\ {<<e.start, e.chunk>> : e \in Range(mMicroChunks)}
         = {<<mData[c], c>> : c \in {d \in Chunk \ {FixedChunk} : mData[d] # NULL}}
    /\ \A i, j \in DOMAIN mMicroChunks : i < j => mMicroChunks[i].start < mMicroChunks[j].start
    /\ mLastMicroChunk \in 0 .. Len(mMicroChunks)
=============================================================================
