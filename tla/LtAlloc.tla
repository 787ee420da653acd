------------------------------- MODULE LtAlloc -------------------------------
(***************************************************************************)
(* ltalloc for one size class: per thread a cache of free blocks, a        *)
(* central cache that batches of blocks move through, chunks that are      *)
(* fetched from the system while no lock is held, and ltsqueeze, which     *)
(* gives wholly free chunks back.  Size classes share nothing but the pad, *)
(* a store of chunks put aside by ltsqueeze.                               *)
(*                                                                         *)
(* Atomicity.  What is done under cc->lock, pad.lock or to the thread's    *)
(* own cache is one step; between two lock sections other threads run.     *)
(* Linked lists are sequences, first block first.                          *)
(***************************************************************************)
EXTENDS Integers, Sequences, FiniteSets, SequencesExt

CONSTANTS
    Thread,
    Chunk,              \* addresses of chunks, in units of CHUNK_SIZE, not 0
    NumBlocks,          \* numBlocksInChunk
    BATCH,              \* batch_size(sizeClass) + 1
    CHUNK_IS_SMALL,     \* whether batches are kept in the chunks' arrays
    NUM_OF_BATCHES,     \* NUM_OF_BATCHES_IN_CHUNK_SM, slots of such an array
    Squeezer,           \* bound: the threads that call ltsqueeze
    PadSize,            \* its arguments, in units of CHUNK_SIZE
    NULL

ASSUME LtAllocAssumption ==
    /\ Chunk \subseteq Nat \ {0} /\ IsFiniteSet(Chunk) /\ NULL \notin Chunk
    /\ NumBlocks \in Nat \ {0} /\ BATCH \in Nat \ {0}
    /\ CHUNK_IS_SMALL \in BOOLEAN
    /\ NUM_OF_BATCHES \in Nat
    /\ CHUNK_IS_SMALL => NUM_OF_BATCHES * BATCH >= NumBlocks
    /\ IsFiniteSet(Thread) /\ Squeezer \subseteq Thread
    /\ PadSize \subseteq Nat /\ IsFiniteSet(PadSize) /\ PadSize # {}
    /\ CHUNK_IS_SMALL => Squeezer = {}      \* ltsqueeze skips the small classes

VARIABLES
    \* the thread cache
    freeList, tempList, counter,
    \* the central cache; lastChunk is a stack of [chunk, left], since the end of
    \* a chunk with blocks left to carve may point to another one
    firstBatch, chunks, chunkWithFreeBatches, ccFreeList, freeListSize, lastChunk,
    minChunkAddr, maxChunkAddr,
    pad, padSize,       \* the pad's chunks and the size it believes in
    mapped,             \* the chunks that the system has given
    pc, mem,            \* mem[t]: the chunk that t is preparing
    detached,           \* what ltsqueeze took out of the central cache
    releasing,          \* the chunks that ltsqueeze is giving back
    users               \* the application: how often a block is handed out

cacheVars   == <<freeList, tempList, counter>>
batchVars   == <<firstBatch, chunks, chunkWithFreeBatches>>
listVars    == <<ccFreeList, freeListSize>>
addrVars    == <<minChunkAddr, maxChunkAddr>>
padVars     == <<pad, padSize>>
squeezeVars == <<detached, releasing>>
vars == <<cacheVars, batchVars, listVars, lastChunk, addrVars, padVars, mapped, pc, mem,
          squeezeVars, users>>

Block == Chunk \X (1 .. NumBlocks)

Init ==
    /\ freeList = [t \in Thread |-> <<>>] /\ tempList = [t \in Thread |-> <<>>]
    /\ counter = [t \in Thread |-> 0]
    /\ firstBatch = <<>> /\ chunks = <<>> /\ chunkWithFreeBatches = 0
    /\ ccFreeList = <<>> /\ freeListSize = 0 /\ lastChunk = <<>>
    /\ minChunkAddr = 0 /\ maxChunkAddr = 0
    /\ pad = {} /\ padSize = 0 /\ mapped = {}
    /\ pc = [t \in Thread |-> "idle"] /\ mem = [t \in Thread |-> NULL]
    /\ detached = [t \in Thread |-> NULL] /\ releasing = [t \in Thread |-> {}]
    /\ users = [b \in Block |-> 0]

-----------------------------------------------------------------------------
(* ltmalloc and fetch_from_central_cache *)

\* The list becomes the thread's, and its first block the caller's.
Receive(t, list) ==
    /\ freeList' = [freeList EXCEPT ![t] = Tail(list)]
    /\ users' = [users EXCEPT ![Head(list)] = @ + 1]

\* counter of a cache that receives n blocks: one is handed out at once.
CounterFor(n) == IF n < BATCH THEN BATCH - n + 1 ELSE IF n > BATCH THEN 0 ELSE 1

MallocCached(t) ==
    /\ pc[t] = "idle" /\ freeList[t] # <<>>
    /\ Receive(t, freeList[t])
    /\ counter' = [counter EXCEPT ![t] = @ + 1]
    /\ UNCHANGED <<tempList, batchVars, listVars, lastChunk, addrVars, padVars, mapped, pc,
                   mem, squeezeVars>>

\* The list kept aside by move_to_central_cache is used first.
MallocTemp(t) ==
    /\ pc[t] = "idle" /\ freeList[t] = <<>> /\ tempList[t] # <<>>
    /\ Receive(t, tempList[t])
    /\ counter' = [counter EXCEPT ![t] = 1]
    /\ tempList' = [tempList EXCEPT ![t] = <<>>]
    /\ UNCHANGED <<batchVars, listVars, lastChunk, addrVars, padVars, mapped, pc, mem,
                   squeezeVars>>

Fetching(t) == pc[t] = "idle" /\ freeList[t] = <<>> /\ tempList[t] = <<>>

Batches(i) == chunks[i].batches
IsFull(i) == Len(Batches(i)) = NUM_OF_BATCHES

NoBatch ==
    IF CHUNK_IS_SMALL
    THEN \A i \in 1 .. chunkWithFreeBatches : i = 1 /\ Batches(i) = <<>>
    ELSE firstBatch = <<>>

\* cc->firstBatch, or the last batch of the chunk's array: an empty chunk sends
\* the search back to the previous one.
BatchAt ==
    IF Batches(chunkWithFreeBatches) = <<>> THEN chunkWithFreeBatches - 1
    ELSE chunkWithFreeBatches

TakeBatch(t) ==
    IF CHUNK_IS_SMALL
    THEN /\ Receive(t, Last(Batches(BatchAt)))
         /\ chunks' = [chunks EXCEPT ![BatchAt].batches = Front(@)]
         /\ chunkWithFreeBatches' = BatchAt
         /\ UNCHANGED firstBatch
    ELSE /\ Receive(t, Head(firstBatch))
         /\ firstBatch' = Tail(firstBatch)
         /\ UNCHANGED <<chunks, chunkWithFreeBatches>>

MallocBatch(t) ==
    /\ Fetching(t) /\ ~NoBatch
    /\ TakeBatch(t)
    /\ counter' = [counter EXCEPT ![t] = 1]
    /\ UNCHANGED <<tempList, listVars, lastChunk, addrVars, padVars, mapped, pc, mem,
                   squeezeVars>>

\* The central list that is not in batches, whole or one batch of it, as its size says.
\* A size that is too large, which ltsqueeze may leave, sends the walk past the end of
\* the list: the program crashes at a null link, and the behaviour goes no further.
MallocList(t) ==
    /\ Fetching(t) /\ NoBatch /\ ccFreeList # <<>>
    /\ LET n == IF freeListSize <= BATCH + 1 THEN Len(ccFreeList) ELSE BATCH
       IN  /\ n <= Len(ccFreeList)
           /\ Receive(t, SubSeq(ccFreeList, 1, n))
           /\ ccFreeList' = SubSeq(ccFreeList, n + 1, Len(ccFreeList))
    /\ freeListSize' = IF freeListSize <= BATCH + 1 THEN 0 ELSE freeListSize - BATCH
    /\ counter' = [counter EXCEPT ![t] =
          IF freeListSize <= BATCH + 1 THEN CounterFor(freeListSize) ELSE 1]
    /\ UNCHANGED <<tempList, batchVars, lastChunk, addrVars, padVars, mapped, pc, mem,
                   squeezeVars>>

Min2(a, b) == IF a < b THEN a ELSE b

\* Blocks first .. first + n - 1 of chunk c, linked in order.
Carved(c, first, n) == [i \in 1 .. n |-> <<c, first + i - 1>>]

\* Uncarved blocks left after n of them: the chunk, or the one it was hooked to.
AfterCarving_Kept(n) == lastChunk
AfterCarving(n) ==
    IF lastChunk[1].left = n THEN Tail(lastChunk) ELSE [lastChunk EXCEPT ![1].left = @ - n]

MallocCarve(t) ==
    /\ Fetching(t) /\ NoBatch /\ ccFreeList = <<>> /\ lastChunk # <<>>
    /\ LET left == lastChunk[1].left
           n == Min2(left, BATCH)
       IN  /\ Receive(t, Carved(lastChunk[1].chunk, NumBlocks - left + 1, n))
           /\ counter' = [counter EXCEPT ![t] = CounterFor(n)]
           /\ lastChunk' = AfterCarving(n)
    /\ UNCHANGED <<tempList, batchVars, listVars, addrVars, padVars, mapped, pc, mem,
                   squeezeVars>>

\* Nothing is left: the lock is released while a chunk is fetched.
MallocNew(t) ==
    /\ Fetching(t) /\ NoBatch /\ ccFreeList = <<>> /\ lastChunk = <<>>
    /\ counter' = [counter EXCEPT ![t] = 1]
    /\ pc' = [pc EXCEPT ![t] = "chunk"]
    /\ UNCHANGED <<freeList, tempList, batchVars, listVars, lastChunk, addrVars, padVars,
                   mapped, mem, squeezeVars, users>>

Prepare(t, c) ==
    /\ mem' = [mem EXCEPT ![t] = c]
    /\ pc' = [pc EXCEPT ![t] = "install"]
    /\ UNCHANGED <<cacheVars, batchVars, listVars, lastChunk, addrVars, squeezeVars, users>>

FetchPad(t) ==
    /\ pc[t] = "chunk" /\ pad # {}
    /\ \E c \in pad : Prepare(t, c) /\ pad' = pad \ {c}
    /\ padSize' = padSize - 1
    /\ UNCHANGED mapped

FetchSystem(t) ==
    /\ pc[t] = "chunk" /\ pad = {}
    /\ \E c \in Chunk \ mapped : Prepare(t, c) /\ mapped' = mapped \cup {c}
    /\ UNCHANGED padVars

\* sys_aligned_alloc fails, and so does ltmalloc.
FetchFails(t) ==
    /\ pc[t] = "chunk" /\ pad = {}
    /\ pc' = [pc EXCEPT ![t] = "idle"]
    /\ UNCHANGED <<cacheVars, batchVars, listVars, lastChunk, addrVars, padVars, mapped, mem,
                   squeezeVars, users>>

\* A chunk whose end is in use points to the chunk that others installed meanwhile.
Hooked_Dropped(c, left) == IF left = 0 THEN <<>> ELSE <<[chunk |-> c, left |-> left]>>
Hooked(c, left) == IF left = 0 THEN <<>> ELSE <<[chunk |-> c, left |-> left]>> \o lastChunk

\* The least chunk address, and where a chunk of the smallest blocks is inserted.
LowestWith(c) == IF c < minChunkAddr \/ minChunkAddr = 0 THEN c ELSE minChunkAddr

PlaceOfNew_First == 1
PlaceOfNew == chunkWithFreeBatches + 1

\* Back under the lock: the chunk's first blocks are the thread's, the rest is left
\* to be carved; a chunk of the smallest blocks joins the list of chunks.
Install(t) ==
    /\ pc[t] = "install" /\ pc' = [pc EXCEPT ![t] = "idle"]
    /\ mem' = [mem EXCEPT ![t] = NULL]
    /\ LET c == mem[t]
           n == Min2(NumBlocks, BATCH)
           chunk == [chunk |-> c, batches |-> <<>>]
       IN  /\ Receive(t, Carved(c, 1, n))
           /\ counter' = [counter EXCEPT ![t] = CounterFor(n)]
           /\ lastChunk' = Hooked(c, NumBlocks - n)
           /\ minChunkAddr' = LowestWith(c)
           /\ maxChunkAddr' = IF c > maxChunkAddr THEN c ELSE maxChunkAddr
           /\ IF CHUNK_IS_SMALL
              THEN /\ chunks' = InsertAt(chunks, PlaceOfNew, chunk)
                   /\ chunkWithFreeBatches' = IF chunks = <<>> THEN 1 ELSE chunkWithFreeBatches
              ELSE UNCHANGED <<chunks, chunkWithFreeBatches>>
    /\ UNCHANGED <<tempList, firstBatch, listVars, padVars, mapped, squeezeVars>>

Malloc(t) ==
    \/ MallocCached(t) \/ MallocTemp(t) \/ MallocBatch(t) \/ MallocList(t) \/ MallocCarve(t)
    \/ MallocNew(t) \/ FetchPad(t) \/ FetchSystem(t) \/ Install(t)

-----------------------------------------------------------------------------
(* ltfree, move_to_central_cache and release_thread_cache *)

\* add_batch_to_central_cache, if there is a batch: a full array sends it to the
\* next chunk.
RoomAt_Same == chunkWithFreeBatches
RoomAt == IF IsFull(chunkWithFreeBatches) THEN chunkWithFreeBatches + 1
          ELSE chunkWithFreeBatches

AddBatch(batch) ==
    IF batch = <<>> THEN UNCHANGED batchVars
    ELSE IF CHUNK_IS_SMALL
    THEN /\ chunkWithFreeBatches' = RoomAt
         /\ chunks' = [chunks EXCEPT ![RoomAt].batches = Append(@, batch)]
         /\ UNCHANGED firstBatch
    ELSE /\ firstBatch' = <<batch>> \o firstBatch
         /\ UNCHANGED <<chunks, chunkWithFreeBatches>>

GiveBack(b) == users[b] = 1 /\ users' = [users EXCEPT ![b] = 0]

Rest == UNCHANGED <<lastChunk, addrVars, padVars, mapped, pc, mem, squeezeVars>>

Free(t) ==
    /\ pc[t] = "idle" /\ counter[t] > 0
    /\ \E b \in Block : GiveBack(b) /\ freeList' = [freeList EXCEPT ![t] = <<b>> \o @]
    /\ counter' = [counter EXCEPT ![t] = @ - 1]
    /\ UNCHANGED <<tempList, batchVars, listVars>> /\ Rest

\* The cache is full: the list kept aside becomes a batch, the full list is kept aside.
Aside_Dropped(t) == <<>>
Aside(t) == tempList[t]

FreeAndMove(t) ==
    /\ pc[t] = "idle" /\ counter[t] = 0
    /\ AddBatch(Aside(t))
    /\ tempList' = [tempList EXCEPT ![t] = freeList[t]]
    /\ \E b \in Block : GiveBack(b) /\ freeList' = [freeList EXCEPT ![t] = <<b>>]
    /\ counter' = [counter EXCEPT ![t] = BATCH - 1]
    /\ UNCHANGED listVars /\ Rest

\* Blocks in the list that a thread leaves.
LeftBehind_All(t) == BATCH
LeftBehind_FromZero(t) == Len(freeList[t]) - 1
LeftBehind(t) == Len(freeList[t])

\* The thread ends; a new one may start with empty thread-local storage.
Exit(t) ==
    /\ pc[t] = "idle"
    /\ freeList[t] # <<>> \/ tempList[t] # <<>> \/ counter[t] # 0
    /\ AddBatch(tempList[t])
    /\ ccFreeList' = freeList[t] \o ccFreeList
    /\ freeListSize' = freeListSize + (IF freeList[t] = <<>> THEN 0 ELSE LeftBehind(t))
    /\ freeList' = [freeList EXCEPT ![t] = <<>>]
    /\ tempList' = [tempList EXCEPT ![t] = <<>>]
    /\ counter' = [counter EXCEPT ![t] = 0]
    /\ UNCHANGED users /\ Rest

-----------------------------------------------------------------------------
(* ltsqueeze *)

\* The last chunk that there is an entry for in the buffer of counts.
BufferEnd_OneLess == maxChunkAddr - 1
BufferEnd == maxChunkAddr

\* Without two chunks' distance between the addresses no chunk is looked for;
\* otherwise all free blocks of the class are detached from the central cache.
SqueezeDetach(t) ==
    /\ t \in Squeezer /\ pc[t] = "idle" /\ maxChunkAddr - minChunkAddr > 1
    /\ pc' = [pc EXCEPT ![t] = "squeeze"]
    /\ \E size \in PadSize :
          detached' = [detached EXCEPT ![t] =
             [batches |-> firstBatch, list |-> ccFreeList, size |-> freeListSize,
              min |-> minChunkAddr, max |-> BufferEnd, padsz |-> size]]
    /\ firstBatch' = <<>> /\ ccFreeList' = <<>> /\ freeListSize' = 0
    /\ UNCHANGED <<cacheVars, chunks, chunkWithFreeBatches, lastChunk, addrVars, padVars,
                   mapped, mem, releasing, users>>

\* All blocks of d, batches first.
DetachedBlocks(d) == FlattenSeq(d.batches) \o d.list

\* The chunks of which every block is among those of d.
WhollyFree_OneUsed(d) ==
    {c \in Chunk : Cardinality({i \in 1 .. NumBlocks :
                       \E k \in 1 .. Len(DetachedBlocks(d)) : DetachedBlocks(d)[k] = <<c, i>>})
                   >= NumBlocks - 1}
WhollyFree(d) ==
    {c \in Chunk : Cardinality({k \in 1 .. Len(DetachedBlocks(d)) : DetachedBlocks(d)[k][1] = c})
                   = NumBlocks}

\* The first list that is put back: *pbatch, where the regrouped batches were just
\* hooked, is overwritten by the hook of cc->firstBatch.
Rejoined(kept, regrouped) == kept

\* The second: if no block is left over, pblock points to a local variable and not into
\* the list, and cc->freeList is overwritten by NULL; what others have put there meanwhile
\* is lost, but stays counted.
Rehung(left, list) == IF left = <<>> THEN <<>> ELSE left \o list

\* The elements of s that are in S, in their order.
Among(s, S) ==
    LET among[n \in 0 .. Len(s)] ==
            IF n = 0 THEN <<>>
            ELSE IF s[n] \in S THEN Append(among[n - 1], s[n]) ELSE among[n - 1]
    IN  among[Len(s)]

\* Batches without a block of a wholly free chunk stay; of the others and of the
\* list, the remaining blocks are grouped anew, and what does not fill a batch is
\* the list.
SqueezeReturn(t) ==
    /\ pc[t] = "squeeze"
    /\ LET d == detached[t]
           free == WhollyFree(d)
           notFree == {b \in Block : b[1] \notin free}
           mixed == {B \in ToSet(d.batches) : \E k \in 1 .. Len(B) : B[k] \notin notFree}
           kept == Among(d.batches, ToSet(d.batches) \ mixed)
           rest == Among(FlattenSeq(Among(d.batches, mixed)) \o d.list, notFree)
           n == Len(rest) \div BATCH
           regrouped == [i \in 1 .. n |-> SubSeq(rest, (i - 1) * BATCH + 1, i * BATCH)]
           left == SubSeq(rest, n * BATCH + 1, Len(rest))
       IN  /\ releasing' = [releasing EXCEPT ![t] = free]
           /\ IF free = {}
              THEN /\ firstBatch' = d.batches \o firstBatch
                   /\ ccFreeList' = d.list \o ccFreeList
                   /\ freeListSize' = freeListSize + d.size
                   /\ pc' = [pc EXCEPT ![t] = "idle"]
              ELSE /\ firstBatch' = Rejoined(kept, regrouped) \o firstBatch
                   /\ ccFreeList' = Rehung(left, ccFreeList)
                   /\ freeListSize' = freeListSize + Len(left)
                   /\ pc' = [pc EXCEPT ![t] = IF d.padsz = 0 THEN "unmap" ELSE "pad"]
           /\ detached' = [detached EXCEPT ![t] =
                 IF free = {} THEN NULL ELSE [d EXCEPT !.batches = <<>>, !.list = <<>>]]
    /\ UNCHANGED <<cacheVars, chunks, chunkWithFreeBatches, lastChunk, addrVars, padVars,
                   mapped, mem, users>>

AfterRelease(t) ==
    /\ pc' = [pc EXCEPT ![t] = IF releasing'[t] = {} THEN "idle" ELSE "unmap"]
    /\ detached' = [detached EXCEPT ![t] = IF releasing'[t] = {} THEN NULL ELSE @]
    /\ UNCHANGED <<cacheVars, batchVars, listVars, lastChunk, addrVars, mem, users>>

\* Chunks are put off until the pad has its size.
Missing_Ignored(t) == detached[t].padsz
Missing(t) == detached[t].padsz - padSize

PutOff(t) ==
    /\ pc[t] = "pad"
    /\ \E put \in SUBSET releasing[t] :
          /\ Cardinality(put) = IF Missing(t) <= 0 THEN 0
                                ELSE Min2(Missing(t), Cardinality(releasing[t]))
          /\ pad' = pad \cup put
          /\ padSize' = padSize + Cardinality(put)
          /\ releasing' = [releasing EXCEPT ![t] = @ \ put]
    /\ UNCHANGED mapped
    /\ AfterRelease(t)

Unmap(t) ==
    /\ pc[t] = "unmap"
    /\ \E c \in releasing[t] :
          /\ mapped' = mapped \ {c}
          /\ releasing' = [releasing EXCEPT ![t] = @ \ {c}]
    /\ UNCHANGED padVars
    /\ AfterRelease(t)

Squeeze(t) == SqueezeReturn(t) \/ PutOff(t) \/ Unmap(t)

Next ==
    \E t \in Thread : Malloc(t) \/ Free(t) \/ FreeAndMove(t) \/ Exit(t)
                         \/ SqueezeDetach(t) \/ Squeeze(t)

Spec == Init /\ [][Next]_vars

\* With a system that may refuse memory.
NextOrRefused == Next \/ \E t \in Thread : FetchFails(t)

-----------------------------------------------------------------------------
\* Every variable has its type; the position in the list of chunks is in it.
TypeOK ==
    /\ \A t \in Thread :
          /\ freeList[t] \in Seq(Block) /\ tempList[t] \in Seq(Block)
          /\ counter[t] \in 0 .. BATCH
          /\ pc[t] \in {"idle", "chunk", "install", "squeeze", "pad", "unmap"}
          /\ mem[t] \in mapped \cup {NULL} /\ releasing[t] \subseteq mapped
    /\ firstBatch \in Seq(Seq(Block)) /\ ccFreeList \in Seq(Block) /\ freeListSize \in Nat
    /\ \A i \in 1 .. Len(chunks) :
          /\ chunks[i].chunk \in mapped
          /\ Len(Batches(i)) <= NUM_OF_BATCHES
    /\ chunkWithFreeBatches \in 0 .. Len(chunks)
    /\ \A i \in 1 .. Len(lastChunk) :
          lastChunk[i].chunk \in mapped /\ lastChunk[i].left \in 1 .. NumBlocks
    /\ mapped \subseteq Chunk /\ pad \subseteq mapped /\ padSize \in Nat
    /\ users \in [Block -> Nat]

\* The batches in the central cache, wherever they are kept.
CentralBatches == firstBatch \o FlattenSeq([i \in 1 .. Len(chunks) |-> Batches(i)])

\* All sequences of free blocks.
Threads == SetToSeq(Thread)

AllLists ==
    LET each(f) == [i \in DOMAIN Threads |-> f[Threads[i]]]
    IN  CentralBatches \o <<ccFreeList>> \o each(freeList) \o each(tempList)
        \o each([t \in Thread |-> IF detached[t] = NULL THEN <<>>
                                  ELSE DetachedBlocks(detached[t])])
        \o [i \in 1 .. Len(lastChunk) |->
               Carved(lastChunk[i].chunk, NumBlocks - lastChunk[i].left + 1, lastChunk[i].left)]

FreeBlocks == FlattenSeq(AllLists)
Listed == LET all == AllLists IN UNION {ToSet(all[i]) : i \in DOMAIN all}

\* A block is in one place: with the application, or once on one list.
InOnePlace ==
    LET free   == FreeBlocks
        listed == ToSet(free)
    IN  /\ Len(free) = Cardinality(listed)
        /\ \A b \in Block : users[b] + (IF b \in listed THEN 1 ELSE 0) <= 1

\* The chunks that no list knows: put aside, being prepared or being given back.
Idle == pad \cup (UNION {releasing[t] : t \in Thread}) \cup ({mem[t] : t \in Thread} \ {NULL})

\* Memory goes back to the system, or into the pad, only when none of it is with
\* the application or on a list of some thread, though only central lists were
\* looked through.
ReleasedWhenUnused ==
    LET listed == Listed
    IN  \A b \in Block : users[b] > 0 \/ b \in listed => b[1] \in mapped \ Idle

\* Every block of a chunk in service is with the application or on a list.
NothingLost ==
    LET listed == Listed
    IN  \A b \in Block : b[1] \in mapped \ Idle => users[b] > 0 \/ b \in listed

\* The counts never fall short of the lists, whatever ltsqueeze takes from them or drops:
\* no cache and no batch grows beyond BATCH blocks, a counter that a cache starts with is
\* not negative, and where there is a central list its size is not 0, as the code asserts.
CountersCover ==
    /\ \A t \in Thread : pc[t] = "idle" => counter[t] + Len(freeList[t]) <= BATCH
    /\ \A t \in Thread : Len(tempList[t]) <= BATCH
    /\ \A i \in 1 .. Len(CentralBatches) : Len(CentralBatches[i]) <= BATCH
    /\ Len(ccFreeList) <= freeListSize
    /\ padSize = Cardinality(pad)

\* Where ltsqueeze does not run, the counters tell what is in the lists, although lists
\* of several lengths reach a cache by six ways: batches are whole, so that counter
\* starts right whenever one is taken.
CountersExact ==
    /\ \A t \in Thread : pc[t] = "idle" =>
          \/ counter[t] = BATCH - Len(freeList[t])
          \/ counter[t] = 0 /\ freeList[t] = <<>> /\ tempList[t] = <<>>
    /\ \A t \in Thread : tempList[t] # <<>> => Len(tempList[t]) = BATCH
    /\ \A i \in 1 .. Len(CentralBatches) : Len(CentralBatches[i]) = BATCH
    /\ freeListSize = Len(ccFreeList)

\* The arrays of batches fill up from the first chunk on, so that there is a place
\* for every batch: the code asserts it where it moves from a chunk to its
\* neighbours.
ArraysInOrder ==
    \A i \in 1 .. Len(chunks) :
       /\ i < chunkWithFreeBatches => IsFull(i)
       /\ i > chunkWithFreeBatches => Batches(i) = <<>>

\* What a thread counts the free blocks of a chunk in has an entry for every
\* chunk it meets, whatever chunks are added after it has been sized.
BufferFits ==
    \A t \in Thread : detached[t] # NULL =>
       \A b \in ToSet(DetachedBlocks(detached[t])) : b[1] \in detached[t].min .. detached[t].max

\* The pad never holds more than some caller of ltsqueeze asked for.
PadBounded == padSize <= Max(PadSize)

\* Whatever moves between the caches, a block handed out was not in use.
Contract == INSTANCE HeapContract
KeepsContract == Contract!HSpec

\* ltsqueeze is to "return back all left not-for-release blocks to the central
\* cache".
SqueezeLosesNothing == NothingLost
=============================================================================
