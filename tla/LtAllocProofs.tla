---------------------------- MODULE LtAllocProofs ----------------------------
(***************************************************************************)
(* What holds of LtAlloc for every number of threads, chunks and blocks    *)
(* and every length of a batch: the invariants of a size class of ltalloc, *)
(* and that it is a heap.                                                  *)
(*                                                                         *)
(* The invariant gives each block an account: kind says where it is, with  *)
(* the application, in a cache, in the central cache, detached by          *)
(* ltsqueeze, or in a chunk that is being fetched, given back or not in    *)
(* use, and who tells the thread that has it there.  A block has one       *)
(* account only, so lists with different ones have no block in common;     *)
(* NoRepeats says that no list has a block twice.  The accounts are        *)
(* quantified: an action is shown to keep them by naming the new ones,     *)
(* which differ from the old where it moves blocks.                        *)
(*                                                                         *)
(* Inv is what needs no counting; Arrays and Counted are the counts: the   *)
(* arrays of a small class fill up in their order, no batch is longer than *)
(* BATCH, and no list is longer than its counter tells.  Where ltsqueeze   *)
(* does not run, batches are whole and the counters exact; where it does,  *)
(* it may drop blocks that stay counted.  There is a lemma for each action *)
(* and each of the two parts.  The counts rest on the system giving memory *)
(* when it is asked; the last sections show what remains where it may      *)
(* refuse, and that no block is lost without ltsqueeze.                    *)
(***************************************************************************)
EXTENDS LtAlloc, SequenceLemmas

\* Where a block of a chunk in service may be: with the application, in the cache of a
\* thread or the batch it has put aside, in a batch or the list of the central cache, not
\* carved yet, or detached by ltsqueeze, as a part of a batch or of the list.
Serving == {"app", "free", "temp", "batch", "list", "carve", "dbatch", "dlist"}
\* What ltsqueeze has detached.
Detached == [batches : Seq(Seq(Block)), list : Seq(Block), size : Nat, min : Nat,
             max : Nat, padsz : PadSize]
\* The places of a thread that fetches a chunk, and of one that squeezes.
InFetch == {"chunk", "install"}
InSqueeze == {"squeeze", "pad", "unmap"}

\* A chunk of a small class with its array of batches, and one that is being carved.
ArrayEntry == [chunk : Chunk, batches : Seq(Seq(Block))]
UncarvedEntry == [chunk : Chunk, left : 1 .. NumBlocks]
\* The types of the lists: no batch is empty, the central list is not longer than it is
\* said to be, and a block has one user or none.
ListTypes ==
    /\ freeList \in [Thread -> Seq(Block)] /\ tempList \in [Thread -> Seq(Block)]
    /\ counter \in [Thread -> Int]
    /\ firstBatch \in Seq(Seq(Block)) /\ \A j \in 1 .. Len(firstBatch) : firstBatch[j] # <<>>
    /\ ccFreeList \in Seq(Block) /\ freeListSize \in Nat /\ Len(ccFreeList) <= freeListSize
    /\ lastChunk \in Seq(UncarvedEntry)
    /\ users \in [Block -> {0, 1}]
\* A class keeps its batches in arrays or in a list, by its kind.
ArrayTypes ==
    /\ chunks \in Seq(ArrayEntry)
    /\ \A i \in 1 .. Len(chunks) : \A j \in 1 .. Len(Batches(i)) : Batches(i)[j] # <<>>
    /\ IF CHUNK_IS_SMALL THEN firstBatch = <<>> ELSE chunks = <<>>
\* The types of what has to do with chunks, and what a thread has at each of its places:
\* an empty cache where it fetches, a chunk where it installs one, what it has detached
\* where it squeezes.
ChunkTypes ==
    /\ minChunkAddr \in Nat /\ maxChunkAddr \in Nat
    /\ mapped \subseteq Chunk /\ pad \subseteq mapped /\ padSize = Cardinality(pad)
    /\ pc \in [Thread -> {"idle"} \cup InFetch \cup InSqueeze]
    /\ mem \in [Thread -> mapped \cup {NULL}] /\ releasing \in [Thread -> SUBSET mapped]
    /\ detached \in [Thread -> Detached \cup {NULL}]
    /\ \A t \in Thread :
          /\ pc[t] \in InFetch => freeList[t] = <<>> /\ tempList[t] = <<>>
          /\ IF pc[t] = "install" THEN mem[t] \in mapped ELSE mem[t] = NULL
          /\ IF pc[t] \in InSqueeze THEN detached[t] \in Detached ELSE detached[t] = NULL
          /\ pc[t] \in InSqueeze => ~CHUNK_IS_SMALL
          /\ IF pc[t] = "squeeze"
             THEN /\ \A j \in 1 .. Len(detached[t].batches) : detached[t].batches[j] # <<>>
                  /\ Len(detached[t].list) <= detached[t].size
             ELSE pc[t] \in InSqueeze => detached[t].batches = <<>> /\ detached[t].list = <<>>
          /\ pc[t] \notin {"pad", "unmap"} => releasing[t] = {}
Types == ListTypes /\ ArrayTypes /\ ChunkTypes

\* The batches of different chunks have no block in common.
ApartIn(cs) ==
    \A i, j \in 1 .. Len(cs) : \A k \in 1 .. Len(cs[i].batches), l \in 1 .. Len(cs[j].batches) :
       \A x \in 1 .. Len(cs[i].batches[k]), y \in 1 .. Len(cs[j].batches[l]) :
          cs[i].batches[k][x] = cs[j].batches[l][y] => i = j
ArraysApart == ApartIn(chunks)
\* No list has a block twice, nor have two batches of one list a common one.
NoRepeats ==
    /\ \A t \in Thread : Distinct(freeList[t]) /\ Distinct(tempList[t])
    /\ Apart(firstBatch) /\ Distinct(ccFreeList)
    /\ \A i, j \in 1 .. Len(lastChunk) : lastChunk[i].chunk = lastChunk[j].chunk => i = j
    /\ \A t \in Thread : pc[t] = "squeeze" =>
          Apart(detached[t].batches) /\ Distinct(detached[t].list)
    /\ \A i \in 1 .. Len(chunks) : Apart(Batches(i))
    /\ ArraysApart

\* The accounts.  kind[b] says where block b is and who[b] which thread has it there; since
\* b has one kind, a block that stands on a list stands on no other.
AppAcc(kind, who) == \A b \in Block : users[b] = 1 => kind[b] = "app"
FreeAcc(kind, who) ==
    \A t \in Thread : \A k \in 1 .. Len(freeList[t]) :
       kind[freeList[t][k]] = "free" /\ who[freeList[t][k]] = t
TempAcc(kind, who) ==
    \A t \in Thread : \A k \in 1 .. Len(tempList[t]) :
       kind[tempList[t][k]] = "temp" /\ who[tempList[t][k]] = t
BatchAcc(kind, who) ==
    \A j \in 1 .. Len(firstBatch) : \A k \in 1 .. Len(firstBatch[j]) :
       kind[firstBatch[j][k]] = "batch"
ArrayAcc(kind, who) ==
    \A i \in 1 .. Len(chunks) : \A j \in 1 .. Len(Batches(i)) :
       \A k \in 1 .. Len(Batches(i)[j]) : kind[Batches(i)[j][k]] = "batch"
ListAcc(kind, who) == \A k \in 1 .. Len(ccFreeList) : kind[ccFreeList[k]] = "list"
\* The last blocks of a chunk that is being carved.
CarveAcc(kind, who) ==
    \A i \in 1 .. Len(lastChunk) : \A m \in NumBlocks - lastChunk[i].left + 1 .. NumBlocks :
       kind[<<lastChunk[i].chunk, m>>] = "carve"
\* What thread t has detached is its own and of chunks that its buffer has a place for.
DetachedAs(kind, who, t, d) ==
    /\ \A j \in 1 .. Len(d.batches) : \A k \in 1 .. Len(d.batches[j]) :
          /\ kind[d.batches[j][k]] = "dbatch" /\ who[d.batches[j][k]] = t
          /\ d.batches[j][k][1] \in d.min .. d.max
    /\ \A k \in 1 .. Len(d.list) :
          /\ kind[d.list[k]] = "dlist" /\ who[d.list[k]] = t
          /\ d.list[k][1] \in d.min .. d.max
DetachAcc(kind, who) ==
    \A t \in Thread : pc[t] = "squeeze" => DetachedAs(kind, who, t, detached[t])
\* All blocks of a chunk that is not in service: one that a thread installs, that it gives
\* back, that is put aside, or that is the system's.
MemAcc(kind, who) ==
    \A t \in Thread : pc[t] = "install" => \A m \in 1 .. NumBlocks :
       kind[<<mem[t], m>>] = "mem" /\ who[<<mem[t], m>>] = t
ReleasingAcc(kind, who) ==
    \A t \in Thread : \A c \in releasing[t] : \A m \in 1 .. NumBlocks :
       kind[<<c, m>>] = "releasing" /\ who[<<c, m>>] = t
PadAcc(kind, who) == \A c \in pad : \A m \in 1 .. NumBlocks : kind[<<c, m>>] = "pad"
SystemAcc(kind, who) ==
    \A c \in Chunk \ mapped : \A m \in 1 .. NumBlocks : kind[<<c, m>>] = "system"
\* A chunk of which a block is in service is between the addresses of the class, and one
\* of a small class is listed.
ServingAcc(kind, who) ==
    \A b \in Block : kind[b] \in Serving =>
       /\ 1 <= minChunkAddr /\ minChunkAddr <= b[1] /\ b[1] <= maxChunkAddr
       /\ CHUNK_IS_SMALL => \E i \in 1 .. Len(chunks) : chunks[i].chunk = b[1]
Account(kind, who) ==
    /\ AppAcc(kind, who) /\ FreeAcc(kind, who) /\ TempAcc(kind, who) /\ BatchAcc(kind, who)
    /\ ArrayAcc(kind, who) /\ ListAcc(kind, who) /\ CarveAcc(kind, who)
    /\ DetachAcc(kind, who) /\ MemAcc(kind, who) /\ ReleasingAcc(kind, who)
    /\ PadAcc(kind, who) /\ SystemAcc(kind, who) /\ ServingAcc(kind, who)

\* A batch of n blocks, and a counter c of a cache of n: together they are at most BATCH.
\* Where ltsqueeze does not run they are BATCH exactly; where it does, a list may be shorter
\* than it is counted.
Whole(n) == n <= BATCH /\ (Squeezer = {} => n = BATCH)
Told(c, n) == c + n <= BATCH /\ (Squeezer = {} => c + n = BATCH)

\* The counter of a thread tells the length of its cache, unless the thread has never
\* allocated or is fetching; what it has put aside is a batch.
CacheCounted(t) ==
    /\ counter[t] \in 0 .. BATCH
    /\ IF pc[t] \in InFetch THEN counter[t] = 1
       ELSE \/ Told(counter[t], Len(freeList[t]))
            \/ counter[t] = 0 /\ freeList[t] = <<>> /\ tempList[t] = <<>>
    /\ tempList[t] # <<>> => Whole(Len(tempList[t]))
\* Of a thread that squeezes, and what it has detached.
DetachedCounted(t) ==
    /\ pc[t] \in InSqueeze => Squeezer # {}
    /\ pc[t] = "squeeze" =>
          \A j \in 1 .. Len(detached[t].batches) : Len(detached[t].batches[j]) <= BATCH
\* The batches of the central cache.
CentralCounted ==
    /\ \A j \in 1 .. Len(firstBatch) : Whole(Len(firstBatch[j]))
    /\ \A i \in 1 .. Len(chunks) : \A j \in 1 .. Len(Batches(i)) : Whole(Len(Batches(i)[j]))
Counted == (\A t \in Thread : CacheCounted(t) /\ DetachedCounted(t)) /\ CentralCounted
\* Where ltsqueeze does not run the central list is as long as it is said to be.
ListTold == Squeezer = {} => freeListSize = Len(ccFreeList)
\* The arrays before that of chunkWithFreeBatches are full and those behind it empty.
Arrays ==
    /\ chunkWithFreeBatches \in 0 .. Len(chunks)
    /\ chunks # <<>> => chunkWithFreeBatches # 0
    /\ \A i \in 1 .. Len(chunks) :
       /\ Len(Batches(i)) <= NUM_OF_BATCHES
       /\ i < chunkWithFreeBatches => IsFull(i)
       /\ i > chunkWithFreeBatches => Batches(i) = <<>>

-----------------------------------------------------------------------------
\* Where a block of sequences that are apart stands.
LEMMA ApartPlaces ==
  ASSUME NEW ss, Apart(ss), NEW i \in 1 .. Len(ss), NEW j \in 1 .. Len(ss),
         NEW k \in 1 .. Len(ss[i]), NEW l \in 1 .. Len(ss[j]), ss[i][k] = ss[j][l]
  PROVE  i = j /\ k = l
BY Zenon DEF Apart

\* Only blocks of M change hands.
Moves(kind, who, k2, w2, M) ==
    \A b \in Block \ M : k2[b] = kind[b] /\ w2[b] = who[b]

\* What stands on any list of free blocks, or waits to be carved, is a block of a chunk.
LEMMA ListedBlocks ==
  ASSUME Types
  PROVE  /\ \A t \in Thread : \A k \in 1 .. Len(freeList[t]) : freeList[t][k] \in Block
         /\ \A t \in Thread : \A k \in 1 .. Len(tempList[t]) : tempList[t][k] \in Block
         /\ \A j \in 1 .. Len(firstBatch) : \A k \in 1 .. Len(firstBatch[j]) :
               firstBatch[j][k] \in Block
         /\ \A i \in 1 .. Len(chunks) : \A j \in 1 .. Len(Batches(i)) :
               \A k \in 1 .. Len(Batches(i)[j]) : Batches(i)[j][k] \in Block
         /\ \A k \in 1 .. Len(ccFreeList) : ccFreeList[k] \in Block
         /\ \A i \in 1 .. Len(lastChunk) :
               \A m \in NumBlocks - lastChunk[i].left + 1 .. NumBlocks :
                  <<lastChunk[i].chunk, m>> \in Block
         /\ \A t \in Thread : pc[t] = "squeeze" =>
               /\ \A j \in 1 .. Len(detached[t].batches) :
                     \A k \in 1 .. Len(detached[t].batches[j]) : detached[t].batches[j][k] \in Block
               /\ \A k \in 1 .. Len(detached[t].list) : detached[t].list[k] \in Block
         /\ \A c \in Chunk : \A m \in 1 .. NumBlocks : <<c, m>> \in Block
<1>1. \A t \in Thread : freeList[t] \in Seq(Block) /\ tempList[t] \in Seq(Block)
  BY DEF Types, ListTypes
<1>2. \A j \in 1 .. Len(firstBatch) : firstBatch[j] \in Seq(Block)
  BY DEF Types, ListTypes
<1>3. \A i \in 1 .. Len(chunks) : \A j \in 1 .. Len(Batches(i)) : Batches(i)[j] \in Seq(Block)
  <2>1. \A i \in 1 .. Len(chunks) : Batches(i) \in Seq(Seq(Block))
    <3>1. \A i \in 1 .. Len(chunks) : chunks[i] \in ArrayEntry
      BY DEF Types, ArrayTypes
    <3> QED
      BY <3>1 DEF Batches, ArrayEntry
  <2> QED
    BY <2>1
<1>4. ccFreeList \in Seq(Block)
  BY DEF Types, ListTypes
<1>5. \A i \in 1 .. Len(lastChunk) : lastChunk[i].chunk \in Chunk
         /\ lastChunk[i].left \in 1 .. NumBlocks
  <2>1. \A i \in 1 .. Len(lastChunk) : lastChunk[i] \in UncarvedEntry
    BY DEF Types, ListTypes
  <2> QED
    BY <2>1 DEF UncarvedEntry
<1>6. \A t \in Thread : pc[t] = "squeeze" =>
         detached[t].batches \in Seq(Seq(Block)) /\ detached[t].list \in Seq(Block)
  BY DEF Types, ChunkTypes, InSqueeze, Detached
<1>7. \A c \in Chunk : \A m \in 1 .. NumBlocks : <<c, m>> \in Block
  BY DEF Block
<1>8. \A i \in 1 .. Len(lastChunk) :
         \A m \in NumBlocks - lastChunk[i].left + 1 .. NumBlocks : m \in 1 .. NumBlocks
  BY <1>5, LtAllocAssumption
<1>9. \A t \in Thread : pc[t] = "squeeze" => \A j \in 1 .. Len(detached[t].batches) :
         detached[t].batches[j] \in Seq(Block)
  BY <1>6
<1> QED
  <2>1. \A q \in Seq(Block) : \A k \in 1 .. Len(q) : q[k] \in Block
    OBVIOUS
  <2> QED
    BY <1>1, <1>2, <1>3, <1>4, <1>5, <1>6, <1>7, <1>8, <1>9, <2>1

\* The accounts that hold after a step when no block that was at a place of S is at
\* another one: that of each list which the step leaves as it is.
StillAccounted(k2, w2, S) ==
    /\ "free" \notin S /\ UNCHANGED freeList => FreeAcc(k2, w2)'
    /\ "temp" \notin S /\ UNCHANGED tempList => TempAcc(k2, w2)'
    /\ "batch" \notin S /\ UNCHANGED firstBatch => BatchAcc(k2, w2)'
    /\ "batch" \notin S /\ UNCHANGED chunks => ArrayAcc(k2, w2)'
    /\ "list" \notin S /\ UNCHANGED ccFreeList => ListAcc(k2, w2)'
    /\ "carve" \notin S /\ UNCHANGED lastChunk => CarveAcc(k2, w2)'
    /\ /\ "dbatch" \notin S /\ "dlist" \notin S
       /\ \A t \in Thread : pc'[t] = "squeeze" => pc[t] = "squeeze" /\ detached'[t] = detached[t]
       => DetachAcc(k2, w2)'
    /\ /\ "mem" \notin S
       /\ \A t \in Thread : pc'[t] = "install" => pc[t] = "install" /\ mem'[t] = mem[t]
       => MemAcc(k2, w2)'
    /\ "releasing" \notin S /\ UNCHANGED releasing => ReleasingAcc(k2, w2)'
    /\ "pad" \notin S /\ UNCHANGED pad => PadAcc(k2, w2)'
    /\ "system" \notin S /\ UNCHANGED mapped => SystemAcc(k2, w2)'

\* The account of what ltsqueeze has detached, when its own blocks keep theirs.
LEMMA DetachedStays ==
  ASSUME NEW kind, NEW who, NEW k2, NEW w2, NEW t, NEW d \in Detached,
         DetachedAs(kind, who, t, d),
         \A b \in Block : kind[b] \in {"dbatch", "dlist"} /\ who[b] = t
            => k2[b] = kind[b] /\ w2[b] = who[b]
  PROVE  DetachedAs(k2, w2, t, d)
<1>1. d.batches \in Seq(Seq(Block)) /\ d.list \in Seq(Block)
  BY DEF Detached
<1>2. ASSUME NEW j \in 1 .. Len(d.batches), NEW k \in 1 .. Len(d.batches[j])
      PROVE  /\ k2[d.batches[j][k]] = "dbatch" /\ w2[d.batches[j][k]] = t
             /\ d.batches[j][k][1] \in d.min .. d.max
  <2>1. d.batches[j] \in Seq(Block)
    BY <1>1
  <2>2. d.batches[j][k] \in Block
    BY <2>1
  <2>3. /\ kind[d.batches[j][k]] = "dbatch" /\ who[d.batches[j][k]] = t
        /\ d.batches[j][k][1] \in d.min .. d.max
    BY DEF DetachedAs
  <2> QED
    BY <2>2, <2>3
<1>3. ASSUME NEW k \in 1 .. Len(d.list)
      PROVE  /\ k2[d.list[k]] = "dlist" /\ w2[d.list[k]] = t
             /\ d.list[k][1] \in d.min .. d.max
  <2>1. d.list[k] \in Block
    BY <1>1
  <2> QED
    BY <2>1 DEF DetachedAs
<1> QED
  BY <1>2, <1>3 DEF DetachedAs

\* The part of the accounts that a step leaves alone: the lists none of whose blocks is
\* among those that move, and which the step does not write.
LEMMA Kept ==
  ASSUME Types, NEW kind, NEW who, NEW k2, NEW w2, Account(kind, who), NEW M, NEW S,
         Moves(kind, who, k2, w2, M), \A b \in Block : b \in M => kind[b] \in S
  PROVE  StillAccounted(k2, w2, S)
<1> DEFINE stays(b) == k2[b] = kind[b] /\ w2[b] = who[b]
<1>0. \A b \in Block : kind[b] \notin S => stays(b)
  BY DEF Moves
<1> HIDE DEF stays
<1>1. "free" \notin S /\ UNCHANGED freeList => FreeAcc(k2, w2)'
  BY <1>0, ListedBlocks DEF Account, FreeAcc, stays
<1>2. "temp" \notin S /\ UNCHANGED tempList => TempAcc(k2, w2)'
  BY <1>0, ListedBlocks DEF Account, TempAcc, stays
<1>3. "batch" \notin S /\ UNCHANGED firstBatch => BatchAcc(k2, w2)'
  BY <1>0, ListedBlocks DEF Account, BatchAcc, stays
<1>4. "batch" \notin S /\ UNCHANGED chunks => ArrayAcc(k2, w2)'
  <2>1. ASSUME "batch" \notin S, NEW i \in 1 .. Len(chunks), NEW j \in 1 .. Len(Batches(i)),
               NEW k \in 1 .. Len(Batches(i)[j])
        PROVE  k2[Batches(i)[j][k]] = "batch"
    <3>1. Batches(i)[j][k] \in Block
      BY ListedBlocks
    <3>2. kind[Batches(i)[j][k]] = "batch"
      BY DEF Account, ArrayAcc
    <3> QED
      BY <1>0, <2>1, <3>1, <3>2, SMTT(20) DEF stays
  <2> QED
    <3> SUFFICES ASSUME "batch" \notin S, UNCHANGED chunks
                 PROVE  ArrayAcc(k2, w2)'
      OBVIOUS
    <3>1. \A i : Batches(i)' = Batches(i)
      BY DEF Batches
    <3> QED
      BY <2>1, <3>1, ZenonT(30) DEF ArrayAcc
<1>5. "list" \notin S /\ UNCHANGED ccFreeList => ListAcc(k2, w2)'
  BY <1>0, ListedBlocks DEF Account, ListAcc, stays
<1>6. "carve" \notin S /\ UNCHANGED lastChunk => CarveAcc(k2, w2)'
  BY <1>0, ListedBlocks DEF Account, CarveAcc, stays
<1>7. ASSUME "dbatch" \notin S, "dlist" \notin S, NEW t \in Thread,
             pc'[t] = "squeeze" => pc[t] = "squeeze" /\ detached'[t] = detached[t],
             pc'[t] = "squeeze"
      PROVE  DetachedAs(k2, w2, t, detached'[t])
  <2>1. pc[t] = "squeeze" /\ detached'[t] = detached[t]
    BY <1>7
  <2>2. detached[t] \in Detached /\ DetachedAs(kind, who, t, detached[t])
    BY <2>1 DEF Account, DetachAcc, Types, ChunkTypes, InSqueeze
  <2>3. \A b \in Block : kind[b] \in {"dbatch", "dlist"} => k2[b] = kind[b] /\ w2[b] = who[b]
    BY <1>0, <1>7 DEF stays
  <2>4. DetachedAs(k2, w2, t, detached[t])
    BY <2>2, <2>3, DetachedStays
  <2> QED
    BY <2>1, <2>4
<1>8. ASSUME "mem" \notin S, NEW t \in Thread, pc'[t] = "install", NEW m \in 1 .. NumBlocks,
             pc[t] = "install" /\ mem'[t] = mem[t]
      PROVE  k2[<<mem'[t], m>>] = "mem" /\ w2[<<mem'[t], m>>] = t
  <2>1. mem[t] \in Chunk
    BY <1>8 DEF Types, ChunkTypes
  <2> QED
    BY <1>0, <1>8, <2>1, ListedBlocks DEF Account, MemAcc, stays
<1>9. "releasing" \notin S /\ UNCHANGED releasing => ReleasingAcc(k2, w2)'
  <2>1. \A t \in Thread : releasing[t] \subseteq Chunk
    BY DEF Types, ChunkTypes
  <2> QED
    BY <1>0, <2>1, ListedBlocks DEF Account, ReleasingAcc, stays
<1>10. "pad" \notin S /\ UNCHANGED pad => PadAcc(k2, w2)'
  <2>1. pad \subseteq Chunk
    BY DEF Types, ChunkTypes
  <2> QED
    BY <1>0, <2>1, ListedBlocks DEF Account, PadAcc, stays
<1>11. "system" \notin S /\ UNCHANGED mapped => SystemAcc(k2, w2)'
  BY <1>0, ListedBlocks DEF Account, SystemAcc, stays
<1> QED
  BY <1>1, <1>2, <1>3, <1>4, <1>5, <1>6, <1>7, <1>8, <1>9, <1>10, <1>11
     DEF StillAccounted, DetachAcc, MemAcc

\* The accounts when the blocks of list become those of thread t, which hands the
\* first one out.
HandsOut(kind, who, k2, w2, t, list) ==
    /\ list \in Seq(Block) /\ list # <<>> /\ Distinct(list)
    /\ \A k \in 1 .. Len(list) : kind[list[k]] # "app"
    /\ k2[list[1]] = "app"
    /\ \A k \in 2 .. Len(list) : k2[list[k]] = "free" /\ w2[list[k]] = t
    /\ \A b \in Block : kind[b] = "app" => k2[b] = "app"
    /\ \A b \in Block : kind[b] = "free" /\ who[b] # t => k2[b] = "free" /\ w2[b] = who[b]

\* What fetch_from_central_cache returns to ltmalloc: its first block goes to the
\* application, the others become the cache of the thread.
LEMMA Received ==
  ASSUME Types, NoRepeats, NEW kind, NEW who, Account(kind, who), NEW k2, NEW w2,
         NEW t \in Thread, NEW list, HandsOut(kind, who, k2, w2, t, list), Receive(t, list)
  PROVE  /\ FreeAcc(k2, w2)' /\ AppAcc(k2, w2)'
         /\ freeList' \in [Thread -> Seq(Block)] /\ users' \in [Block -> {0, 1}]
         /\ \A u \in Thread : Distinct(freeList'[u])
         /\ users[list[1]] = 0 /\ users' = [users EXCEPT ![list[1]] = 1] /\ list[1] \in Block
         /\ Len(freeList'[t]) = Len(list) - 1
         /\ \A u \in Thread \ {t} : freeList'[u] = freeList[u]
<1>0. /\ list \in Seq(Block) /\ list # <<>> /\ Distinct(list)
      /\ \A k \in 1 .. Len(list) : kind[list[k]] # "app"
      /\ k2[list[1]] = "app"
      /\ \A k \in 2 .. Len(list) : k2[list[k]] = "free" /\ w2[list[k]] = t
      /\ \A b \in Block : kind[b] = "app" => k2[b] = "app"
      /\ \A b \in Block : kind[b] = "free" /\ who[b] # t => k2[b] = "free" /\ w2[b] = who[b]
  BY DEF HandsOut
<1>1. /\ Len(list) \in Nat /\ Len(list) >= 1 /\ Head(list) = list[1] /\ list[1] \in Block
      /\ Tail(list) \in Seq(Block) /\ Len(Tail(list)) = Len(list) - 1
      /\ \A k \in 1 .. Len(Tail(list)) : Tail(list)[k] = list[k + 1] /\ k + 1 \in 2 .. Len(list)
      /\ \A k \in 1 .. Len(list) : list[k] \in Block
  BY <1>0
<1>2. /\ freeList \in [Thread -> Seq(Block)] /\ users \in [Block -> {0, 1}]
      /\ \A u \in Thread : freeList[u] \in Seq(Block)
  BY DEF Types, ListTypes
<1>3. users[list[1]] = 0
  BY <1>0, <1>1, <1>2 DEF Account, AppAcc
<1>4. freeList' = [freeList EXCEPT ![t] = Tail(list)] /\ users' = [users EXCEPT ![list[1]] = 1]
  <2>1. users' = [users EXCEPT ![list[1]] = users[list[1]] + 1]
    BY <1>1 DEF Receive
  <2>2. users[list[1]] + 1 = 1
    BY <1>3
  <2> QED
    BY <1>1, <2>1, <2>2 DEF Receive
<1>5. freeList' \in [Thread -> Seq(Block)] /\ users' \in [Block -> {0, 1}]
  BY <1>1, <1>2, <1>4
<1>6. /\ freeList'[t] = Tail(list)
      /\ \A u \in Thread : u # t => freeList'[u] = freeList[u]
  BY <1>2, <1>4
<1>7. Distinct(Tail(list))
  <2> SUFFICES ASSUME NEW i \in 1 .. Len(Tail(list)), NEW j \in 1 .. Len(Tail(list)),
                      Tail(list)[i] = Tail(list)[j]
               PROVE  i = j
    BY DEF Distinct
  <2>1. i + 1 = j + 1
    BY <1>0, <1>1 DEF Distinct
  <2> QED
    BY <1>1, <2>1
<1>8. \A u \in Thread : Distinct(freeList'[u])
  <2> TAKE u \in Thread
  <2> QED
    BY <1>6, <1>7 DEF NoRepeats
<1>9. FreeAcc(k2, w2)'
  <2>1. ASSUME NEW u \in Thread, NEW k \in 1 .. Len(freeList'[u])
        PROVE  k2[freeList'[u][k]] = "free" /\ w2[freeList'[u][k]] = u
    <3>1. CASE u = t
      BY <1>0, <1>1, <1>6, <2>1, <3>1
    <3>2. CASE u # t
      <4>1. /\ kind[freeList[u][k]] = "free" /\ who[freeList[u][k]] = u
            /\ freeList[u][k] \in Block
        BY <1>6, <2>1, <3>2, ListedBlocks DEF Account, FreeAcc
      <4> QED
        BY <1>0, <1>6, <3>2, <4>1
    <3> QED
      BY <3>1, <3>2
  <2> QED
    BY <2>1 DEF FreeAcc
<1>10. AppAcc(k2, w2)'
  <2>1. ASSUME NEW b \in Block, users'[b] = 1
        PROVE  k2[b] = "app"
    <3>1. b = list[1] \/ users[b] = 1
      BY <1>2, <1>4, <2>1
    <3> QED
      BY <1>0, <3>1 DEF Account, AppAcc
  <2> QED
    BY <2>1 DEF AppAcc
<1> QED
  BY <1>1, <1>3, <1>4, <1>5, <1>6, <1>8, <1>9, <1>10

\* Addresses and arrays that serve more chunks than before, and blocks that serve
\* only where they did.
LEMMA StillServing ==
  ASSUME NEW kind, NEW who, ServingAcc(kind, who), NEW k2, NEW w2, 
         \A b \in Block : k2[b] \in Serving => kind[b] \in Serving,
         UNCHANGED <<minChunkAddr, maxChunkAddr>>,
         UNCHANGED chunks \/ (/\ Len(chunks') = Len(chunks)
                              /\ \A i \in 1 .. Len(chunks) : chunks'[i].chunk = chunks[i].chunk)
  PROVE  ServingAcc(k2, w2)'
<1>1. ASSUME NEW b \in Block, k2[b] \in Serving
      PROVE  /\ 1 <= minChunkAddr' /\ minChunkAddr' <= b[1] /\ b[1] <= maxChunkAddr'
             /\ CHUNK_IS_SMALL => \E i \in 1 .. Len(chunks') : chunks'[i].chunk = b[1]
  BY <1>1 DEF ServingAcc
<1> QED
  BY <1>1 DEF ServingAcc

\* Every block has one account: where it is, and whose.
Accounted == \E kind, who : Account(kind, who)
\* The step of a small class relies on the order of its arrays.
SmallInv == CHUNK_IS_SMALL => Arrays /\ Counted
\* The part of the invariant that needs no counts.
Inv == Types /\ NoRepeats /\ Accounted

\* A thread that takes a list from somewhere and hands out its first block: every account
\* but that of the list it was taken from is kept.
LEMMA Handed ==
  ASSUME Types, NoRepeats, NEW kind, NEW who, Account(kind, who),
         NEW t \in Thread, NEW list \in Seq(Block), list # <<>>, Distinct(list),
         Receive(t, list),
         NEW s \in Serving \ {"app"}, \A k \in 1 .. Len(list) : kind[list[k]] = s,
         s = "free" => \A k \in 1 .. Len(list) : who[list[k]] = t,
         s # "dbatch", s # "dlist",
         UNCHANGED <<minChunkAddr, maxChunkAddr, pad, mapped, pc, mem, detached, releasing>>,
         UNCHANGED chunks \/ (/\ Len(chunks') = Len(chunks)
                              /\ \A i \in 1 .. Len(chunks) : chunks'[i].chunk = chunks[i].chunk)
  PROVE  /\ freeList' \in [Thread -> Seq(Block)] /\ users' \in [Block -> {0, 1}]
         /\ \A u \in Thread : Distinct(freeList'[u])
         /\ users[list[1]] = 0 /\ users' = [users EXCEPT ![list[1]] = 1] /\ list[1] \in Block
         /\ Len(freeList'[t]) = Len(list) - 1
         /\ \A u \in Thread \ {t} : freeList'[u] = freeList[u]
         /\ \E k2, w2 :
               /\ FreeAcc(k2, w2)' /\ AppAcc(k2, w2)' /\ DetachAcc(k2, w2)' /\ MemAcc(k2, w2)'
               /\ ReleasingAcc(k2, w2)' /\ PadAcc(k2, w2)' /\ SystemAcc(k2, w2)'
               /\ ServingAcc(k2, w2)'
               /\ s # "temp" /\ UNCHANGED tempList => TempAcc(k2, w2)'
               /\ s # "batch" /\ UNCHANGED firstBatch => BatchAcc(k2, w2)'
               /\ s # "batch" /\ UNCHANGED chunks => ArrayAcc(k2, w2)'
               /\ s # "list" /\ UNCHANGED ccFreeList => ListAcc(k2, w2)'
               /\ s # "carve" /\ UNCHANGED lastChunk => CarveAcc(k2, w2)'
               /\ \A b \in Block : (\A k \in 1 .. Len(list) : b # list[k])
                     => k2[b] = kind[b] /\ w2[b] = who[b]
<1>0. /\ Len(list) \in Nat /\ Len(list) >= 1 /\ 1 \in 1 .. Len(list)
      /\ \A k \in 2 .. Len(list) : k \in 1 .. Len(list) /\ k # 1
      /\ \A k \in 1 .. Len(list) : k = 1 \/ k \in 2 .. Len(list)
      /\ \A k \in 1 .. Len(list) : list[k] \in Block
  OBVIOUS
<1> DEFINE M == {list[k] : k \in 1 .. Len(list)}
           rest(b) == \E k \in 2 .. Len(list) : b = list[k]
<1>1. PICK k2 : k2 = [b \in Block |-> IF b = list[1] THEN "app"
                                      ELSE IF rest(b) THEN "free" ELSE kind[b]]
  OBVIOUS
<1>2. PICK w2 : w2 = [b \in Block |-> IF rest(b) THEN t ELSE who[b]]
  OBVIOUS
<1>3. \A k \in 2 .. Len(list) : list[k] # list[1] /\ rest(list[k])
  BY <1>0 DEF Distinct
<1>4. /\ k2[list[1]] = "app"
      /\ \A k \in 2 .. Len(list) : k2[list[k]] = "free" /\ w2[list[k]] = t
  BY <1>0, <1>1, <1>2, <1>3
<1>5. \A b \in Block : b \notin M => k2[b] = kind[b] /\ w2[b] = who[b]
  BY <1>0, <1>1, <1>2
<1>6. \A b \in M : kind[b] = s
  OBVIOUS
<1>7. \A b \in Block : kind[b] = "app" => k2[b] = "app"
  BY <1>5, <1>6
<1>8. \A b \in Block : kind[b] = "free" /\ who[b] # t => k2[b] = "free" /\ w2[b] = who[b]
  BY <1>5, <1>6
<1>9. \A k \in 1 .. Len(list) : kind[list[k]] # "app"
  OBVIOUS
<1> HIDE DEF M, rest
<1>10. /\ FreeAcc(k2, w2)' /\ AppAcc(k2, w2)'
       /\ freeList' \in [Thread -> Seq(Block)] /\ users' \in [Block -> {0, 1}]
       /\ \A u \in Thread : Distinct(freeList'[u])
       /\ users[list[1]] = 0 /\ users' = [users EXCEPT ![list[1]] = 1] /\ list[1] \in Block
       /\ Len(freeList'[t]) = Len(list) - 1
       /\ \A u \in Thread \ {t} : freeList'[u] = freeList[u]
  <2>1. HandsOut(kind, who, k2, w2, t, list)
    BY <1>4, <1>7, <1>8, <1>9 DEF HandsOut
  <2> QED
    BY <2>1, Received
<1>11. ServingAcc(k2, w2)'
  <2>1. ServingAcc(kind, who)
    BY DEF Account
  <2>2. \A b \in Block : k2[b] \in Serving => kind[b] \in Serving
    BY <1>5, <1>6
  <2> QED
    BY <2>1, <2>2, StillServing
<1>12. /\ s # "temp" /\ UNCHANGED tempList => TempAcc(k2, w2)'
       /\ s # "batch" /\ UNCHANGED firstBatch => BatchAcc(k2, w2)'
       /\ s # "batch" /\ UNCHANGED chunks => ArrayAcc(k2, w2)'
       /\ s # "list" /\ UNCHANGED ccFreeList => ListAcc(k2, w2)'
       /\ s # "carve" /\ UNCHANGED lastChunk => CarveAcc(k2, w2)'
       /\ DetachAcc(k2, w2)' /\ MemAcc(k2, w2)' /\ ReleasingAcc(k2, w2)' /\ PadAcc(k2, w2)'
       /\ SystemAcc(k2, w2)'
  <2>1. Moves(kind, who, k2, w2, M)
    BY <1>5 DEF Moves
  <2>2. \A b \in Block : b \in M => kind[b] \in {s}
    BY <1>6
  <2>3. StillAccounted(k2, w2, {s})
    BY <2>1, <2>2, Kept, Zenon
  <2>4. "mem" # s /\ "releasing" # s /\ "pad" # s /\ "system" # s
    BY DEF Serving
  <2> QED
    BY <2>3, <2>4 DEF StillAccounted
<1>13. \A b \in Block : (\A k \in 1 .. Len(list) : b # list[k])
          => k2[b] = kind[b] /\ w2[b] = who[b]
  BY <1>5 DEF M
<1> QED
  BY <1>10, <1>11, <1>12, <1>13

\* The chunks and the threads' places, when a thread that is not fetching a chunk
\* changes lists only.
LEMMA ChunksUntouched ==
  ASSUME Types, UNCHANGED <<addrVars, padVars, mapped, pc, mem, squeezeVars>>,
         \A u \in Thread : pc[u] \in InFetch
               => freeList'[u] = freeList[u] /\ tempList'[u] = tempList[u]
  PROVE  ChunkTypes'
BY DEF Types, ChunkTypes, addrVars, padVars, squeezeVars

\* What is said of the batches of the central cache, when they stay.
LEMMA ArraysUntouched ==
  ASSUME Types, NoRepeats, UNCHANGED <<chunks, firstBatch>>
  PROVE  /\ ArrayTypes' /\ ArraysApart'
         /\ \A i \in 1 .. Len(chunks') : Apart(Batches(i)')
<1>1. \A i : Batches(i)' = Batches(i)
  BY DEF Batches
<1>2. ArraysApart'
  BY DEF NoRepeats, ArraysApart
<1>3. \A i \in 1 .. Len(chunks') : Apart(Batches(i)')
  BY <1>1 DEF NoRepeats
<1> QED
  BY <1>1, <1>2, <1>3 DEF Types, ArrayTypes

-----------------------------------------------------------------------------
\* ltmalloc from the cache of the thread.
LEMMA CachedKeeps ==
  ASSUME Inv, NEW t \in Thread, MallocCached(t)
  PROVE  Inv'
<1> DEFINE list == freeList[t]
<1>0. Types /\ NoRepeats /\ pc[t] = "idle" /\ list # <<>> /\ Receive(t, list)
      /\ UNCHANGED <<tempList, batchVars, listVars, lastChunk, addrVars, padVars, mapped, pc,
                     mem, squeezeVars>>
      /\ counter' = [counter EXCEPT ![t] = @ + 1]
  BY DEF Inv, MallocCached
<1>1. PICK kind, who : Account(kind, who)
  BY DEF Inv, Accounted
<1>2. list \in Seq(Block) /\ Distinct(list)
      /\ \A k \in 1 .. Len(list) : kind[list[k]] = "free" /\ who[list[k]] = t
  BY <1>0, <1>1 DEF Types, ListTypes, NoRepeats, Account, FreeAcc
<1>3. "free" \in Serving \ {"app"}
  BY DEF Serving
<1>4. UNCHANGED <<minChunkAddr, maxChunkAddr, pad, mapped, pc, mem, detached, releasing>>
      /\ UNCHANGED <<tempList, firstBatch, chunks, ccFreeList, freeListSize, lastChunk>>
  BY <1>0 DEF batchVars, listVars, addrVars, padVars, squeezeVars
<1> HIDE DEF list
<1>5. /\ freeList' \in [Thread -> Seq(Block)] /\ users' \in [Block -> {0, 1}]
      /\ \A u \in Thread : Distinct(freeList'[u])
      /\ \A u \in Thread \ {t} : freeList'[u] = freeList[u]
      /\ \E k2, w2 :
            /\ FreeAcc(k2, w2)' /\ AppAcc(k2, w2)' /\ DetachAcc(k2, w2)' /\ MemAcc(k2, w2)'
            /\ ReleasingAcc(k2, w2)' /\ PadAcc(k2, w2)' /\ SystemAcc(k2, w2)'
            /\ ServingAcc(k2, w2)'
            /\ TempAcc(k2, w2)' /\ BatchAcc(k2, w2)' /\ ArrayAcc(k2, w2)' /\ ListAcc(k2, w2)'
            /\ CarveAcc(k2, w2)'
  BY <1>0, <1>1, <1>2, <1>3, <1>4, Handed
<1>6. Accounted'
  BY <1>5 DEF Accounted, Account
<1>7. Types'
  <2>1. counter' \in [Thread -> Int]
    BY <1>0 DEF Types, ListTypes
  <2>2. ListTypes'
    BY <1>0, <1>4, <1>5, <2>1 DEF Types, ListTypes
  <2>3. ArrayTypes'
    BY <1>0, <1>4 DEF Types, ArrayTypes, Batches
  <2>4. ChunkTypes'
    <3>1. \A u \in Thread : pc[u] \in InFetch
             => freeList'[u] = freeList[u] /\ tempList'[u] = tempList[u]
      BY <1>0, <1>4, <1>5 DEF InFetch
    <3> QED
      BY <1>0, <3>1, ChunksUntouched
  <2> QED
    BY <2>2, <2>3, <2>4 DEF Types
<1>8. NoRepeats'
  <2>1. ArraysApart' /\ \A i \in 1 .. Len(chunks') : Apart(Batches(i)')
    BY <1>0, <1>4, ArraysUntouched
  <2> QED
    BY <1>0, <1>4, <1>5, <2>1 DEF NoRepeats
<1> QED
  BY <1>6, <1>7, <1>8 DEF Inv

\* ltmalloc from the batch that the thread has put aside.
LEMMA TempKeeps ==
  ASSUME Inv, NEW t \in Thread, MallocTemp(t)
  PROVE  Inv'
<1> DEFINE list == tempList[t]
<1>0. /\ Types /\ NoRepeats /\ pc[t] = "idle" /\ list # <<>> /\ Receive(t, list)
      /\ tempList' = [tempList EXCEPT ![t] = <<>>] /\ counter' = [counter EXCEPT ![t] = 1]
      /\ UNCHANGED <<batchVars, listVars, lastChunk, addrVars, padVars, mapped, pc, mem,
                     squeezeVars>>
  BY DEF Inv, MallocTemp
<1>1. PICK kind, who : Account(kind, who)
  BY DEF Inv, Accounted
<1>2. list \in Seq(Block) /\ Distinct(list)
      /\ \A k \in 1 .. Len(list) : kind[list[k]] = "temp" /\ who[list[k]] = t
  BY <1>0, <1>1 DEF Types, ListTypes, NoRepeats, Account, TempAcc
<1>3. "temp" \in Serving \ {"app"}
  BY DEF Serving
<1>4. UNCHANGED <<minChunkAddr, maxChunkAddr, pad, mapped, pc, mem, detached, releasing>>
      /\ UNCHANGED <<firstBatch, chunks, ccFreeList, freeListSize, lastChunk>>
  BY <1>0 DEF batchVars, listVars, addrVars, padVars, squeezeVars
<1> HIDE DEF list
<1>5. /\ freeList' \in [Thread -> Seq(Block)] /\ users' \in [Block -> {0, 1}]
      /\ \A u \in Thread : Distinct(freeList'[u])
      /\ \A u \in Thread \ {t} : freeList'[u] = freeList[u]
      /\ \E k2, w2 :
            /\ FreeAcc(k2, w2)' /\ AppAcc(k2, w2)' /\ DetachAcc(k2, w2)' /\ MemAcc(k2, w2)'
            /\ ReleasingAcc(k2, w2)' /\ PadAcc(k2, w2)' /\ SystemAcc(k2, w2)'
            /\ ServingAcc(k2, w2)'
            /\ BatchAcc(k2, w2)' /\ ArrayAcc(k2, w2)' /\ ListAcc(k2, w2)' /\ CarveAcc(k2, w2)'
            /\ \A b \in Block : (\A k \in 1 .. Len(list) : b # list[k])
                  => k2[b] = kind[b] /\ w2[b] = who[b]
  BY <1>0, <1>1, <1>2, <1>3, <1>4, Handed
<1>6. Accounted'
  <2>1. PICK k2, w2 :
            /\ FreeAcc(k2, w2)' /\ AppAcc(k2, w2)' /\ DetachAcc(k2, w2)' /\ MemAcc(k2, w2)'
            /\ ReleasingAcc(k2, w2)' /\ PadAcc(k2, w2)' /\ SystemAcc(k2, w2)'
            /\ ServingAcc(k2, w2)'
            /\ BatchAcc(k2, w2)' /\ ArrayAcc(k2, w2)' /\ ListAcc(k2, w2)' /\ CarveAcc(k2, w2)'
            /\ \A b \in Block : (\A k \in 1 .. Len(list) : b # list[k])
                  => k2[b] = kind[b] /\ w2[b] = who[b]
    BY <1>5
  <2>2. ASSUME NEW u \in Thread, NEW k \in 1 .. Len(tempList'[u])
        PROVE  k2[tempList'[u][k]] = "temp" /\ w2[tempList'[u][k]] = u
    <3>1. u # t /\ tempList'[u] = tempList[u]
      BY <1>0, <2>2 DEF Types, ListTypes
    <3>2. /\ tempList[u][k] \in Block /\ kind[tempList[u][k]] = "temp"
          /\ who[tempList[u][k]] = u
      BY <1>0, <1>1, <2>2, <3>1, ListedBlocks DEF Account, TempAcc
    <3> QED
      BY <1>2, <2>1, <3>1, <3>2
  <2>3. TempAcc(k2, w2)'
    BY <2>2 DEF TempAcc
  <2> QED
    BY <2>1, <2>3 DEF Accounted, Account
<1>7. Types'
  <2>1. counter' \in [Thread -> Int]
    BY <1>0 DEF Types, ListTypes
  <2>2. tempList' \in [Thread -> Seq(Block)]
    BY <1>0 DEF Types, ListTypes
  <2>3. ListTypes'
    BY <1>0, <1>4, <1>5, <2>1, <2>2 DEF Types, ListTypes
  <2>4. ArrayTypes'
    BY <1>0, <1>4 DEF Types, ArrayTypes, Batches
  <2>5. ChunkTypes'
    <3>1. \A u \in Thread : u # t => tempList'[u] = tempList[u]
      BY <1>0 DEF Types, ListTypes
    <3>2. \A u \in Thread : pc[u] \in InFetch
             => freeList'[u] = freeList[u] /\ tempList'[u] = tempList[u]
      BY <1>0, <1>4, <1>5, <3>1 DEF InFetch
    <3> QED
      BY <1>0, <3>2, ChunksUntouched
  <2> QED
    BY <2>3, <2>4, <2>5 DEF Types
<1>8. NoRepeats'
  <2>1. \A u \in Thread : Distinct(tempList'[u])
    <3> TAKE u \in Thread
    <3>1. CASE u = t
      <4>1. tempList'[u] = <<>>
        BY <1>0, <3>1 DEF Types, ListTypes
      <4> QED
        BY <4>1 DEF Distinct
    <3>2. CASE u # t
      <4>1. tempList'[u] = tempList[u]
        BY <1>0, <3>2 DEF Types, ListTypes
      <4> QED
        BY <1>0, <4>1 DEF NoRepeats
    <3> QED
      BY <3>1, <3>2
  <2>2. ArraysApart' /\ \A i \in 1 .. Len(chunks') : Apart(Batches(i)')
    BY <1>0, <1>4, ArraysUntouched
  <2> QED
    BY <1>0, <1>4, <1>5, <2>1, <2>2 DEF NoRepeats
<1> QED
  BY <1>6, <1>7, <1>8 DEF Inv

\* ltmalloc from the first batch of the list of batches of a large class.
LEMMA LargeBatchKeeps ==
  ASSUME Inv, NEW t \in Thread, MallocBatch(t), ~CHUNK_IS_SMALL
  PROVE  Inv'
<1> DEFINE list == firstBatch[1]
<1>0. /\ Types /\ NoRepeats /\ pc[t] = "idle" /\ firstBatch # <<>>
      /\ Receive(t, Head(firstBatch)) /\ firstBatch' = Tail(firstBatch)
      /\ counter' = [counter EXCEPT ![t] = 1]
      /\ UNCHANGED <<tempList, listVars, lastChunk, addrVars, padVars, mapped, pc, mem,
                     squeezeVars, chunks, chunkWithFreeBatches>>
  BY DEF Inv, MallocBatch, TakeBatch, NoBatch, Fetching
<1>1. PICK kind, who : Account(kind, who)
  BY DEF Inv, Accounted
<1>2. /\ firstBatch \in Seq(Seq(Block)) /\ \A j \in 1 .. Len(firstBatch) : firstBatch[j] # <<>>
      /\ \A j \in 1 .. Len(firstBatch) : firstBatch[j] \in Seq(Block)
      /\ Len(firstBatch) \in Nat /\ 1 \in 1 .. Len(firstBatch)
      /\ firstBatch' \in Seq(Seq(Block)) /\ Len(firstBatch') = Len(firstBatch) - 1
      /\ \A j \in 1 .. Len(firstBatch') :
            firstBatch'[j] = firstBatch[j + 1] /\ j + 1 \in 1 .. Len(firstBatch) /\ j + 1 # 1
      /\ Head(firstBatch) = firstBatch[1]
  BY <1>0 DEF Types, ListTypes
<1>3. /\ list \in Seq(Block) /\ list # <<>> /\ Distinct(list) /\ Receive(t, list)
      /\ \A k \in 1 .. Len(list) : kind[list[k]] = "batch"
  BY <1>0, <1>1, <1>2 DEF NoRepeats, Account, BatchAcc, Apart, Distinct
<1>4. "batch" \in Serving \ {"app"}
  BY DEF Serving
<1>5. UNCHANGED <<minChunkAddr, maxChunkAddr, pad, mapped, pc, mem, detached, releasing>>
      /\ UNCHANGED <<tempList, chunks, ccFreeList, freeListSize, lastChunk>>
  BY <1>0 DEF listVars, addrVars, padVars, squeezeVars
<1>6. \A j \in 1 .. Len(firstBatch') : \A k \in 1 .. Len(firstBatch'[j]) :
         /\ firstBatch'[j][k] \in Block /\ kind[firstBatch'[j][k]] = "batch"
         /\ \A x \in 1 .. Len(list) : firstBatch'[j][k] # list[x]
  <2> TAKE j \in 1 .. Len(firstBatch')
  <2> TAKE k \in 1 .. Len(firstBatch'[j])
  <2>1. firstBatch'[j] = firstBatch[j + 1] /\ j + 1 \in 1 .. Len(firstBatch) /\ j + 1 # 1
    BY <1>2
  <2>2. firstBatch[j + 1][k] \in Block /\ kind[firstBatch[j + 1][k]] = "batch"
    BY <1>0, <1>1, <2>1, ListedBlocks DEF Account, BatchAcc
  <2>3. \A x \in 1 .. Len(list) : firstBatch[j + 1][k] # firstBatch[1][x]
    BY <1>0, <1>2, <2>1 DEF NoRepeats, Apart
  <2> QED
    BY <2>1, <2>2, <2>3
<1> HIDE DEF list
<1>7. /\ freeList' \in [Thread -> Seq(Block)] /\ users' \in [Block -> {0, 1}]
      /\ \A u \in Thread : Distinct(freeList'[u])
      /\ \A u \in Thread \ {t} : freeList'[u] = freeList[u]
      /\ \E k2, w2 :
            /\ FreeAcc(k2, w2)' /\ AppAcc(k2, w2)' /\ DetachAcc(k2, w2)' /\ MemAcc(k2, w2)'
            /\ ReleasingAcc(k2, w2)' /\ PadAcc(k2, w2)' /\ SystemAcc(k2, w2)'
            /\ ServingAcc(k2, w2)'
            /\ TempAcc(k2, w2)' /\ ListAcc(k2, w2)' /\ CarveAcc(k2, w2)'
            /\ \A b \in Block : (\A k \in 1 .. Len(list) : b # list[k])
                  => k2[b] = kind[b] /\ w2[b] = who[b]
  BY <1>0, <1>1, <1>3, <1>4, <1>5, Handed
<1>8. Accounted'
  <2>1. PICK k2, w2 :
            /\ FreeAcc(k2, w2)' /\ AppAcc(k2, w2)' /\ DetachAcc(k2, w2)' /\ MemAcc(k2, w2)'
            /\ ReleasingAcc(k2, w2)' /\ PadAcc(k2, w2)' /\ SystemAcc(k2, w2)'
            /\ ServingAcc(k2, w2)'
            /\ TempAcc(k2, w2)' /\ ListAcc(k2, w2)' /\ CarveAcc(k2, w2)'
            /\ \A b \in Block : (\A k \in 1 .. Len(list) : b # list[k])
                  => k2[b] = kind[b] /\ w2[b] = who[b]
    BY <1>7
  <2>2. BatchAcc(k2, w2)'
    BY <1>6, <2>1 DEF BatchAcc
  <2>3. ArrayAcc(k2, w2)'
    <3>1. chunks' = <<>>
      BY <1>0, <1>5 DEF Types, ArrayTypes
    <3> QED
      BY <3>1 DEF ArrayAcc
  <2> QED
    BY <2>1, <2>2, <2>3 DEF Accounted, Account
<1>9. Types'
  <2>1. counter' \in [Thread -> Int]
    BY <1>0 DEF Types, ListTypes
  <2>2. ListTypes'
    BY <1>0, <1>2, <1>5, <1>7, <2>1 DEF Types, ListTypes
  <2>3. ArrayTypes'
    BY <1>0, <1>5 DEF Types, ArrayTypes, Batches
  <2>4. ChunkTypes'
    <3>1. \A u \in Thread : pc[u] \in InFetch
             => freeList'[u] = freeList[u] /\ tempList'[u] = tempList[u]
      BY <1>0, <1>5, <1>7 DEF InFetch
    <3> QED
      BY <1>0, <3>1, ChunksUntouched
  <2> QED
    BY <2>2, <2>3, <2>4 DEF Types
<1>10. NoRepeats'
  <2>1. Apart(firstBatch')
    <3> SUFFICES ASSUME NEW i \in 1 .. Len(firstBatch'), NEW j \in 1 .. Len(firstBatch'),
                        NEW k \in 1 .. Len(firstBatch'[i]), NEW l \in 1 .. Len(firstBatch'[j]),
                        firstBatch'[i][k] = firstBatch'[j][l]
                 PROVE  i = j /\ k = l
      BY Zenon DEF Apart
    <3>1. i + 1 = j + 1 /\ k = l
      <4> DEFINE p == i + 1  q == j + 1
      <4>1. /\ p \in 1 .. Len(firstBatch) /\ q \in 1 .. Len(firstBatch)
            /\ k \in 1 .. Len(firstBatch[p]) /\ l \in 1 .. Len(firstBatch[q])
            /\ firstBatch[p][k] = firstBatch[q][l]
        BY <1>2
      <4>2. Apart(firstBatch)
        BY <1>0 DEF NoRepeats
      <4> HIDE DEF p, q
      <4>3. ASSUME NEW ss, ss = firstBatch
            PROVE  p = q /\ k = l
        <5>1. /\ p \in 1 .. Len(ss) /\ q \in 1 .. Len(ss) /\ Apart(ss)
              /\ k \in 1 .. Len(ss[p]) /\ l \in 1 .. Len(ss[q]) /\ ss[p][k] = ss[q][l]
          BY <4>1, <4>2, <4>3
        <5> HIDE <4>3
        <5> QED
          BY <5>1, ApartPlaces, SMTT(20)
      <4> QED
        BY <4>3 DEF p, q
    <3> QED
      BY <1>2, <3>1
  <2>2. ArraysApart' /\ \A i \in 1 .. Len(chunks') : Apart(Batches(i)')
    <3>1. chunks' = <<>>
      BY <1>0, <1>5 DEF Types, ArrayTypes
    <3> QED
      BY <3>1 DEF ArraysApart, ApartIn
  <2> QED
    BY <1>0, <1>5, <1>7, <2>1, <2>2 DEF NoRepeats
<1> QED
  BY <1>8, <1>9, <1>10 DEF Inv

\* Where a small class takes a batch from there is one.
LEMMA BatchInArray ==
  ASSUME Types, Arrays, CHUNK_IS_SMALL, ~NoBatch
  PROVE  BatchAt \in 1 .. Len(chunks) /\ Batches(BatchAt) # <<>>
<1>1. chunkWithFreeBatches \in 0 .. Len(chunks) /\ Len(chunks) \in Nat
  BY DEF Arrays, Types, ArrayTypes
<1>2. PICK i \in 1 .. chunkWithFreeBatches : i # 1 \/ Batches(i) # <<>>
  BY DEF NoBatch
<1>3. chunkWithFreeBatches \in 1 .. Len(chunks)
  BY <1>1, <1>2
<1>4. CASE Batches(chunkWithFreeBatches) # <<>>
  BY <1>3, <1>4 DEF BatchAt
<1>5. CASE Batches(chunkWithFreeBatches) = <<>>
  <2>1. chunkWithFreeBatches # 1
    BY <1>2, <1>5
  <2>2. BatchAt = chunkWithFreeBatches - 1 /\ BatchAt \in 1 .. Len(chunks)
        /\ BatchAt < chunkWithFreeBatches
    BY <1>3, <1>5, <2>1 DEF BatchAt
  <2>3. Len(Batches(BatchAt)) = NUM_OF_BATCHES
    BY <2>2 DEF Arrays, IsFull
  <2>4. NUM_OF_BATCHES # 0
    BY LtAllocAssumption
  <2>5. Len(<<>>) = 0
    OBVIOUS
  <2> QED
    BY <2>2, <2>3, <2>4, <2>5
<1> QED
  BY <1>4, <1>5

\* ltmalloc from the last batch of an array: chunkWithFreeBatches finds it.
LEMMA SmallBatchKeeps ==
  ASSUME Inv, SmallInv, NEW t \in Thread, MallocBatch(t), CHUNK_IS_SMALL
  PROVE  Inv'
<1>b. PICK B : B = BatchAt
  OBVIOUS
<1> DEFINE old == Batches(B)
           list == old[Len(old)]
<1>0. /\ Types /\ NoRepeats /\ Arrays /\ pc[t] = "idle" /\ ~NoBatch
      /\ Receive(t, Last(Batches(BatchAt)))
      /\ chunks' = [chunks EXCEPT ![BatchAt].batches = Front(@)]
      /\ counter' = [counter EXCEPT ![t] = 1]
      /\ UNCHANGED <<tempList, listVars, lastChunk, addrVars, padVars, mapped, pc, mem,
                     squeezeVars, firstBatch>>
  BY DEF Inv, SmallInv, MallocBatch, TakeBatch, Fetching
<1>1. PICK kind, who : Account(kind, who)
  BY DEF Inv, Accounted
<1>2. B \in 1 .. Len(chunks) /\ old # <<>>
  BY <1>0, <1>b, BatchInArray
<1>3. /\ chunks \in Seq(ArrayEntry) /\ Len(chunks) \in Nat
      /\ \A i \in 1 .. Len(chunks) : chunks[i] \in ArrayEntry
  BY <1>0 DEF Types, ArrayTypes
<1>4. \A i \in 1 .. Len(chunks) : Batches(i) \in Seq(Seq(Block))
  BY <1>3 DEF Batches, ArrayEntry
<1>5. old \in Seq(Seq(Block))
  BY <1>2, <1>4
<1>6. /\ Len(old) \in 1 .. Len(old) /\ Last(old) = list /\ list \in Seq(Block)
      /\ Front(old) \in Seq(Seq(Block)) /\ Len(Front(old)) = Len(old) - 1
      /\ \A j \in 1 .. Len(old) - 1 : Front(old)[j] = old[j] /\ j \in 1 .. Len(old) /\ j # Len(old)
  <2>1. Len(old) \in 1 .. Len(old) /\ list \in Seq(Block) /\ Len(old) \in Nat
    <3> HIDE DEF old
    <3> QED
      BY <1>2, <1>5
  <2>2. Last(old) = list
    BY DEF Last
  <2>3. Front(old) = SubSeq(old, 1, Len(old) - 1)
    BY DEF Front
  <2>4. /\ SubSeq(old, 1, Len(old) - 1) \in Seq(Seq(Block))
        /\ Len(SubSeq(old, 1, Len(old) - 1)) = Len(old) - 1
        /\ \A j \in 1 .. Len(old) - 1 : SubSeq(old, 1, Len(old) - 1)[j] = old[j]
    BY <1>5, <2>1, AllButLast
  <2>5. \A j \in 1 .. Len(old) - 1 : j \in 1 .. Len(old) /\ j # Len(old)
    BY <2>1
  <2> QED
    BY <2>1, <2>2, <2>3, <2>4, <2>5
<1>7. chunks' = [chunks EXCEPT ![B] = [@ EXCEPT !.batches = Front(old)]]
  BY <1>0, <1>b DEF Batches
<1>8. [chunks[B] EXCEPT !.batches = Front(old)] \in ArrayEntry
  BY <1>2, <1>3, <1>6 DEF ArrayEntry
<1>9. /\ chunks' \in Seq(ArrayEntry) /\ Len(chunks') = Len(chunks)
      /\ chunks'[B] = [chunks[B] EXCEPT !.batches = Front(old)]
      /\ \A i \in 1 .. Len(chunks) : i # B => chunks'[i] = chunks[i]
  <2> DEFINE new == [chunks[B] EXCEPT !.batches = Front(old)]
  <2>1. new \in ArrayEntry /\ chunks' = [chunks EXCEPT ![B] = new]
    BY <1>7, <1>8
  <2> HIDE DEF new
  <2>2. /\ chunks' \in Seq(ArrayEntry) /\ Len(chunks') = Len(chunks) /\ chunks'[B] = new
        /\ \A i \in 1 .. Len(chunks) : i # B => chunks'[i] = chunks[i]
    BY <1>2, <1>3, <2>1
  <2> QED
    BY <2>2 DEF new
<1>10. /\ Batches(B)' = Front(old)
       /\ \A i \in 1 .. Len(chunks) : i # B => Batches(i)' = Batches(i)
       /\ \A i \in 1 .. Len(chunks) : chunks'[i].chunk = chunks[i].chunk
  <2>1. chunks'[B].batches = Front(old) /\ chunks'[B].chunk = chunks[B].chunk
    BY <1>2, <1>3, <1>9 DEF ArrayEntry
  <2>2. Batches(B)' = chunks'[B].batches
    BY DEF Batches
  <2> QED
    BY <1>9, <2>1, <2>2 DEF Batches
<1>11. /\ Receive(t, list) /\ list # <<>> /\ Distinct(list)
       /\ \A k \in 1 .. Len(list) : kind[list[k]] = "batch"
  <2>1. Receive(t, list)
    BY <1>0, <1>6, <1>b
  <2>2. list # <<>>
    BY <1>0, <1>2, <1>6 DEF Types, ArrayTypes
  <2>3. Distinct(list)
    <3>1. Apart(old)
      BY <1>0, <1>2 DEF NoRepeats
    <3> DEFINE last == Len(old)
    <3>2. last \in 1 .. Len(old) /\ list = old[last]
      BY <1>6
    <3> HIDE DEF old, last, list
    <3>3. \A k, l \in 1 .. Len(old[last]) : old[last][k] = old[last][l] => k = l
      BY <3>1, <3>2 DEF Apart
    <3> QED
      BY <3>2, <3>3 DEF Distinct
  <2>4. \A k \in 1 .. Len(list) : kind[list[k]] = "batch"
    BY <1>1, <1>2, <1>6 DEF Account, ArrayAcc
  <2> QED
    BY <2>1, <2>2, <2>3, <2>4
<1>12. "batch" \in Serving \ {"app"}
  BY DEF Serving
<1>13. UNCHANGED <<minChunkAddr, maxChunkAddr, pad, mapped, pc, mem, detached, releasing>>
      /\ UNCHANGED <<tempList, firstBatch, ccFreeList, freeListSize, lastChunk>>
  BY <1>0 DEF listVars, addrVars, padVars, squeezeVars
<1>14. \A i \in 1 .. Len(chunks) : \A j \in 1 .. Len(Batches(i)') :
          /\ j \in 1 .. Len(Batches(i)) /\ Batches(i)'[j] = Batches(i)[j]
          /\ i = B => j # Len(old)
  BY <1>6, <1>10
<1>15. \A i \in 1 .. Len(chunks) : \A j \in 1 .. Len(Batches(i)') :
          \A k \in 1 .. Len(Batches(i)'[j]) :
             /\ Batches(i)'[j][k] \in Block /\ kind[Batches(i)'[j][k]] = "batch"
             /\ \A x \in 1 .. Len(list) : Batches(i)'[j][k] # list[x]
  <2> TAKE i \in 1 .. Len(chunks)
  <2> TAKE j \in 1 .. Len(Batches(i)')
  <2> TAKE k \in 1 .. Len(Batches(i)'[j])
  <2>1. j \in 1 .. Len(Batches(i)) /\ Batches(i)'[j] = Batches(i)[j] /\ (i = B => j # Len(old))
    BY <1>14
  <2>2. Batches(i)[j][k] \in Block /\ kind[Batches(i)[j][k]] = "batch"
    BY <1>0, <1>1, <2>1, ListedBlocks DEF Account, ArrayAcc
  <2>3. ASSUME NEW x \in 1 .. Len(list), Batches(i)[j][k] = list[x]
        PROVE  FALSE
    <3>1. CASE i = B
      <4>1. Apart(Batches(B))
        BY <1>0, <1>2 DEF NoRepeats
      <4> QED
        BY <1>6, <2>1, <2>3, <3>1, <4>1 DEF Apart
    <3>2. CASE i # B
      <4>1. ArraysApart
        BY <1>0 DEF NoRepeats
      <4>2. PICK l : l = Len(old) /\ l \in 1 .. Len(Batches(B)) /\ list = Batches(B)[l]
        BY <1>6
      <4>3. x \in 1 .. Len(Batches(B)[l]) /\ Batches(i)[j][k] = Batches(B)[l][x]
            /\ j \in 1 .. Len(Batches(i)) /\ k \in 1 .. Len(Batches(i)[j])
        BY <2>1, <2>3, <4>2
      <4> HIDE DEF list, old
      <4> QED
        BY <1>2, <3>2, <4>1, <4>2, <4>3 DEF ArraysApart, ApartIn, Batches
    <3> QED
      BY <3>1, <3>2
  <2> QED
    BY <2>1, <2>2, <2>3
<1> HIDE DEF list, old
<1>16. /\ freeList' \in [Thread -> Seq(Block)] /\ users' \in [Block -> {0, 1}]
       /\ \A u \in Thread : Distinct(freeList'[u])
       /\ \A u \in Thread \ {t} : freeList'[u] = freeList[u]
       /\ \E k2, w2 :
             /\ FreeAcc(k2, w2)' /\ AppAcc(k2, w2)' /\ DetachAcc(k2, w2)' /\ MemAcc(k2, w2)'
             /\ ReleasingAcc(k2, w2)' /\ PadAcc(k2, w2)' /\ SystemAcc(k2, w2)'
             /\ ServingAcc(k2, w2)'
             /\ TempAcc(k2, w2)' /\ ListAcc(k2, w2)' /\ CarveAcc(k2, w2)'
             /\ \A b \in Block : (\A k \in 1 .. Len(list) : b # list[k])
                   => k2[b] = kind[b] /\ w2[b] = who[b]
  <2>1. UNCHANGED chunks \/ (/\ Len(chunks') = Len(chunks)
                            /\ \A i \in 1 .. Len(chunks) : chunks'[i].chunk = chunks[i].chunk)
    BY <1>9, <1>10
  <2>2. list \in Seq(Block)
    BY <1>6
  <2> QED
    BY <1>0, <1>1, <1>11, <1>12, <1>13, <2>1, <2>2, Handed
<1>17. Accounted'
  <2>1. PICK k2, w2 :
            /\ FreeAcc(k2, w2)' /\ AppAcc(k2, w2)' /\ DetachAcc(k2, w2)' /\ MemAcc(k2, w2)'
            /\ ReleasingAcc(k2, w2)' /\ PadAcc(k2, w2)' /\ SystemAcc(k2, w2)'
            /\ ServingAcc(k2, w2)'
            /\ TempAcc(k2, w2)' /\ ListAcc(k2, w2)' /\ CarveAcc(k2, w2)'
            /\ \A b \in Block : (\A k \in 1 .. Len(list) : b # list[k])
                  => k2[b] = kind[b] /\ w2[b] = who[b]
    BY <1>16
  <2>2. BatchAcc(k2, w2)'
    <3>1. firstBatch' = <<>>
      BY <1>0, <1>13 DEF Types, ArrayTypes
    <3> QED
      BY <3>1 DEF BatchAcc
  <2>3. ArrayAcc(k2, w2)'
    <3>1. \A i \in 1 .. Len(chunks) : \A j \in 1 .. Len(Batches(i)') :
            \A k \in 1 .. Len(Batches(i)'[j]) : k2[Batches(i)'[j][k]] = "batch"
      BY <1>15, <2>1
    <3> QED
      BY <1>9, <3>1 DEF ArrayAcc
  <2> QED
    BY <2>1, <2>2, <2>3 DEF Accounted, Account
<1>18. Types'
  <2>1. counter' \in [Thread -> Int]
    BY <1>0 DEF Types, ListTypes
  <2>2. ListTypes'
    BY <1>0, <1>13, <1>16, <2>1 DEF Types, ListTypes
  <2>3. ArrayTypes'
    <3>1. \A i \in 1 .. Len(chunks) : \A j \in 1 .. Len(Batches(i)') : Batches(i)'[j] # <<>>
      BY <1>0, <1>14 DEF Types, ArrayTypes
    <3>2. firstBatch' = <<>>
      BY <1>0, <1>13 DEF Types, ArrayTypes
    <3> QED
      BY <1>9, <3>1, <3>2 DEF ArrayTypes
  <2>4. ChunkTypes'
    <3>1. \A u \in Thread : pc[u] \in InFetch
             => freeList'[u] = freeList[u] /\ tempList'[u] = tempList[u]
      BY <1>0, <1>13, <1>16 DEF InFetch
    <3> QED
      BY <1>0, <3>1, ChunksUntouched
  <2> QED
    BY <2>2, <2>3, <2>4 DEF Types
<1>19. NoRepeats'
  <2>1. ASSUME NEW i \in 1 .. Len(chunks)
        PROVE  Apart(Batches(i)')
    <3>1. Apart(Batches(i))
      BY <1>0 DEF NoRepeats
    <3> QED
      BY <1>14, <3>1, SMTT(20) DEF Apart
  <2>2. ASSUME NEW i \in 1 .. Len(chunks'), NEW j \in 1 .. Len(chunks'),
               NEW k \in 1 .. Len(chunks'[i].batches), NEW l \in 1 .. Len(chunks'[j].batches),
               NEW x \in 1 .. Len(chunks'[i].batches[k]),
               NEW y \in 1 .. Len(chunks'[j].batches[l]),
               chunks'[i].batches[k][x] = chunks'[j].batches[l][y]
        PROVE  i = j
    <3>0. Batches(i)' = chunks'[i].batches /\ Batches(j)' = chunks'[j].batches
      BY DEF Batches
    <3>1. /\ k \in 1 .. Len(Batches(i)) /\ Batches(i)'[k] = Batches(i)[k]
          /\ l \in 1 .. Len(Batches(j)) /\ Batches(j)'[l] = Batches(j)[l]
      BY <1>9, <1>14, <3>0
    <3>2. /\ x \in 1 .. Len(Batches(i)[k]) /\ y \in 1 .. Len(Batches(j)[l])
          /\ Batches(i)[k][x] = Batches(j)[l][y]
      BY <2>2, <3>0, <3>1
    <3> QED
      BY <1>0, <1>9, <3>1, <3>2, SMTT(20) DEF NoRepeats, ArraysApart, ApartIn, Batches
  <2>3. ArraysApart'
    BY <2>2, Zenon DEF ArraysApart, ApartIn
  <2> QED
    BY <1>0, <1>9, <1>13, <1>16, <2>1, <2>3 DEF NoRepeats
<1> QED
  BY <1>17, <1>18, <1>19 DEF Inv

\* ltmalloc from the list that threads which have ended left behind.
LEMMA ListKeeps ==
  ASSUME Inv, NEW t \in Thread, MallocList(t)
  PROVE  Inv'
<1>n. PICK n : n = IF freeListSize <= BATCH + 1 THEN Len(ccFreeList) ELSE BATCH
  OBVIOUS
<1>0. /\ Types /\ NoRepeats /\ pc[t] = "idle" /\ ccFreeList # <<>> /\ n <= Len(ccFreeList)
      /\ Receive(t, SubSeq(ccFreeList, 1, n))
      /\ ccFreeList' = SubSeq(ccFreeList, n + 1, Len(ccFreeList))
      /\ freeListSize' = IF freeListSize <= BATCH + 1 THEN 0 ELSE freeListSize - BATCH
      /\ counter' = [counter EXCEPT ![t] =
            IF freeListSize <= BATCH + 1 THEN CounterFor(freeListSize) ELSE 1]
      /\ UNCHANGED <<tempList, batchVars, lastChunk, addrVars, padVars, mapped, pc, mem,
                     squeezeVars>>
  BY <1>n DEF Inv, MallocList, Fetching
<1>1. PICK kind, who : Account(kind, who)
  BY DEF Inv, Accounted
<1> DEFINE list == SubSeq(ccFreeList, 1, n)
<1>2. /\ ccFreeList \in Seq(Block) /\ Distinct(ccFreeList)
      /\ freeListSize \in Nat /\ Len(ccFreeList) <= freeListSize
      /\ Len(ccFreeList) \in Nat /\ Len(ccFreeList) # 0 /\ BATCH \in Nat \ {0}
  BY <1>0, LtAllocAssumption DEF Types, ListTypes, NoRepeats
<1>3. /\ n \in 1 .. Len(ccFreeList)
      /\ freeListSize' \in Nat /\ Len(ccFreeList) - n <= freeListSize'
  BY <1>0, <1>2, <1>n
<1>4. /\ list \in Seq(Block) /\ Len(list) = n /\ \A k \in 1 .. n : list[k] = ccFreeList[k]
      /\ ccFreeList' \in Seq(Block) /\ Len(ccFreeList') = Len(ccFreeList) - n
      /\ \A k \in 1 .. Len(ccFreeList) - n : ccFreeList'[k] = ccFreeList[n + k]
  BY <1>0, <1>2, <1>3, Split
<1>5. /\ Distinct(list) /\ list # <<>>
      /\ \A k \in 1 .. Len(list) : kind[list[k]] = "list"
  <2>1. Len(<<>>) = 0
    OBVIOUS
  <2>2. \A k \in 1 .. Len(ccFreeList) : kind[ccFreeList[k]] = "list"
    BY <1>1 DEF Account, ListAcc
  <2>3. \A k \in 1 .. n : k \in 1 .. Len(ccFreeList)
    BY <1>2, <1>3
  <2> HIDE DEF list
  <2>4. Distinct(list)
    BY <1>2, <1>4, <2>3 DEF Distinct
  <2>5. \A k \in 1 .. Len(list) : kind[list[k]] = "list"
    BY <1>4, <2>2, <2>3
  <2>6. list # <<>>
    BY <1>2, <1>3, <1>4, <2>1
  <2> QED
    BY <2>4, <2>5, <2>6
<1>6. "list" \in Serving \ {"app"}
  BY DEF Serving
<1>7. UNCHANGED <<minChunkAddr, maxChunkAddr, pad, mapped, pc, mem, detached, releasing>>
      /\ UNCHANGED <<tempList, firstBatch, chunks, lastChunk>>
  BY <1>0 DEF batchVars, addrVars, padVars, squeezeVars
<1>8. \A k \in 1 .. Len(ccFreeList') :
         /\ ccFreeList'[k] \in Block /\ kind[ccFreeList'[k]] = "list"
         /\ \A x \in 1 .. Len(list) : ccFreeList'[k] # list[x]
  <2> TAKE k \in 1 .. Len(ccFreeList')
  <2>1. ccFreeList'[k] = ccFreeList[n + k] /\ n + k \in 1 .. Len(ccFreeList)
    BY <1>2, <1>3, <1>4
  <2>2. \A x \in 1 .. Len(list) : list[x] = ccFreeList[x] /\ x \in 1 .. Len(ccFreeList) /\ x # n + k
    BY <1>2, <1>3, <1>4
  <2> HIDE DEF list
  <2>3. kind[ccFreeList[n + k]] = "list" /\ ccFreeList[n + k] \in Block
    BY <1>1, <1>2, <2>1 DEF Account, ListAcc
  <2>4. \A x \in 1 .. Len(list) : ccFreeList[n + k] # ccFreeList[x]
    BY <1>2, <2>1, <2>2 DEF Distinct
  <2> QED
    BY <2>1, <2>2, <2>3, <2>4
<1>9. Receive(t, list)
  BY <1>0
<1> HIDE DEF list
<1>10. /\ freeList' \in [Thread -> Seq(Block)] /\ users' \in [Block -> {0, 1}]
       /\ \A u \in Thread : Distinct(freeList'[u])
       /\ \A u \in Thread \ {t} : freeList'[u] = freeList[u]
       /\ \E k2, w2 :
             /\ FreeAcc(k2, w2)' /\ AppAcc(k2, w2)' /\ DetachAcc(k2, w2)' /\ MemAcc(k2, w2)'
             /\ ReleasingAcc(k2, w2)' /\ PadAcc(k2, w2)' /\ SystemAcc(k2, w2)'
             /\ ServingAcc(k2, w2)'
             /\ TempAcc(k2, w2)' /\ BatchAcc(k2, w2)' /\ ArrayAcc(k2, w2)' /\ CarveAcc(k2, w2)'
             /\ \A b \in Block : (\A k \in 1 .. Len(list) : b # list[k])
                   => k2[b] = kind[b] /\ w2[b] = who[b]
  <2>1. Types /\ NoRepeats /\ list \in Seq(Block)
    BY <1>0, <1>4
  <2> QED
    BY <1>1, <1>5, <1>6, <1>7, <1>9, <2>1, Handed
<1>11. Accounted'
  <2>1. PICK k2, w2 :
             /\ FreeAcc(k2, w2)' /\ AppAcc(k2, w2)' /\ DetachAcc(k2, w2)' /\ MemAcc(k2, w2)'
             /\ ReleasingAcc(k2, w2)' /\ PadAcc(k2, w2)' /\ SystemAcc(k2, w2)'
             /\ ServingAcc(k2, w2)'
             /\ TempAcc(k2, w2)' /\ BatchAcc(k2, w2)' /\ ArrayAcc(k2, w2)' /\ CarveAcc(k2, w2)'
             /\ \A b \in Block : (\A k \in 1 .. Len(list) : b # list[k])
                   => k2[b] = kind[b] /\ w2[b] = who[b]
    BY <1>10
  <2>2. ListAcc(k2, w2)'
    BY <1>8, <2>1 DEF ListAcc
  <2> QED
    BY <2>1, <2>2 DEF Accounted, Account
<1>12. Types'
  <2>1. counter' \in [Thread -> Int]
    <3>1. freeListSize \in Int /\ CounterFor(freeListSize) \in Int
      BY <1>2 DEF CounterFor
    <3> QED
      BY <1>0, <3>1 DEF Types, ListTypes
  <2>2. ListTypes'
    BY <1>0, <1>3, <1>4, <1>7, <1>10, <2>1 DEF Types, ListTypes
  <2>3. ArrayTypes'
    BY <1>0, <1>7, ArraysUntouched
  <2>4. ChunkTypes'
    <3>1. \A u \in Thread : pc[u] \in InFetch
             => freeList'[u] = freeList[u] /\ tempList'[u] = tempList[u]
      BY <1>0, <1>7, <1>10 DEF InFetch
    <3> QED
      BY <1>0, <3>1, ChunksUntouched
  <2> QED
    BY <2>2, <2>3, <2>4 DEF Types
<1>13. NoRepeats'
  <2>1. ArraysApart' /\ \A i \in 1 .. Len(chunks') : Apart(Batches(i)')
    BY <1>0, <1>7, ArraysUntouched
  <2>2. Distinct(ccFreeList')
    <3> SUFFICES ASSUME NEW i \in 1 .. Len(ccFreeList'), NEW j \in 1 .. Len(ccFreeList'),
                        ccFreeList'[i] = ccFreeList'[j]
                 PROVE  i = j
      BY DEF Distinct
    <3>1. /\ n + i \in 1 .. Len(ccFreeList) /\ ccFreeList'[i] = ccFreeList[n + i]
          /\ n + j \in 1 .. Len(ccFreeList) /\ ccFreeList'[j] = ccFreeList[n + j]
      BY <1>2, <1>3, <1>4, SMTT(20)
    <3>2. n + i = n + j
      BY <1>2, <3>1 DEF Distinct
    <3> QED
      BY <1>3, <3>2
  <2> QED
    BY <1>0, <1>7, <1>10, <2>1, <2>2 DEF NoRepeats
<1> QED
  BY <1>11, <1>12, <1>13 DEF Inv

\* ltmalloc from the part of a chunk that was not carved yet.
LEMMA CarveKeeps ==
  ASSUME Inv, NEW t \in Thread, MallocCarve(t)
  PROVE  Inv'
<1>c. PICK c, left, n : /\ c = lastChunk[1].chunk /\ left = lastChunk[1].left
                        /\ n = Min2(left, BATCH)
  OBVIOUS
<1>0. /\ Types /\ NoRepeats /\ pc[t] = "idle" /\ lastChunk # <<>>
      /\ Receive(t, Carved(c, NumBlocks - left + 1, n))
      /\ counter' = [counter EXCEPT ![t] = CounterFor(n)]
      /\ lastChunk' = AfterCarving(n)
      /\ UNCHANGED <<tempList, batchVars, listVars, addrVars, padVars, mapped, pc, mem,
                     squeezeVars>>
  BY <1>c DEF Inv, MallocCarve, Fetching
<1>1. PICK kind, who : Account(kind, who)
  BY DEF Inv, Accounted
<1> DEFINE list == Carved(c, NumBlocks - left + 1, n)
<1>2. /\ lastChunk \in Seq(UncarvedEntry) /\ Len(lastChunk) \in Nat /\ 1 \in 1 .. Len(lastChunk)
      /\ \A i \in 1 .. Len(lastChunk) : lastChunk[i] \in UncarvedEntry
      /\ BATCH \in Nat \ {0} /\ NumBlocks \in Nat \ {0}
  BY <1>0, LtAllocAssumption DEF Types, ListTypes
<1>3. c \in Chunk /\ left \in 1 .. NumBlocks /\ n \in 1 .. left /\ n \in 1 .. BATCH
  BY <1>2, <1>c DEF UncarvedEntry, Min2
<1>4. \A k \in 1 .. n : NumBlocks - left + k \in NumBlocks - left + 1 .. NumBlocks
                        /\ NumBlocks - left + k \in 1 .. NumBlocks
  BY <1>2, <1>3
<1>5. /\ list \in Seq(Block) /\ Len(list) = n /\ list # <<>>
      /\ \A k \in 1 .. n : list[k] = <<c, NumBlocks - left + k>>
  <2>1. \A k \in 1 .. n : <<c, NumBlocks - left + 1 + k - 1>> \in Block
                          /\ NumBlocks - left + 1 + k - 1 = NumBlocks - left + k
    BY <1>2, <1>3, <1>4 DEF Block
  <2>2. list = [k \in 1 .. n |-> <<c, NumBlocks - left + 1 + k - 1>>]
    BY DEF Carved
  <2>3. Len(<<>>) = 0
    OBVIOUS
  <2> DEFINE at(k) == NumBlocks - left + 1 + k - 1
  <2>4. \A k \in 1 .. n : <<c, at(k)>> \in Block /\ at(k) = NumBlocks - left + k
    BY <2>1
  <2>5. list = [k \in 1 .. n |-> <<c, at(k)>>]
    BY <2>2
  <2> HIDE DEF list, at
  <2>6. list \in Seq(Block) /\ Len(list) = n
    BY <1>3, <2>4, <2>5
  <2>7. \A k \in 1 .. n : list[k] = <<c, NumBlocks - left + k>>
    BY <1>3, <2>4, <2>5
  <2>8. list # <<>>
    BY <1>3, <2>3, <2>6
  <2> QED
    BY <2>6, <2>7, <2>8
<1> HIDE DEF list
<1>6. /\ Distinct(list)
      /\ \A k \in 1 .. Len(list) : kind[list[k]] = "carve"
  <2>1. \A k \in 1 .. n : kind[<<c, NumBlocks - left + k>>] = "carve"
    BY <1>1, <1>2, <1>4, <1>c DEF Account, CarveAcc
  <2>2. \A k, l \in 1 .. n : <<c, NumBlocks - left + k>> = <<c, NumBlocks - left + l>> => k = l
    BY <1>2, <1>3
  <2> QED
    BY <1>5, <2>1, <2>2 DEF Distinct
<1>7. "carve" \in Serving \ {"app"}
  BY DEF Serving
<1>8. UNCHANGED <<minChunkAddr, maxChunkAddr, pad, mapped, pc, mem, detached, releasing>>
      /\ UNCHANGED <<tempList, firstBatch, chunks, ccFreeList, freeListSize>>
  BY <1>0 DEF batchVars, listVars, addrVars, padVars, squeezeVars
<1>9. /\ lastChunk' \in Seq(UncarvedEntry)
      /\ \A i \in 1 .. Len(lastChunk') : \E j \in 1 .. Len(lastChunk) :
            /\ lastChunk'[i].chunk = lastChunk[j].chunk
            /\ IF j = 1 THEN lastChunk'[i].left = left - n
                  ELSE lastChunk'[i].left = lastChunk[j].left
      /\ \A i, j \in 1 .. Len(lastChunk') : lastChunk'[i].chunk = lastChunk'[j].chunk => i = j
  <2>0. \A i, j \in 1 .. Len(lastChunk) : lastChunk[i].chunk = lastChunk[j].chunk => i = j
    BY <1>0 DEF NoRepeats
  <2>1. CASE left = n
    <3>1. lastChunk' = Tail(lastChunk)
      BY <1>0, <1>c, <2>1 DEF AfterCarving
    <3>2. /\ lastChunk' \in Seq(UncarvedEntry) /\ Len(lastChunk') = Len(lastChunk) - 1
          /\ \A i \in 1 .. Len(lastChunk') :
                lastChunk'[i] = lastChunk[i + 1] /\ i + 1 \in 1 .. Len(lastChunk) /\ i + 1 # 1
      BY <1>0, <1>2, <3>1
    <3>3. ASSUME NEW i \in 1 .. Len(lastChunk'), NEW j \in 1 .. Len(lastChunk'),
                 lastChunk'[i].chunk = lastChunk'[j].chunk
          PROVE  i = j
      <4>1. i + 1 = j + 1
        BY <2>0, <3>2, <3>3
      <4> QED
        BY <3>2, <4>1
    <3> QED
      BY <3>2, <3>3
  <2>2. CASE left # n
    <3> DEFINE new == [lastChunk[1] EXCEPT !.left = left - n]
    <3>1. lastChunk' = [lastChunk EXCEPT ![1] = new]
      BY <1>0, <1>c, <2>2 DEF AfterCarving
    <3>2. new \in UncarvedEntry /\ new.chunk = lastChunk[1].chunk /\ new.left = left - n
      BY <1>2, <1>3, <2>2 DEF UncarvedEntry
    <3> HIDE DEF new
    <3>3. /\ lastChunk' \in Seq(UncarvedEntry) /\ Len(lastChunk') = Len(lastChunk)
          /\ lastChunk'[1] = new
          /\ \A i \in 1 .. Len(lastChunk) : i # 1 => lastChunk'[i] = lastChunk[i]
      BY <1>2, <3>1, <3>2
    <3>4. \A i \in 1 .. Len(lastChunk) : lastChunk'[i].chunk = lastChunk[i].chunk
      BY <3>2, <3>3
    <3> QED
      BY <2>0, <3>2, <3>3, <3>4
  <2> QED
    BY <2>1, <2>2
<1>10. \A i \in 1 .. Len(lastChunk') : \A m \in NumBlocks - lastChunk'[i].left + 1 .. NumBlocks :
         /\ <<lastChunk'[i].chunk, m>> \in Block /\ kind[<<lastChunk'[i].chunk, m>>] = "carve"
         /\ \A x \in 1 .. Len(list) : <<lastChunk'[i].chunk, m>> # list[x]
  <2> TAKE i \in 1 .. Len(lastChunk')
  <2> TAKE m \in NumBlocks - lastChunk'[i].left + 1 .. NumBlocks
  <2>1. PICK j \in 1 .. Len(lastChunk) :
            /\ lastChunk'[i].chunk = lastChunk[j].chunk
            /\ IF j = 1 THEN lastChunk'[i].left = left - n
                  ELSE lastChunk'[i].left = lastChunk[j].left
    BY <1>9
  <2>2. m \in NumBlocks - lastChunk[j].left + 1 .. NumBlocks
    <3>1. CASE j = 1
      BY <1>2, <1>3, <1>c, <2>1, <3>1, SMTT(20)
    <3>2. CASE j # 1
      BY <2>1, <3>2
    <3> QED
      BY <3>1, <3>2
  <2>3. <<lastChunk[j].chunk, m>> \in Block /\ kind[<<lastChunk[j].chunk, m>>] = "carve"
    BY <1>0, <1>1, <2>2, ListedBlocks DEF Account, CarveAcc
  <2>4. ASSUME NEW x \in 1 .. Len(list), <<lastChunk[j].chunk, m>> = list[x]
        PROVE  FALSE
    <3>1. list[x] = <<c, NumBlocks - left + x>> /\ x \in 1 .. n
      BY <1>5
    <3>2. lastChunk[j].chunk = c /\ m = NumBlocks - left + x
      BY <2>4, <3>1
    <3>3. j = 1
      BY <1>0, <1>2, <1>c, <3>2 DEF NoRepeats
    <3>4. m \in NumBlocks - (left - n) + 1 .. NumBlocks
      BY <2>1, <3>3
    <3> QED
      BY <1>2, <1>3, <3>1, <3>2, <3>4
  <2> QED
    BY <2>1, <2>3, <2>4
<1>11. /\ freeList' \in [Thread -> Seq(Block)] /\ users' \in [Block -> {0, 1}]
       /\ \A u \in Thread : Distinct(freeList'[u])
       /\ \A u \in Thread \ {t} : freeList'[u] = freeList[u]
       /\ \E k2, w2 :
             /\ FreeAcc(k2, w2)' /\ AppAcc(k2, w2)' /\ DetachAcc(k2, w2)' /\ MemAcc(k2, w2)'
             /\ ReleasingAcc(k2, w2)' /\ PadAcc(k2, w2)' /\ SystemAcc(k2, w2)'
             /\ ServingAcc(k2, w2)'
             /\ TempAcc(k2, w2)' /\ BatchAcc(k2, w2)' /\ ArrayAcc(k2, w2)' /\ ListAcc(k2, w2)'
             /\ \A b \in Block : (\A k \in 1 .. Len(list) : b # list[k])
                   => k2[b] = kind[b] /\ w2[b] = who[b]
  <2>1. Receive(t, list)
    BY <1>0 DEF list
  <2> QED
    BY <1>0, <1>1, <1>5, <1>6, <1>7, <1>8, <2>1, Handed
<1>12. Accounted'
  <2>1. PICK k2, w2 :
             /\ FreeAcc(k2, w2)' /\ AppAcc(k2, w2)' /\ DetachAcc(k2, w2)' /\ MemAcc(k2, w2)'
             /\ ReleasingAcc(k2, w2)' /\ PadAcc(k2, w2)' /\ SystemAcc(k2, w2)'
             /\ ServingAcc(k2, w2)'
             /\ TempAcc(k2, w2)' /\ BatchAcc(k2, w2)' /\ ArrayAcc(k2, w2)' /\ ListAcc(k2, w2)'
             /\ \A b \in Block : (\A k \in 1 .. Len(list) : b # list[k])
                   => k2[b] = kind[b] /\ w2[b] = who[b]
    BY <1>11
  <2>2. CarveAcc(k2, w2)'
    BY <1>10, <2>1 DEF CarveAcc
  <2> QED
    BY <2>1, <2>2 DEF Accounted, Account
<1>13. Types'
  <2>1. counter' \in [Thread -> Int]
    <3>1. CounterFor(n) \in Int
      BY <1>2, <1>3 DEF CounterFor
    <3> QED
      BY <1>0, <3>1 DEF Types, ListTypes
  <2>2. ListTypes'
    BY <1>0, <1>8, <1>9, <1>11, <2>1 DEF Types, ListTypes
  <2>3. ArrayTypes'
    BY <1>0, <1>8, ArraysUntouched
  <2>4. ChunkTypes'
    <3>1. \A u \in Thread : pc[u] \in InFetch
             => freeList'[u] = freeList[u] /\ tempList'[u] = tempList[u]
      BY <1>0, <1>8, <1>11 DEF InFetch
    <3> QED
      BY <1>0, <3>1, ChunksUntouched
  <2> QED
    BY <2>2, <2>3, <2>4 DEF Types
<1>14. NoRepeats'
  <2>1. ArraysApart' /\ \A i \in 1 .. Len(chunks') : Apart(Batches(i)')
    BY <1>0, <1>8, ArraysUntouched
  <2> QED
    BY <1>0, <1>8, <1>9, <1>11, <2>1 DEF NoRepeats
<1> QED
  BY <1>12, <1>13, <1>14 DEF Inv

-----------------------------------------------------------------------------
\* ltmalloc that finds nothing in the central cache: the thread goes for a chunk.
LEMMA NewKeeps ==
  ASSUME Inv, NEW t \in Thread, MallocNew(t)
  PROVE  Inv'
<1>0. /\ Types /\ NoRepeats /\ pc[t] = "idle" /\ freeList[t] = <<>> /\ tempList[t] = <<>>
      /\ counter' = [counter EXCEPT ![t] = 1] /\ pc' = [pc EXCEPT ![t] = "chunk"]
      /\ UNCHANGED <<freeList, tempList, batchVars, listVars, lastChunk, addrVars, padVars,
                     mapped, mem, squeezeVars, users>>
  BY DEF Inv, MallocNew, Fetching
<1>1. PICK kind, who : Account(kind, who)
  BY DEF Inv, Accounted
<1>2. UNCHANGED <<minChunkAddr, maxChunkAddr, pad, padSize, mapped, mem, detached, releasing>>
      /\ UNCHANGED <<freeList, tempList, firstBatch, chunks, ccFreeList, freeListSize,
                     lastChunk, users>>
  BY <1>0 DEF batchVars, listVars, addrVars, padVars, squeezeVars
<1>3. /\ pc' \in [Thread -> {"idle"} \cup InFetch \cup InSqueeze] /\ pc'[t] = "chunk"
      /\ \A u \in Thread : u # t => pc'[u] = pc[u]
  BY <1>0 DEF Types, ChunkTypes, InFetch
<1>4. Accounted'
  <2>1. Moves(kind, who, kind, who, {})
    BY DEF Moves
  <2>2. \A u \in Thread : /\ pc'[u] = "squeeze" => pc[u] = "squeeze" /\ detached'[u] = detached[u]
                          /\ pc'[u] = "install" => pc[u] = "install" /\ mem'[u] = mem[u]
    BY <1>2, <1>3
  <2>3. /\ FreeAcc(kind, who)' /\ TempAcc(kind, who)' /\ BatchAcc(kind, who)'
        /\ ArrayAcc(kind, who)' /\ ListAcc(kind, who)' /\ CarveAcc(kind, who)'
        /\ DetachAcc(kind, who)' /\ MemAcc(kind, who)' /\ ReleasingAcc(kind, who)'
        /\ PadAcc(kind, who)' /\ SystemAcc(kind, who)'
    <3>1. StillAccounted(kind, who, {})
      BY <1>0, <1>1, <2>1, Kept
    <3> QED
      BY <1>2, <2>2, <3>1 DEF StillAccounted
  <2>4. AppAcc(kind, who)' /\ ServingAcc(kind, who)'
    BY <1>1, <1>2 DEF Account, AppAcc, ServingAcc
  <2> QED
    BY <2>3, <2>4 DEF Accounted, Account
<1>5. Types'
  <2>1. counter' \in [Thread -> Int]
    BY <1>0 DEF Types, ListTypes
  <2>2. ListTypes'
    BY <1>0, <1>2, <2>1 DEF Types, ListTypes
  <2>3. ArrayTypes'
    BY <1>0, <1>2, ArraysUntouched
  <2>4. ChunkTypes'
    BY <1>0, <1>2, <1>3 DEF Types, ChunkTypes, InFetch, InSqueeze
  <2> QED
    BY <2>2, <2>3, <2>4 DEF Types
<1>6. NoRepeats'
  <2>1. ArraysApart' /\ \A i \in 1 .. Len(chunks') : Apart(Batches(i)')
    BY <1>0, <1>2, ArraysUntouched
  <2> QED
    BY <1>0, <1>2, <1>3, <2>1 DEF NoRepeats
<1> QED
  BY <1>4, <1>5, <1>6 DEF Inv

\* The system refuses a chunk: the thread has nothing, and its counter stays 1.
LEMMA FailsKeeps ==
  ASSUME Inv, NEW t \in Thread, FetchFails(t)
  PROVE  Inv'
<1>0. /\ Types /\ NoRepeats /\ pc[t] = "chunk" /\ pc' = [pc EXCEPT ![t] = "idle"]
      /\ UNCHANGED <<cacheVars, batchVars, listVars, lastChunk, addrVars, padVars, mapped, mem,
                     squeezeVars, users>>
  BY DEF Inv, FetchFails
<1>1. PICK kind, who : Account(kind, who)
  BY DEF Inv, Accounted
<1>2. UNCHANGED <<minChunkAddr, maxChunkAddr, pad, padSize, mapped, mem, detached, releasing>>
      /\ UNCHANGED <<freeList, tempList, counter, firstBatch, chunks, ccFreeList, freeListSize,
                     lastChunk, users>>
  BY <1>0 DEF cacheVars, batchVars, listVars, addrVars, padVars, squeezeVars
<1>3. /\ pc' \in [Thread -> {"idle"} \cup InFetch \cup InSqueeze] /\ pc'[t] = "idle"
      /\ \A u \in Thread : u # t => pc'[u] = pc[u]
  BY <1>0 DEF Types, ChunkTypes
<1>4. Accounted'
  <2>1. Moves(kind, who, kind, who, {})
    BY DEF Moves
  <2>2. \A u \in Thread : /\ pc'[u] = "squeeze" => pc[u] = "squeeze" /\ detached'[u] = detached[u]
                          /\ pc'[u] = "install" => pc[u] = "install" /\ mem'[u] = mem[u]
    BY <1>2, <1>3
  <2>3. /\ FreeAcc(kind, who)' /\ TempAcc(kind, who)' /\ BatchAcc(kind, who)'
        /\ ArrayAcc(kind, who)' /\ ListAcc(kind, who)' /\ CarveAcc(kind, who)'
        /\ DetachAcc(kind, who)' /\ MemAcc(kind, who)' /\ ReleasingAcc(kind, who)'
        /\ PadAcc(kind, who)' /\ SystemAcc(kind, who)'
    <3>1. StillAccounted(kind, who, {})
      BY <1>0, <1>1, <2>1, Kept
    <3> QED
      BY <1>2, <2>2, <3>1 DEF StillAccounted
  <2>4. AppAcc(kind, who)' /\ ServingAcc(kind, who)'
    BY <1>1, <1>2 DEF Account, AppAcc, ServingAcc
  <2> QED
    BY <2>3, <2>4 DEF Accounted, Account
<1>5. Types'
  <2>2. ListTypes'
    BY <1>0, <1>2 DEF Types, ListTypes
  <2>3. ArrayTypes'
    BY <1>0, <1>2, ArraysUntouched
  <2>4. ChunkTypes'
    BY <1>0, <1>2, <1>3 DEF Types, ChunkTypes, InFetch, InSqueeze
  <2> QED
    BY <2>2, <2>3, <2>4 DEF Types
<1>6. NoRepeats'
  <2>1. ArraysApart' /\ \A i \in 1 .. Len(chunks') : Apart(Batches(i)')
    BY <1>0, <1>2, ArraysUntouched
  <2> QED
    BY <1>0, <1>2, <1>3, <2>1 DEF NoRepeats
<1> QED
  BY <1>4, <1>5, <1>6 DEF Inv

\* The blocks of a chunk that a thread has got, from the pad or from the system, are its
\* own until it installs the chunk, and no list has one of them.
LEMMA Prepared ==
  ASSUME Inv, NEW kind, NEW who, Account(kind, who), NEW t \in Thread, pc[t] = "chunk",
         NEW c \in Chunk, Prepare(t, c), NEW s \in {"pad", "system"},
         \A m \in 1 .. NumBlocks : kind[<<c, m>>] = s
  PROVE  /\ ListTypes' /\ ArrayTypes' /\ NoRepeats'
         /\ pc'[t] = "install" /\ mem'[t] = c
               /\ pc' \in [Thread -> {"idle"} \cup InFetch \cup InSqueeze]
         /\ mem' \in [Thread -> mapped \cup {c, NULL}]
         /\ \A u \in Thread : u # t => pc'[u] = pc[u] /\ mem'[u] = mem[u]
         /\ UNCHANGED <<freeList, tempList, minChunkAddr, maxChunkAddr, detached, releasing>>
         /\ \E k2, w2 :
              /\ AppAcc(k2, w2)' /\ ServingAcc(k2, w2)' /\ FreeAcc(k2, w2)' /\ TempAcc(k2, w2)'
              /\ BatchAcc(k2, w2)' /\ ArrayAcc(k2, w2)' /\ ListAcc(k2, w2)' /\ CarveAcc(k2, w2)'
              /\ DetachAcc(k2, w2)' /\ MemAcc(k2, w2)' /\ ReleasingAcc(k2, w2)'
              /\ s # "pad" /\ UNCHANGED pad => PadAcc(k2, w2)'
              /\ s # "system" /\ UNCHANGED mapped => SystemAcc(k2, w2)'
              /\ \A d \in Chunk, m \in 1 .. NumBlocks : d # c => k2[<<d, m>>] = kind[<<d, m>>]
<1>0. /\ Types /\ NoRepeats
      /\ mem' = [mem EXCEPT ![t] = c] /\ pc' = [pc EXCEPT ![t] = "install"]
      /\ UNCHANGED <<cacheVars, batchVars, listVars, lastChunk, addrVars, squeezeVars, users>>
  BY DEF Inv, Prepare
<1>1. UNCHANGED <<minChunkAddr, maxChunkAddr, detached, releasing>>
      /\ UNCHANGED <<freeList, tempList, counter, firstBatch, chunks, ccFreeList, freeListSize,
                     lastChunk, users>>
  BY <1>0 DEF cacheVars, batchVars, listVars, addrVars, squeezeVars
<1>2. /\ pc' \in [Thread -> {"idle"} \cup InFetch \cup InSqueeze] /\ pc'[t] = "install"
      /\ mem' \in [Thread -> mapped \cup {c, NULL}] /\ mem'[t] = c
      /\ \A u \in Thread : u # t => pc'[u] = pc[u] /\ mem'[u] = mem[u]
  BY <1>0 DEF Types, ChunkTypes, InFetch
<1>3. ListTypes'
  BY <1>0, <1>1 DEF Types, ListTypes
<1>4. ArrayTypes' /\ ArraysApart' /\ \A i \in 1 .. Len(chunks') : Apart(Batches(i)')
  BY <1>0, <1>1, ArraysUntouched
<1>5. NoRepeats'
  BY <1>0, <1>1, <1>2, <1>4 DEF NoRepeats
<1> DEFINE M == {b \in Block : b[1] = c}
<1>6. PICK k2 : k2 = [b \in Block |-> IF b \in M THEN "mem" ELSE kind[b]]
  OBVIOUS
<1>7. PICK w2 : w2 = [b \in Block |-> IF b \in M THEN t ELSE who[b]]
  OBVIOUS
<1>8. Moves(kind, who, k2, w2, M)
  BY <1>6, <1>7 DEF Moves
<1>9. \A b \in Block : b \in M => kind[b] \in {s}
  BY DEF Block
<1>10. \A m \in 1 .. NumBlocks : k2[<<c, m>>] = "mem" /\ w2[<<c, m>>] = t
  BY <1>6, <1>7 DEF Block
<1>11. \A b \in Block : b \notin M => k2[b] = kind[b] /\ w2[b] = who[b]
  BY <1>6, <1>7
<1> HIDE DEF M
<1>12. \A u \in Thread : pc'[u] = "squeeze" => pc[u] = "squeeze" /\ detached'[u] = detached[u]
  BY <1>1, <1>2
<1>13. /\ FreeAcc(k2, w2)' /\ TempAcc(k2, w2)'
       /\ BatchAcc(k2, w2)' /\ ArrayAcc(k2, w2)' /\ ListAcc(k2, w2)' /\ CarveAcc(k2, w2)'
       /\ DetachAcc(k2, w2)' /\ ReleasingAcc(k2, w2)'
       /\ s # "pad" /\ UNCHANGED pad => PadAcc(k2, w2)'
       /\ s # "system" /\ UNCHANGED mapped => SystemAcc(k2, w2)'
  <2>1. StillAccounted(k2, w2, {s})
    BY <1>0, <1>8, <1>9, Kept
  <2> QED
    BY <1>1, <1>12, <2>1 DEF StillAccounted
<1>14. AppAcc(k2, w2)'
  BY <1>1, <1>9, <1>11 DEF Account, AppAcc
<1>15. ServingAcc(k2, w2)'
  <2>1. \A b \in Block : k2[b] \in Serving => kind[b] \in Serving
    BY <1>6, <1>11 DEF Serving
  <2>2. ServingAcc(kind, who)
    BY DEF Account
  <2> QED
    BY <1>1, <2>1, <2>2, StillServing
<1>16. MemAcc(k2, w2)'
  <2> SUFFICES ASSUME NEW u \in Thread, pc'[u] = "install", NEW m \in 1 .. NumBlocks
               PROVE  k2[<<mem'[u], m>>] = "mem" /\ w2[<<mem'[u], m>>] = u
    BY DEF MemAcc
  <2>1. CASE u = t
    BY <1>2, <1>10, <2>1
  <2>2. CASE u # t
    <3>1. pc[u] = "install" /\ mem'[u] = mem[u] /\ mem[u] \in Chunk
      BY <1>0, <1>2, <2>2 DEF Types, ChunkTypes
    <3>2. kind[<<mem[u], m>>] = "mem" /\ who[<<mem[u], m>>] = u /\ <<mem[u], m>> \in Block
      BY <3>1 DEF Account, MemAcc, Block
    <3> QED
      BY <1>9, <1>11, <3>1, <3>2
  <2> QED
    BY <2>1, <2>2
<1>17. \A d \in Chunk, m \in 1 .. NumBlocks : d # c => k2[<<d, m>>] = kind[<<d, m>>]
  BY <1>11 DEF M, Block
<1> QED
  BY <1>1, <1>2, <1>3, <1>4, <1>5, <1>13, <1>14, <1>15, <1>16, <1>17

\* A chunk of the pad is taken.
LEMMA FetchPadKeeps ==
  ASSUME Inv, NEW t \in Thread, FetchPad(t)
  PROVE  Inv'
<1>0. Types /\ pc[t] = "chunk" /\ padSize' = padSize - 1 /\ UNCHANGED mapped
  BY DEF Inv, FetchPad
<1>1. PICK c \in pad : Prepare(t, c) /\ pad' = pad \ {c}
  BY DEF FetchPad
<1>2. PICK kind, who : Account(kind, who)
  BY DEF Inv, Accounted
<1>3. c \in Chunk /\ c \in mapped /\ \A m \in 1 .. NumBlocks : kind[<<c, m>>] = "pad"
  BY <1>0, <1>2 DEF Types, ChunkTypes, Account, PadAcc
<1>4. /\ ListTypes' /\ ArrayTypes' /\ NoRepeats'
      /\ pc'[t] = "install" /\ mem'[t] = c
            /\ pc' \in [Thread -> {"idle"} \cup InFetch \cup InSqueeze]
      /\ mem' \in [Thread -> mapped \cup {c, NULL}]
      /\ \A u \in Thread : u # t => pc'[u] = pc[u] /\ mem'[u] = mem[u]
      /\ UNCHANGED <<freeList, tempList, minChunkAddr, maxChunkAddr, detached, releasing>>
  BY <1>0, <1>1, <1>2, <1>3, Prepared
<1>5. PICK k2, w2 :
         /\ AppAcc(k2, w2)' /\ ServingAcc(k2, w2)' /\ FreeAcc(k2, w2)' /\ TempAcc(k2, w2)'
         /\ BatchAcc(k2, w2)' /\ ArrayAcc(k2, w2)' /\ ListAcc(k2, w2)' /\ CarveAcc(k2, w2)'
         /\ DetachAcc(k2, w2)' /\ MemAcc(k2, w2)' /\ ReleasingAcc(k2, w2)' /\ SystemAcc(k2, w2)'
         /\ \A d \in Chunk, m \in 1 .. NumBlocks : d # c => k2[<<d, m>>] = kind[<<d, m>>]
  BY <1>0, <1>1, <1>2, <1>3, Prepared
<1>6. PadAcc(k2, w2)'
  <2>1. ASSUME NEW d \in pad', NEW m \in 1 .. NumBlocks
        PROVE  k2[<<d, m>>] = "pad"
    <3>1. d \in pad /\ d # c /\ d \in Chunk
      BY <1>0, <1>1 DEF Types, ChunkTypes
    <3> QED
      BY <1>2, <1>5, <3>1 DEF Account, PadAcc
  <2> QED
    BY <2>1 DEF PadAcc
<1>7. ChunkTypes'
  <2>1. padSize' = Cardinality(pad')
    <3>1. IsFiniteSet(pad)
      BY <1>0, LtAllocAssumption, FS_Subset DEF Types, ChunkTypes
    <3> QED
      BY <1>0, <1>1, <3>1, FS_RemoveElement DEF Types, ChunkTypes
  <2> QED
    BY <1>0, <1>1, <1>3, <1>4, <2>1 DEF Types, ChunkTypes, InFetch, InSqueeze
<1> QED
  BY <1>4, <1>5, <1>6, <1>7 DEF Inv, Types, Accounted, Account

\* A chunk is mapped.
LEMMA FetchSystemKeeps ==
  ASSUME Inv, NEW t \in Thread, FetchSystem(t)
  PROVE  Inv'
<1>0. Types /\ pc[t] = "chunk" /\ UNCHANGED <<pad, padSize>>
  BY DEF Inv, FetchSystem, padVars
<1>1. PICK c \in Chunk \ mapped : Prepare(t, c) /\ mapped' = mapped \cup {c}
  BY DEF FetchSystem
<1>2. PICK kind, who : Account(kind, who)
  BY DEF Inv, Accounted
<1>3. c \in Chunk /\ \A m \in 1 .. NumBlocks : kind[<<c, m>>] = "system"
  BY <1>0, <1>2 DEF Account, SystemAcc
<1>4. /\ ListTypes' /\ ArrayTypes' /\ NoRepeats'
      /\ pc'[t] = "install" /\ mem'[t] = c
            /\ pc' \in [Thread -> {"idle"} \cup InFetch \cup InSqueeze]
      /\ mem' \in [Thread -> mapped \cup {c, NULL}]
      /\ \A u \in Thread : u # t => pc'[u] = pc[u] /\ mem'[u] = mem[u]
      /\ UNCHANGED <<freeList, tempList, minChunkAddr, maxChunkAddr, detached, releasing>>
  BY <1>0, <1>1, <1>2, <1>3, Prepared
<1>5. PICK k2, w2 :
         /\ AppAcc(k2, w2)' /\ ServingAcc(k2, w2)' /\ FreeAcc(k2, w2)' /\ TempAcc(k2, w2)'
         /\ BatchAcc(k2, w2)' /\ ArrayAcc(k2, w2)' /\ ListAcc(k2, w2)' /\ CarveAcc(k2, w2)'
         /\ DetachAcc(k2, w2)' /\ MemAcc(k2, w2)' /\ ReleasingAcc(k2, w2)' /\ PadAcc(k2, w2)'
         /\ \A d \in Chunk, m \in 1 .. NumBlocks : d # c => k2[<<d, m>>] = kind[<<d, m>>]
  BY <1>0, <1>1, <1>2, <1>3, Prepared
<1>6. SystemAcc(k2, w2)'
  <2>1. ASSUME NEW d \in Chunk \ mapped', NEW m \in 1 .. NumBlocks
        PROVE  k2[<<d, m>>] = "system"
    BY <1>1, <1>2, <1>5 DEF Account, SystemAcc
  <2> QED
    BY <2>1 DEF SystemAcc
<1>7. ChunkTypes'
  BY <1>0, <1>1, <1>3, <1>4 DEF Types, ChunkTypes, InFetch, InSqueeze
<1> QED
  BY <1>4, <1>5, <1>6, <1>7 DEF Inv, Types, Accounted, Account

-----------------------------------------------------------------------------
\* A batch more is in the central cache, at the places of a class of its kind.
BatchJoined(k2, w2) ==
    /\ BatchAcc(k2, w2)' /\ ArrayAcc(k2, w2)' /\ ArrayTypes'
    /\ firstBatch' \in Seq(Seq(Block))
    /\ \A j \in 1 .. Len(firstBatch') : firstBatch'[j] # <<>>
    /\ Apart(firstBatch') /\ ArraysApart'
    /\ \A i \in 1 .. Len(chunks') : Apart(Batches(i)')
    /\ Len(chunks') = Len(chunks)
    /\ \A i \in 1 .. Len(chunks) : chunks'[i].chunk = chunks[i].chunk

\* What add_batch_to_central_cache is given becomes the central cache's.
LEMMA BatchAdded ==
  ASSUME Types, NoRepeats, NEW kind, NEW who, Account(kind, who),
         NEW batch \in Seq(Block), Distinct(batch), AddBatch(batch),
         \A k \in 1 .. Len(batch) : kind[batch[k]] # "batch",
         CHUNK_IS_SMALL /\ batch # <<>> => RoomAt \in 1 .. Len(chunks),
         NEW k2, NEW w2, \A b \in Block : kind[b] = "batch" => k2[b] = "batch",
         \A k \in 1 .. Len(batch) : k2[batch[k]] = "batch"
  PROVE  BatchJoined(k2, w2)
<1>1. /\ firstBatch \in Seq(Seq(Block)) /\ Len(firstBatch) \in Nat
      /\ \A j \in 1 .. Len(firstBatch) : firstBatch[j] # <<>>
      /\ Apart(firstBatch) /\ ArraysApart
      /\ \A i \in 1 .. Len(chunks) : Apart(Batches(i))
  BY DEF Types, ListTypes, NoRepeats
<1>2. \A j \in 1 .. Len(firstBatch) : \A k \in 1 .. Len(firstBatch[j]) :
         /\ firstBatch[j][k] \in Block /\ kind[firstBatch[j][k]] = "batch"
         /\ k2[firstBatch[j][k]] = "batch"
  BY ListedBlocks DEF Account, BatchAcc
<1>3. \A i \in 1 .. Len(chunks) : \A j \in 1 .. Len(Batches(i)) :
         \A k \in 1 .. Len(Batches(i)[j]) :
            kind[Batches(i)[j][k]] = "batch" /\ k2[Batches(i)[j][k]] = "batch"
  <2> TAKE i \in 1 .. Len(chunks)
  <2> TAKE j \in 1 .. Len(Batches(i))
  <2> TAKE k \in 1 .. Len(Batches(i)[j])
  <2>1. Batches(i)[j][k] \in Block
    BY ListedBlocks
  <2>2. kind[Batches(i)[j][k]] = "batch"
    BY DEF Account, ArrayAcc
  <2> QED
    BY <2>1, <2>2
<1>4. CASE batch = <<>>
  <2>1. UNCHANGED <<chunks, firstBatch>>
    BY <1>4 DEF AddBatch, batchVars
  <2>2. \A i : Batches(i)' = Batches(i)
    BY <2>1 DEF Batches
  <2>3. /\ ArrayTypes' /\ ArraysApart'
        /\ \A i \in 1 .. Len(chunks') : Apart(Batches(i)')
    BY <2>1, ArraysUntouched
  <2>4. BatchAcc(k2, w2)'
    BY <1>2, <2>1 DEF BatchAcc
  <2>5. ArrayAcc(k2, w2)'
    BY <1>3, <2>1, <2>2 DEF ArrayAcc
  <2> QED
    BY <1>1, <2>1, <2>3, <2>4, <2>5 DEF BatchJoined
<1>5. CASE batch # <<>> /\ ~CHUNK_IS_SMALL
  <2>1. firstBatch' = <<batch>> \o firstBatch /\ UNCHANGED chunks /\ chunks = <<>>
    BY <1>5 DEF AddBatch, Types, ArrayTypes
  <2>2. /\ firstBatch' \in Seq(Seq(Block)) /\ Len(firstBatch') = Len(firstBatch) + 1
        /\ firstBatch'[1] = batch
        /\ \A j \in 2 .. Len(firstBatch) + 1 :
              firstBatch'[j] = firstBatch[j - 1] /\ j - 1 \in 1 .. Len(firstBatch)
    BY <1>1, <2>1
  <2>3. \A j \in 1 .. Len(firstBatch') : \/ j = 1 /\ firstBatch'[j] = batch
                                         \/ /\ j - 1 \in 1 .. Len(firstBatch)
                                            /\ firstBatch'[j] = firstBatch[j - 1]
    BY <1>1, <2>2
  <2>4. Apart(firstBatch')
    <3>1. \A i \in 1 .. Len(firstBatch) : \A k \in 1 .. Len(firstBatch[i]), l \in 1 .. Len(batch) :
             firstBatch[i][k] # batch[l]
      BY <1>2
    <3> QED
      BY <1>1, <2>1, <3>1, OneMore
  <2>5. BatchAcc(k2, w2)'
    <3>1. ASSUME NEW j \in 1 .. Len(firstBatch'), NEW k \in 1 .. Len(firstBatch'[j])
          PROVE  k2[firstBatch'[j][k]] = "batch"
      <4>1. CASE firstBatch'[j] = batch
        BY <4>1
      <4>2. CASE j - 1 \in 1 .. Len(firstBatch) /\ firstBatch'[j] = firstBatch[j - 1]
        <5> DEFINE p == j - 1
        <5>1. p \in 1 .. Len(firstBatch) /\ firstBatch'[j] = firstBatch[p]
          BY <4>2
        <5> HIDE DEF p
        <5> QED
          BY <1>2, <5>1
      <4> QED
        BY <2>3, <4>1, <4>2
    <3> QED
      BY <3>1 DEF BatchAcc
  <2>6. \A j \in 1 .. Len(firstBatch') : firstBatch'[j] # <<>>
    BY <1>1, <1>5, <2>3, ZenonT(30)
  <2>7. Len(<<>>) = 0 /\ 1 .. 0 = {} /\ <<>> \in Seq(ArrayEntry)
    OBVIOUS
  <2>8. ArrayAcc(k2, w2)' /\ ArraysApart' /\ \A i \in 1 .. Len(chunks') : Apart(Batches(i)')
    BY <2>1, <2>7 DEF ArrayAcc, ArraysApart, ApartIn
  <2>9. ArrayTypes'
    BY <1>5, <2>1, <2>7 DEF ArrayTypes
  <2> QED
    BY <2>1, <2>2, <2>4, <2>5, <2>6, <2>7, <2>8, <2>9 DEF BatchJoined
<1>6. CASE batch # <<>> /\ CHUNK_IS_SMALL
  <2>b. PICK B \in 1 .. Len(chunks) : B = RoomAt
    BY <1>6
  <2>1. /\ chunks' = [chunks EXCEPT ![B].batches = Append(@, batch)]
        /\ UNCHANGED firstBatch /\ firstBatch = <<>>
    BY <1>6, <2>b DEF AddBatch, Types, ArrayTypes
  <2> DEFINE old == Batches(B)
  <2>2. /\ chunks \in Seq(ArrayEntry) /\ Len(chunks) \in Nat
        /\ \A i \in 1 .. Len(chunks) : chunks[i] \in ArrayEntry
    BY DEF Types, ArrayTypes
  <2>3. \A i \in 1 .. Len(chunks) : Batches(i) \in Seq(Seq(Block))
    BY <2>2 DEF Batches, ArrayEntry
  <2>4. /\ old \in Seq(Seq(Block)) /\ Append(old, batch) \in Seq(Seq(Block))
        /\ Len(old) \in Nat /\ Len(Append(old, batch)) = Len(old) + 1
        /\ Append(old, batch)[Len(old) + 1] = batch
        /\ \A j \in 1 .. Len(old) : Append(old, batch)[j] = old[j]
    <3>1. old \in Seq(Seq(Block))
      BY <2>3
    <3> HIDE DEF old
    <3> QED
      BY <3>1
  <2> DEFINE new == [chunks[B] EXCEPT !.batches = Append(old, batch)]
  <2>5. chunks' = [chunks EXCEPT ![B] = new]
    BY <2>1 DEF Batches
  <2>6. new \in ArrayEntry /\ new.batches = Append(old, batch) /\ new.chunk = chunks[B].chunk
    BY <2>2, <2>4 DEF ArrayEntry
  <2> HIDE DEF new
  <2>7. /\ chunks' \in Seq(ArrayEntry) /\ Len(chunks') = Len(chunks) /\ chunks'[B] = new
        /\ \A i \in 1 .. Len(chunks) : i # B => chunks'[i] = chunks[i]
    BY <2>2, <2>5, <2>6
  <2>8. /\ Batches(B)' = Append(old, batch)
        /\ \A i \in 1 .. Len(chunks) : i # B => Batches(i)' = Batches(i)
        /\ \A i \in 1 .. Len(chunks) : chunks'[i].chunk = chunks[i].chunk
    BY <2>6, <2>7 DEF Batches
  <2>9. \A i \in 1 .. Len(chunks) : \A j \in 1 .. Len(Batches(i)') :
           \/ j \in 1 .. Len(Batches(i)) /\ Batches(i)'[j] = Batches(i)[j]
           \/ i = B /\ j = Len(old) + 1 /\ Batches(i)'[j] = batch
    BY <2>4, <2>8, SMTT(20)
  <2> HIDE DEF old
  <2>10. ArrayAcc(k2, w2)'
    <3>1. ASSUME NEW i \in 1 .. Len(chunks), NEW j \in 1 .. Len(Batches(i)'),
                 NEW k \in 1 .. Len(Batches(i)'[j])
          PROVE  k2[Batches(i)'[j][k]] = "batch"
      <4>1. CASE Batches(i)'[j] = batch
        <5>1. k \in 1 .. Len(batch) /\ Batches(i)'[j][k] = batch[k]
          BY <4>1
        <5> QED
          BY <5>1
      <4>2. CASE j \in 1 .. Len(Batches(i)) /\ Batches(i)'[j] = Batches(i)[j]
        <5>1. k \in 1 .. Len(Batches(i)[j]) /\ Batches(i)'[j][k] = Batches(i)[j][k]
          BY <4>2
        <5> QED
          BY <1>3, <4>2, <5>1, SMTT(20)
      <4> QED
        BY <2>9, <4>1, <4>2
    <3>2. \A i \in 1 .. Len(chunks) : \A j \in 1 .. Len(Batches(i)') :
             \A k \in 1 .. Len(Batches(i)'[j]) : k2[Batches(i)'[j][k]] = "batch"
      BY <3>1
    <3>3. Len(chunks') = Len(chunks)
      BY <2>7
    <3> QED
      BY <3>2, <3>3 DEF ArrayAcc
  <2>11. BatchAcc(k2, w2)'
    BY <1>2, <2>1 DEF BatchAcc
  <2>12. ArrayTypes'
    <3>1. ASSUME NEW i \in 1 .. Len(chunks), NEW j \in 1 .. Len(Batches(i)')
          PROVE  Batches(i)'[j] # <<>>
      BY <1>6, <2>9 DEF Types, ArrayTypes
    <3> QED
      BY <1>6, <2>1, <2>7, <3>1 DEF ArrayTypes
  <2>13. ASSUME NEW i \in 1 .. Len(chunks')
         PROVE  Apart(Batches(i)')
    <3>1. CASE i # B
      BY <1>1, <2>7, <2>8, <3>1
    <3>2. CASE i = B
      <4>1. \A j \in 1 .. Len(old) : \A k \in 1 .. Len(old[j]), l \in 1 .. Len(batch) :
               old[j][k] # batch[l]
        BY <1>3 DEF old
      <4>2. Apart(old)
        BY <1>1 DEF old
      <4> QED
        <5>1. Apart(Append(old, batch))
          BY <2>4, <4>1, <4>2, OneMore
        <5> QED
          BY <2>8, <3>2, <5>1
    <3> QED
      BY <3>1, <3>2
  <2>14. ArraysApart'
    <3>1. ASSUME NEW i \in 1 .. Len(chunks'), NEW j \in 1 .. Len(chunks'),
                 NEW k \in 1 .. Len(chunks'[i].batches), NEW l \in 1 .. Len(chunks'[j].batches),
                 NEW x \in 1 .. Len(chunks'[i].batches[k]),
                 NEW y \in 1 .. Len(chunks'[j].batches[l]),
                 chunks'[i].batches[k][x] = chunks'[j].batches[l][y]
          PROVE  i = j
      <4>0. Batches(i)' = chunks'[i].batches /\ Batches(j)' = chunks'[j].batches
            /\ i \in 1 .. Len(chunks) /\ j \in 1 .. Len(chunks)
        BY <2>7 DEF Batches
      <4>1. CASE k \in 1 .. Len(Batches(i)) /\ Batches(i)'[k] = Batches(i)[k]
        <5>0. x \in 1 .. Len(Batches(i)[k]) /\ Batches(i)'[k][x] = Batches(i)[k][x]
          BY <4>0, <4>1
        <5>1. x \in 1 .. Len(Batches(i)[k]) /\ kind[Batches(i)[k][x]] = "batch"
              /\ Batches(i)'[k][x] = Batches(i)[k][x]
          BY <1>3, <4>0, <4>1, <5>0
        <5>2. l \in 1 .. Len(Batches(j)) /\ Batches(j)'[l] = Batches(j)[l]
          <6>1. CASE Batches(j)'[l] = batch
            <7>1. y \in 1 .. Len(batch) /\ Batches(i)[k][x] = batch[y]
              BY <3>1, <4>0, <5>1, <6>1
            <7> QED
              BY <5>1, <7>1
          <6>2. l \in 1 .. Len(Batches(j)')
            BY <4>0
          <6> QED
            BY <2>9, <4>0, <6>1, <6>2
        <5>3. /\ x \in 1 .. Len(Batches(i)[k]) /\ y \in 1 .. Len(Batches(j)[l])
              /\ Batches(i)[k][x] = Batches(j)[l][y]
          BY <3>1, <4>0, <4>1, <5>2
        <5> QED
          BY <1>1, <4>0, <4>1, <5>2, <5>3 DEF ArraysApart, ApartIn, Batches
      <4>2. CASE i = B /\ Batches(i)'[k] = batch
        <5>1. x \in 1 .. Len(batch) /\ kind[batch[x]] # "batch" /\ Batches(j)'[l][y] = batch[x]
          BY <3>1, <4>0, <4>2
        <5>2. CASE l \in 1 .. Len(Batches(j)) /\ Batches(j)'[l] = Batches(j)[l]
          <6>1. y \in 1 .. Len(Batches(j)[l]) /\ Batches(j)[l][y] = batch[x]
            BY <4>0, <5>1, <5>2
          <6>2. kind[Batches(j)[l][y]] = "batch"
            BY <1>3, <4>0, <5>2, <6>1
          <6> QED
            BY <5>1, <6>1, <6>2
        <5>3. l \in 1 .. Len(Batches(j)')
          BY <4>0
        <5> QED
          BY <2>9, <4>0, <4>2, <5>2, <5>3
      <4> QED
        BY <2>9, <4>0, <4>1, <4>2
    <3> QED
      BY <3>1, Zenon DEF ArraysApart, ApartIn
  <2> QED
    BY <1>1, <2>1, <2>7, <2>8, <2>10, <2>11, <2>12, <2>13, <2>14 DEF BatchJoined
<1> QED
  BY <1>4, <1>5, <1>6

\* A block is given back: the application has it no more.
LEMMA GivenBack ==
  ASSUME Types, NEW kind, NEW who, Account(kind, who), NEW b \in Block, GiveBack(b),
         NEW k2, NEW w2, \A x \in Block : x # b /\ kind[x] = "app" => k2[x] = "app"
  PROVE  AppAcc(k2, w2)' /\ users' \in [Block -> {0, 1}] /\ kind[b] = "app"
<1>1. users \in [Block -> {0, 1}] /\ users[b] = 1 /\ users' = [users EXCEPT ![b] = 0]
  BY DEF Types, ListTypes, GiveBack
<1>2. ASSUME NEW x \in Block, users'[x] = 1
      PROVE  k2[x] = "app"
  <2>1. x # b /\ users[x] = 1
    BY <1>1, <1>2
  <2> QED
    BY <2>1 DEF Account, AppAcc
<1>3. kind[b] = "app"
  BY <1>1 DEF Account, AppAcc
<1> QED
  BY <1>1, <1>2, <1>3 DEF AppAcc

\* ltfree into the cache of the thread.
LEMMA FreeKeeps ==
  ASSUME Inv, NEW t \in Thread, Free(t)
  PROVE  Inv'
<1>0. /\ Types /\ NoRepeats /\ pc[t] = "idle"
      /\ counter' = [counter EXCEPT ![t] = @ - 1]
      /\ UNCHANGED <<tempList, batchVars, listVars, lastChunk, addrVars, padVars, mapped, pc,
                     mem, squeezeVars>>
  BY DEF Inv, Free, Rest
<1>1. PICK kind, who : Account(kind, who)
  BY DEF Inv, Accounted
<1>2. PICK b \in Block : GiveBack(b) /\ freeList' = [freeList EXCEPT ![t] = <<b>> \o @]
  BY DEF Free
<1>3. UNCHANGED <<minChunkAddr, maxChunkAddr, pad, padSize, mapped, pc, mem, detached, releasing>>
      /\ UNCHANGED <<tempList, firstBatch, chunks, ccFreeList, freeListSize, lastChunk>>
  BY <1>0 DEF batchVars, listVars, addrVars, padVars, squeezeVars
<1>4. PICK k2 : k2 = [x \in Block |-> IF x = b THEN "free" ELSE kind[x]]
  OBVIOUS
<1>5. PICK w2 : w2 = [x \in Block |-> IF x = b THEN t ELSE who[x]]
  OBVIOUS
<1>6. k2[b] = "free" /\ w2[b] = t /\ \A x \in Block : x # b => k2[x] = kind[x] /\ w2[x] = who[x]
  BY <1>4, <1>5
<1>7. AppAcc(k2, w2)' /\ users' \in [Block -> {0, 1}] /\ kind[b] = "app"
  <2>1. \A x \in Block : x # b /\ kind[x] = "app" => k2[x] = "app"
    BY <1>6
  <2> QED
    BY <1>0, <1>1, <1>2, <2>1, GivenBack
<1> DEFINE old == freeList[t]
<1>8. /\ freeList \in [Thread -> Seq(Block)] /\ old \in Seq(Block) /\ Len(old) \in Nat
      /\ \A k \in 1 .. Len(old) : /\ old[k] \in Block /\ kind[old[k]] = "free"
                                  /\ who[old[k]] = t /\ old[k] # b
      /\ Distinct(old)
  BY <1>0, <1>1, <1>7 DEF Types, ListTypes, Account, FreeAcc, NoRepeats
<1>9. /\ freeList' \in [Thread -> Seq(Block)] /\ freeList'[t] = <<b>> \o old
      /\ \A u \in Thread : u # t => freeList'[u] = freeList[u]
  BY <1>2, <1>8
<1> HIDE DEF old
<1>10. \A k \in 1 .. Len(freeList'[t]) :
          \/ k = 1 /\ freeList'[t][k] = b
          \/ k - 1 \in 1 .. Len(old) /\ freeList'[t][k] = old[k - 1]
  BY <1>8, <1>9
<1>11. FreeAcc(k2, w2)'
  <2>1. ASSUME NEW u \in Thread, NEW k \in 1 .. Len(freeList'[u])
        PROVE  k2[freeList'[u][k]] = "free" /\ w2[freeList'[u][k]] = u
    <3>1. CASE u = t
      <4>1. CASE freeList'[t][k] = b
        BY <1>6, <3>1, <4>1
      <4>2. CASE k - 1 \in 1 .. Len(old) /\ freeList'[t][k] = old[k - 1]
        <5>1. PICK p \in 1 .. Len(old) : freeList'[t][k] = old[p]
          BY <4>2
        <5> QED
          BY <1>6, <1>8, <3>1, <5>1
      <4> QED
        BY <1>10, <2>1, <3>1, <4>1, <4>2
    <3>2. CASE u # t
      <4>1. /\ freeList[u][k] \in Block /\ kind[freeList[u][k]] = "free"
            /\ who[freeList[u][k]] = u /\ freeList'[u] = freeList[u]
        BY <1>0, <1>1, <1>9, <2>1, <3>2, ListedBlocks DEF Account, FreeAcc
      <4> QED
        BY <1>6, <1>7, <4>1
    <3> QED
      BY <3>1, <3>2
  <2> QED
    BY <2>1 DEF FreeAcc
<1>12. ServingAcc(k2, w2)'
  <2>1. \A x \in Block : k2[x] \in Serving => kind[x] \in Serving
    BY <1>6, <1>7 DEF Serving
  <2> QED
    BY <1>1, <1>3, <2>1, StillServing DEF Account
<1>13. Accounted'
  <2>1. Moves(kind, who, k2, w2, {b})
    BY <1>6 DEF Moves
  <2>2. \A x \in Block : x \in {b} => kind[x] \in {"app"}
    BY <1>7
  <2>3. StillAccounted(k2, w2, {"app"})
    BY <1>0, <1>1, <2>1, <2>2, Kept
  <2> QED
    BY <1>3, <1>7, <1>11, <1>12, <2>3 DEF StillAccounted, Accounted, Account
<1>14. Types'
  <2>1. counter' \in [Thread -> Int]
    BY <1>0 DEF Types, ListTypes
  <2>2. ListTypes'
    BY <1>0, <1>3, <1>7, <1>9, <2>1 DEF Types, ListTypes
  <2>3. ArrayTypes'
    BY <1>0, <1>3, ArraysUntouched
  <2>4. ChunkTypes'
    <3>1. \A u \in Thread : pc[u] \in InFetch
             => freeList'[u] = freeList[u] /\ tempList'[u] = tempList[u]
      BY <1>0, <1>3, <1>9 DEF InFetch
    <3> QED
      BY <1>0, <3>1, ChunksUntouched
  <2> QED
    BY <2>2, <2>3, <2>4 DEF Types
<1>15. NoRepeats'
  <2>1. ArraysApart' /\ \A i \in 1 .. Len(chunks') : Apart(Batches(i)')
    BY <1>0, <1>3, ArraysUntouched
  <2>2. Distinct(freeList'[t])
    <3> SUFFICES ASSUME NEW i \in 1 .. Len(freeList'[t]), NEW j \in 1 .. Len(freeList'[t]),
                        freeList'[t][i] = freeList'[t][j]
                 PROVE  i = j
      BY DEF Distinct
    <3>1. CASE i = 1
      BY <1>8, <1>10, <3>1, SMTT(20)
    <3>2. CASE i - 1 \in 1 .. Len(old) /\ freeList'[t][i] = old[i - 1]
      <4>1. j - 1 \in 1 .. Len(old) /\ freeList'[t][j] = old[j - 1]
        BY <1>8, <1>10, <3>2
      <4>2. i - 1 = j - 1
        BY <1>8, <3>2, <4>1 DEF Distinct
      <4> QED
        BY <4>2
    <3> QED
      BY <1>10, <3>1, <3>2
  <2>3. \A u \in Thread : Distinct(freeList'[u])
    <3> TAKE u \in Thread
    <3> QED
      BY <1>0, <1>9, <2>2 DEF NoRepeats
  <2> QED
    BY <1>0, <1>3, <2>1, <2>3 DEF NoRepeats
<1> QED
  BY <1>13, <1>14, <1>15 DEF Inv

\* ltfree when the cache is full: the cache is put aside, and the batch that was there
\* goes to the central cache, where a small class needs an array with room.
LEMMA FreeAndMoveKeeps ==
  ASSUME Inv, NEW t \in Thread, FreeAndMove(t),
         CHUNK_IS_SMALL /\ tempList[t] # <<>> => RoomAt \in 1 .. Len(chunks)
  PROVE  Inv'
<1>0. /\ Types /\ NoRepeats /\ pc[t] = "idle" /\ AddBatch(tempList[t])
      /\ tempList' = [tempList EXCEPT ![t] = freeList[t]]
      /\ counter' = [counter EXCEPT ![t] = BATCH - 1]
      /\ UNCHANGED <<listVars, lastChunk, addrVars, padVars, mapped, pc, mem, squeezeVars>>
  BY DEF Inv, FreeAndMove, Rest, Aside
<1>1. PICK kind, who : Account(kind, who)
  BY DEF Inv, Accounted
<1>2. PICK b \in Block : GiveBack(b) /\ freeList' = [freeList EXCEPT ![t] = <<b>>]
  BY DEF FreeAndMove
<1>3. UNCHANGED <<minChunkAddr, maxChunkAddr, pad, padSize, mapped, pc, mem, detached, releasing>>
      /\ UNCHANGED <<ccFreeList, freeListSize, lastChunk>>
  BY <1>0 DEF listVars, addrVars, padVars, squeezeVars
<1> DEFINE isTemp(x) == kind[x] = "temp" /\ who[x] = t
           isFree(x) == kind[x] = "free" /\ who[x] = t
<1>4. PICK k2 : k2 = [x \in Block |-> IF x = b THEN "free" ELSE IF isTemp(x) THEN "batch"
                                      ELSE IF isFree(x) THEN "temp" ELSE kind[x]]
  OBVIOUS
<1>5. PICK w2 : w2 = [x \in Block |-> IF x = b THEN t ELSE who[x]]
  OBVIOUS
<1>6. /\ k2[b] = "free" /\ w2[b] = t
      /\ \A x \in Block : x # b =>
            /\ w2[x] = who[x]
            /\ isTemp(x) => k2[x] = "batch"
            /\ isFree(x) => k2[x] = "temp"
            /\ ~isTemp(x) /\ ~isFree(x) => k2[x] = kind[x]
  BY <1>4, <1>5
<1>7. AppAcc(k2, w2)' /\ users' \in [Block -> {0, 1}] /\ kind[b] = "app"
  <2>1. \A x \in Block : x # b /\ kind[x] = "app" => k2[x] = "app"
    BY <1>6
  <2> QED
    BY <1>0, <1>1, <1>2, <2>1, GivenBack
<1>8. /\ freeList \in [Thread -> Seq(Block)] /\ tempList \in [Thread -> Seq(Block)]
      /\ \A u \in Thread : Distinct(freeList[u]) /\ Distinct(tempList[u])
  BY <1>0 DEF Types, ListTypes, NoRepeats
<1>9. /\ \A u \in Thread : \A k \in 1 .. Len(freeList[u]) :
            /\ freeList[u][k] \in Block /\ kind[freeList[u][k]] = "free"
            /\ who[freeList[u][k]] = u
      /\ \A u \in Thread : \A k \in 1 .. Len(tempList[u]) :
            /\ tempList[u][k] \in Block /\ kind[tempList[u][k]] = "temp"
            /\ who[tempList[u][k]] = u
  BY <1>0, <1>1, ListedBlocks DEF Account, FreeAcc, TempAcc
<1>10. /\ freeList' \in [Thread -> Seq(Block)] /\ freeList'[t] = <<b>>
       /\ \A u \in Thread : u # t => freeList'[u] = freeList[u]
       /\ tempList' \in [Thread -> Seq(Block)] /\ tempList'[t] = freeList[t]
       /\ \A u \in Thread : u # t => tempList'[u] = tempList[u]
  <2>1. <<b>> \in Seq(Block)
    OBVIOUS
  <2> QED
    BY <1>0, <1>2, <1>8, <2>1
<1> HIDE DEF isTemp, isFree
<1>11. FreeAcc(k2, w2)'
  <2>1. ASSUME NEW u \in Thread, NEW k \in 1 .. Len(freeList'[u])
        PROVE  k2[freeList'[u][k]] = "free" /\ w2[freeList'[u][k]] = u
    <3>1. CASE u = t
      <4>1. Len(<<b>>) = 1 /\ <<b>>[1] = b /\ 1 .. 1 = {1}
        OBVIOUS
      <4> QED
        BY <1>6, <1>10, <2>1, <3>1, <4>1
    <3>2. CASE u # t
      <4> DEFINE x == freeList[u][k]
      <4>1. x \in Block /\ kind[x] = "free" /\ who[x] = u /\ freeList'[u] = freeList[u]
        BY <1>9, <1>10, <2>1, <3>2
      <4> HIDE DEF x
      <4>2. ~isTemp(x) /\ ~isFree(x) /\ x # b
        BY <1>7, <3>2, <4>1 DEF isTemp, isFree
      <4>3. k2[x] = "free" /\ w2[x] = u
        BY <1>6, <4>1, <4>2
      <4> QED
        BY <4>1, <4>3 DEF x
    <3> QED
      BY <3>1, <3>2
  <2> QED
    BY <2>1 DEF FreeAcc
<1>12. TempAcc(k2, w2)'
  <2>1. ASSUME NEW u \in Thread, NEW k \in 1 .. Len(tempList'[u])
        PROVE  k2[tempList'[u][k]] = "temp" /\ w2[tempList'[u][k]] = u
    <3>1. CASE u = t
      <4> DEFINE x == freeList[t][k]
      <4>1. x \in Block /\ kind[x] = "free" /\ who[x] = t /\ tempList'[u] = freeList[t]
        BY <1>9, <1>10, <2>1, <3>1
      <4> HIDE DEF x
      <4>2. ~isTemp(x) /\ isFree(x) /\ x # b
        BY <1>7, <4>1 DEF isTemp, isFree
      <4>3. k2[x] = "temp" /\ w2[x] = t
        BY <1>6, <4>1, <4>2
      <4> QED
        BY <3>1, <4>1, <4>3 DEF x
    <3>2. CASE u # t
      <4> DEFINE x == tempList[u][k]
      <4>1. x \in Block /\ kind[x] = "temp" /\ who[x] = u /\ tempList'[u] = tempList[u]
        BY <1>9, <1>10, <2>1, <3>2
      <4> HIDE DEF x
      <4>2. ~isTemp(x) /\ ~isFree(x) /\ x # b
        BY <1>7, <3>2, <4>1 DEF isTemp, isFree
      <4>3. k2[x] = "temp" /\ w2[x] = u
        BY <1>6, <4>1, <4>2
      <4> QED
        BY <4>1, <4>3 DEF x
    <3> QED
      BY <3>1, <3>2
  <2> QED
    BY <2>1 DEF TempAcc
<1>13. /\ BatchAcc(k2, w2)' /\ ArrayAcc(k2, w2)' /\ ArrayTypes'
       /\ firstBatch' \in Seq(Seq(Block))
       /\ \A j \in 1 .. Len(firstBatch') : firstBatch'[j] # <<>>
       /\ Apart(firstBatch') /\ ArraysApart'
       /\ \A i \in 1 .. Len(chunks') : Apart(Batches(i)')
       /\ Len(chunks') = Len(chunks)
       /\ \A i \in 1 .. Len(chunks) : chunks'[i].chunk = chunks[i].chunk
  <2> DEFINE batch == tempList[t]
  <2>1. batch \in Seq(Block) /\ Distinct(batch)
    BY <1>8
  <2>2. \A k \in 1 .. Len(batch) : batch[k] \in Block /\ isTemp(batch[k]) /\ batch[k] # b
                                   /\ kind[batch[k]] # "batch"
    BY <1>7, <1>9 DEF isTemp
  <2>3. \A x \in Block : kind[x] = "batch" => k2[x] = "batch"
    BY <1>6, <1>7 DEF isTemp, isFree
  <2>4. /\ CHUNK_IS_SMALL /\ batch # <<>> => RoomAt \in 1 .. Len(chunks)
        /\ AddBatch(batch)
    BY <1>0
  <2> HIDE DEF batch
  <2>5. \A k \in 1 .. Len(batch) : k2[batch[k]] = "batch"
    BY <1>6, <2>2
  <2>6. Types /\ NoRepeats
    BY <1>0
  <2>7. \A k \in 1 .. Len(batch) : kind[batch[k]] # "batch"
    BY <2>2
  <2>8. BatchJoined(k2, w2)
    BY <1>1, <2>1, <2>3, <2>4, <2>5, <2>6, <2>7, BatchAdded
  <2> QED
    BY <2>8 DEF BatchJoined
<1>14. ServingAcc(k2, w2)'
  <2>1. \A x \in Block : k2[x] \in Serving => kind[x] \in Serving
    BY <1>6, <1>7 DEF Serving, isTemp, isFree
  <2> QED
    BY <1>1, <1>3, <1>13, <2>1, StillServing DEF Account
<1>15. Accounted'
  <2> DEFINE S == {"app", "free", "temp"}
             M == {x \in Block : kind[x] \in S}
  <2>1. Moves(kind, who, k2, w2, M)
    BY <1>6, <1>7 DEF Moves, isTemp, isFree
  <2>2. \A x \in Block : x \in M => kind[x] \in S
    OBVIOUS
  <2> HIDE DEF M
  <2>3. StillAccounted(k2, w2, S)
    BY <1>0, <1>1, <2>1, <2>2, Kept
  <2> QED
    BY <1>3, <1>7, <1>11, <1>12, <1>13, <1>14, <2>3 DEF StillAccounted, Accounted, Account
<1>16. Types'
  <2>1. counter' \in [Thread -> Int]
    BY <1>0, LtAllocAssumption DEF Types, ListTypes
  <2>2. ListTypes'
    BY <1>0, <1>3, <1>7, <1>10, <1>13, <2>1 DEF Types, ListTypes
  <2>4. ChunkTypes'
    <3>1. \A u \in Thread : pc[u] \in InFetch
             => freeList'[u] = freeList[u] /\ tempList'[u] = tempList[u]
      BY <1>0, <1>10 DEF InFetch
    <3> QED
      BY <1>0, <3>1, ChunksUntouched
  <2> QED
    BY <1>13, <2>2, <2>4 DEF Types
<1>17. NoRepeats'
  <2>1. Distinct(<<b>>)
    <3>1. Len(<<b>>) = 1 /\ 1 .. 1 = {1}
      OBVIOUS
    <3> QED
      BY <3>1 DEF Distinct
  <2>2. \A u \in Thread : Distinct(freeList'[u]) /\ Distinct(tempList'[u])
    <3> TAKE u \in Thread
    <3> QED
      BY <1>8, <1>10, <2>1
  <2> QED
    BY <1>0, <1>3, <1>13, <2>2 DEF NoRepeats
<1> QED
  BY <1>15, <1>16, <1>17 DEF Inv

\* A thread ends: its batch and its cache go to the central cache.
LEMMA ExitKeeps ==
  ASSUME Inv, NEW t \in Thread, Exit(t),
         CHUNK_IS_SMALL /\ tempList[t] # <<>> => RoomAt \in 1 .. Len(chunks)
  PROVE  Inv'
<1>0. /\ Types /\ NoRepeats /\ pc[t] = "idle" /\ AddBatch(tempList[t])
      /\ ccFreeList' = freeList[t] \o ccFreeList
      /\ freeListSize' = freeListSize + (IF freeList[t] = <<>> THEN 0 ELSE Len(freeList[t]))
      /\ freeList' = [freeList EXCEPT ![t] = <<>>]
      /\ tempList' = [tempList EXCEPT ![t] = <<>>]
      /\ counter' = [counter EXCEPT ![t] = 0]
      /\ UNCHANGED <<users, lastChunk, addrVars, padVars, mapped, pc, mem, squeezeVars>>
  BY DEF Inv, Exit, Rest, LeftBehind
<1>1. PICK kind, who : Account(kind, who)
  BY DEF Inv, Accounted
<1>3. UNCHANGED <<minChunkAddr, maxChunkAddr, pad, padSize, mapped, pc, mem, detached, releasing>>
      /\ UNCHANGED <<lastChunk, users>>
  BY <1>0 DEF addrVars, padVars, squeezeVars
<1> DEFINE isTemp(x) == kind[x] = "temp" /\ who[x] = t
           isFree(x) == kind[x] = "free" /\ who[x] = t
<1>4. PICK k2 : k2 = [x \in Block |-> IF isTemp(x) THEN "batch"
                                      ELSE IF isFree(x) THEN "list" ELSE kind[x]]
  OBVIOUS
<1>6. \A x \in Block : /\ isTemp(x) => k2[x] = "batch"
                       /\ isFree(x) => k2[x] = "list"
                       /\ ~isTemp(x) /\ ~isFree(x) => k2[x] = kind[x]
  BY <1>4
<1>8. /\ freeList \in [Thread -> Seq(Block)] /\ tempList \in [Thread -> Seq(Block)]
      /\ \A u \in Thread : Distinct(freeList[u]) /\ Distinct(tempList[u])
      /\ ccFreeList \in Seq(Block) /\ Distinct(ccFreeList)
      /\ freeListSize \in Nat /\ Len(ccFreeList) <= freeListSize
      /\ users \in [Block -> {0, 1}]
  BY <1>0 DEF Types, ListTypes, NoRepeats
<1>9. /\ \A u \in Thread : \A k \in 1 .. Len(freeList[u]) :
            /\ freeList[u][k] \in Block /\ kind[freeList[u][k]] = "free"
            /\ who[freeList[u][k]] = u
      /\ \A u \in Thread : \A k \in 1 .. Len(tempList[u]) :
            /\ tempList[u][k] \in Block /\ kind[tempList[u][k]] = "temp"
            /\ who[tempList[u][k]] = u
      /\ \A k \in 1 .. Len(ccFreeList) : ccFreeList[k] \in Block /\ kind[ccFreeList[k]] = "list"
  BY <1>0, <1>1, ListedBlocks DEF Account, FreeAcc, TempAcc, ListAcc
<1>10. /\ freeList' \in [Thread -> Seq(Block)] /\ freeList'[t] = <<>>
       /\ \A u \in Thread : u # t => freeList'[u] = freeList[u]
       /\ tempList' \in [Thread -> Seq(Block)] /\ tempList'[t] = <<>>
       /\ \A u \in Thread : u # t => tempList'[u] = tempList[u]
  BY <1>0, <1>8
<1> HIDE DEF isTemp, isFree
<1>7. AppAcc(k2, who)'
  <2>1. ASSUME NEW x \in Block, users'[x] = 1
        PROVE  k2[x] = "app"
    <3>1. kind[x] = "app"
      BY <1>1, <1>3, <2>1 DEF Account, AppAcc
    <3> QED
      BY <1>6, <3>1 DEF isTemp, isFree
  <2> QED
    BY <2>1 DEF AppAcc
<1>11. FreeAcc(k2, who)'
  <2>1. ASSUME NEW u \in Thread, NEW k \in 1 .. Len(freeList'[u])
        PROVE  k2[freeList'[u][k]] = "free" /\ who[freeList'[u][k]] = u
    <3>1. u # t
      <4>1. Len(<<>>) = 0 /\ 1 .. 0 = {}
        OBVIOUS
      <4> QED
        BY <1>10, <2>1, <4>1
    <3> DEFINE x == freeList[u][k]
    <3>2. x \in Block /\ kind[x] = "free" /\ who[x] = u /\ freeList'[u] = freeList[u]
      BY <1>9, <1>10, <2>1, <3>1
    <3> HIDE DEF x
    <3>3. ~isTemp(x) /\ ~isFree(x)
      BY <3>1, <3>2 DEF isTemp, isFree
    <3>4. k2[x] = "free" /\ who[x] = u
      BY <1>6, <3>2, <3>3
    <3> QED
      BY <3>2, <3>4 DEF x
  <2> QED
    BY <2>1 DEF FreeAcc
<1>12. TempAcc(k2, who)'
  <2>1. ASSUME NEW u \in Thread, NEW k \in 1 .. Len(tempList'[u])
        PROVE  k2[tempList'[u][k]] = "temp" /\ who[tempList'[u][k]] = u
    <3>1. u # t
      <4>1. Len(<<>>) = 0 /\ 1 .. 0 = {}
        OBVIOUS
      <4> QED
        BY <1>10, <2>1, <4>1
    <3> DEFINE x == tempList[u][k]
    <3>2. x \in Block /\ kind[x] = "temp" /\ who[x] = u /\ tempList'[u] = tempList[u]
      BY <1>9, <1>10, <2>1, <3>1
    <3> HIDE DEF x
    <3>3. ~isTemp(x) /\ ~isFree(x)
      BY <3>1, <3>2 DEF isTemp, isFree
    <3>4. k2[x] = "temp" /\ who[x] = u
      BY <1>6, <3>2, <3>3
    <3> QED
      BY <3>2, <3>4 DEF x
  <2> QED
    BY <2>1 DEF TempAcc
<1>13. /\ BatchAcc(k2, who)' /\ ArrayAcc(k2, who)' /\ ArrayTypes'
       /\ firstBatch' \in Seq(Seq(Block))
       /\ \A j \in 1 .. Len(firstBatch') : firstBatch'[j] # <<>>
       /\ Apart(firstBatch') /\ ArraysApart'
       /\ \A i \in 1 .. Len(chunks') : Apart(Batches(i)')
       /\ Len(chunks') = Len(chunks)
       /\ \A i \in 1 .. Len(chunks) : chunks'[i].chunk = chunks[i].chunk
  <2> DEFINE batch == tempList[t]
  <2>1. batch \in Seq(Block) /\ Distinct(batch)
    BY <1>8
  <2>2. \A k \in 1 .. Len(batch) : batch[k] \in Block /\ isTemp(batch[k])
                                   /\ kind[batch[k]] # "batch"
    BY <1>9 DEF isTemp
  <2>3. \A x \in Block : kind[x] = "batch" => k2[x] = "batch"
    BY <1>6 DEF isTemp, isFree
  <2>4. /\ CHUNK_IS_SMALL /\ batch # <<>> => RoomAt \in 1 .. Len(chunks)
        /\ AddBatch(batch)
    BY <1>0
  <2> HIDE DEF batch
  <2>5. \A k \in 1 .. Len(batch) : k2[batch[k]] = "batch"
    BY <1>6, <2>2
  <2>6. Types /\ NoRepeats
    BY <1>0
  <2>7. \A k \in 1 .. Len(batch) : kind[batch[k]] # "batch"
    BY <2>2
  <2>8. BatchJoined(k2, who)
    BY <1>1, <2>1, <2>3, <2>4, <2>5, <2>6, <2>7, BatchAdded
  <2> QED
    BY <2>8 DEF BatchJoined
<1>14. ServingAcc(k2, who)'
  <2>1. \A x \in Block : k2[x] \in Serving => kind[x] \in Serving
    BY <1>6 DEF Serving, isTemp, isFree
  <2> QED
    BY <1>1, <1>3, <1>13, <2>1, StillServing DEF Account
<1>15. /\ ccFreeList' \in Seq(Block) /\ freeListSize' \in Nat
       /\ Len(ccFreeList') <= freeListSize'
       /\ Distinct(ccFreeList') /\ ListAcc(k2, who)'
  <2> DEFINE s == freeList[t]
  <2>1. /\ s \in Seq(Block) /\ Distinct(s) /\ Len(s) \in Nat
        /\ s = <<>> => Len(s) = 0
        /\ \A k \in 1 .. Len(s) : s[k] \in Block /\ isFree(s[k]) /\ k2[s[k]] = "list"
    BY <1>6, <1>8, <1>9 DEF isFree
  <2>2. \A k \in 1 .. Len(ccFreeList) : k2[ccFreeList[k]] = "list"
    BY <1>6, <1>9 DEF isTemp, isFree
  <2>3. ccFreeList' = s \o ccFreeList
        /\ freeListSize' = freeListSize + (IF s = <<>> THEN 0 ELSE Len(s))
    BY <1>0, <1>8
  <2> HIDE DEF s
  <2>4. ToSet(s) \cap ToSet(ccFreeList) = {}
    <3> SUFFICES ASSUME NEW x \in ToSet(s), x \in ToSet(ccFreeList)
                 PROVE  FALSE
      OBVIOUS
    <3>1. PICK k \in 1 .. Len(s) : x = s[k]
      BY <2>1, ToSetPlaces
    <3>2. PICK l \in 1 .. Len(ccFreeList) : x = ccFreeList[l]
      BY <1>8, ToSetPlaces
    <3> QED
      <4>1. kind[s[k]] = "free"
        BY <2>1 DEF isFree
      <4>2. kind[ccFreeList[l]] = "list"
        BY <1>9
      <4> QED
        BY <3>1, <3>2, <4>1, <4>2
  <2>5. Distinct(s \o ccFreeList)
    BY <1>8, <2>1, <2>4, ConcatDistinct
  <2>6. /\ s \o ccFreeList \in Seq(Block) /\ Len(s \o ccFreeList) = Len(s) + Len(ccFreeList)
        /\ Len(ccFreeList) \in Nat
    BY <1>8, <2>1
  <2>7. \A k \in 1 .. Len(s \o ccFreeList) : k2[(s \o ccFreeList)[k]] = "list"
    <3> TAKE k \in 1 .. Len(s \o ccFreeList)
    <3>1. CASE k \in 1 .. Len(s)
      BY <1>8, <2>1, <3>1
    <3>2. CASE k \notin 1 .. Len(s)
      <4>1. PICK p \in 1 .. Len(ccFreeList) : k = Len(s) + p
        <5>1. k - Len(s) \in 1 .. Len(ccFreeList) /\ k = Len(s) + (k - Len(s))
          BY <2>1, <2>6, <3>2
        <5> QED
          BY <5>1
      <4>2. (s \o ccFreeList)[Len(s) + p] = ccFreeList[p]
        BY <1>8, <2>1, <2>6
      <4> QED
        BY <2>2, <4>1, <4>2
    <3> QED
      BY <3>1, <3>2
  <2>8. freeListSize' \in Nat /\ Len(s) + Len(ccFreeList) <= freeListSize'
    <3>1. freeListSize \in Nat /\ Len(ccFreeList) <= freeListSize
      BY <1>0 DEF Types, ListTypes
    <3> QED
      BY <2>1, <2>3, <2>6, <3>1
  <2> QED
    BY <2>3, <2>5, <2>6, <2>7, <2>8 DEF ListAcc
<1>16. Accounted'
  <2> DEFINE S == {"free", "temp"}
             M == {x \in Block : kind[x] \in S}
  <2>1. Moves(kind, who, k2, who, M)
    BY <1>6 DEF Moves, isTemp, isFree
  <2>2. \A x \in Block : x \in M => kind[x] \in S
    OBVIOUS
  <2> HIDE DEF M
  <2>3. StillAccounted(k2, who, S)
    BY <1>0, <1>1, <2>1, <2>2, Kept
  <2> QED
    BY <1>3, <1>7, <1>11, <1>12, <1>13, <1>14, <1>15, <2>3 DEF StillAccounted, Accounted, Account
<1>17. Types'
  <2>1. counter' \in [Thread -> Int]
    BY <1>0 DEF Types, ListTypes
  <2>2. ListTypes'
    BY <1>0, <1>3, <1>8, <1>10, <1>13, <1>15, <2>1 DEF Types, ListTypes
  <2>4. ChunkTypes'
    <3>1. \A u \in Thread : pc[u] \in InFetch
             => freeList'[u] = freeList[u] /\ tempList'[u] = tempList[u]
      BY <1>0, <1>10 DEF InFetch
    <3> QED
      BY <1>0, <3>1, ChunksUntouched
  <2> QED
    BY <1>13, <2>2, <2>4 DEF Types
<1>18. NoRepeats'
  <2>1. Distinct(<<>>)
    BY DEF Distinct
  <2>2. \A u \in Thread : Distinct(freeList'[u]) /\ Distinct(tempList'[u])
    <3> TAKE u \in Thread
    <3> QED
      BY <1>8, <1>10, <2>1
  <2> QED
    BY <1>0, <1>3, <1>13, <1>15, <2>2 DEF NoRepeats
<1> QED
  BY <1>16, <1>17, <1>18 DEF Inv

-----------------------------------------------------------------------------
\* Chunk c has joined the list of chunks.
ChunkJoined(c, k2, w2) ==
    /\ ArrayTypes' /\ ArraysApart' /\ ArrayAcc(k2, w2)'
    /\ \A i \in 1 .. Len(chunks') : Apart(Batches(i)')
    /\ \E i \in 1 .. Len(chunks') : chunks'[i].chunk = c
    /\ \A i \in 1 .. Len(chunks) : \E j \in 1 .. Len(chunks') :
          chunks'[j].chunk = chunks[i].chunk

\* The list of chunks with one more, which has no batches.
LEMMA ChunkInserted ==
  ASSUME Types, NoRepeats, NEW p \in 1 .. Len(chunks) + 1, NEW c \in Chunk, CHUNK_IS_SMALL,
         chunks' = InsertAt(chunks, p, [chunk |-> c, batches |-> <<>>]), UNCHANGED firstBatch,
         NEW k2, NEW w2,
         \A i \in 1 .. Len(chunks) : \A j \in 1 .. Len(Batches(i)) :
            \A k \in 1 .. Len(Batches(i)[j]) : k2[Batches(i)[j][k]] = "batch"
  PROVE  ChunkJoined(c, k2, w2)
<1> DEFINE new == [chunk |-> c, batches |-> <<>>]
<1>1. /\ new \in ArrayEntry /\ new.chunk = c /\ new.batches = <<>>
      /\ chunks \in Seq(ArrayEntry) /\ Len(chunks) \in Nat
      /\ chunks' = InsertAt(chunks, p, new)
  <2>1. <<>> \in Seq(Seq(Block))
    OBVIOUS
  <2> QED
    BY <2>1 DEF Types, ArrayTypes, ArrayEntry
<1> HIDE DEF new
<1>0. p \in 1 .. Len(chunks) + 1 /\ p \in Nat /\ p >= 1 /\ p <= Len(chunks) + 1
  BY <1>1
<1>2. /\ chunks' \in Seq(ArrayEntry) /\ Len(chunks') = Len(chunks) + 1 /\ chunks'[p] = new
      /\ \A i \in 1 .. p - 1 : chunks'[i] = chunks[i]
      /\ \A i \in p + 1 .. Len(chunks) + 1 : chunks'[i] = chunks[i - 1]
  <2>1. /\ InsertAt(chunks, p, new) \in Seq(ArrayEntry)
        /\ Len(InsertAt(chunks, p, new)) = Len(chunks) + 1
        /\ InsertAt(chunks, p, new)[p] = new
        /\ \A i \in 1 .. p - 1 : InsertAt(chunks, p, new)[i] = chunks[i]
        /\ \A i \in p + 1 .. Len(chunks) + 1 : InsertAt(chunks, p, new)[i] = chunks[i - 1]
    BY <1>0, <1>1, Inserted, SMTT(20)
  <2> QED
    BY <1>1, <2>1
<1> DEFINE old(i) == IF i < p THEN i ELSE i - 1
<1>3. \A i \in 1 .. Len(chunks') : i # p =>
         old(i) \in 1 .. Len(chunks) /\ chunks'[i] = chunks[old(i)]
  <2> TAKE i \in 1 .. Len(chunks')
  <2>0. i \in Nat /\ i >= 1 /\ i <= Len(chunks) + 1 /\ Len(chunks) \in Nat /\ p \in Nat
        /\ p >= 1 /\ p <= Len(chunks) + 1
    BY <1>0, <1>1, <1>2
  <2>1. CASE i < p
    <3>1. old(i) = i /\ i \in 1 .. p - 1 /\ i \in 1 .. Len(chunks)
      BY <2>0, <2>1
    <3> QED
      BY <1>2, <3>1
  <2>2. CASE i > p
    <3>1. old(i) = i - 1 /\ i \in p + 1 .. Len(chunks) + 1 /\ i - 1 \in 1 .. Len(chunks)
      BY <2>0, <2>2
    <3> QED
      BY <1>2, <3>1
  <2> QED
    BY <2>0, <2>1, <2>2
<1>4. \A i, j \in 1 .. Len(chunks') : i # p /\ j # p /\ old(i) = old(j) => i = j
  BY <1>0, <1>1, <1>2
<1>5. \A i \in 1 .. Len(chunks) : \E j \in 1 .. Len(chunks') : chunks'[j] = chunks[i]
  <2> TAKE i \in 1 .. Len(chunks)
  <2>1. CASE i < p
    <3>1. i \in 1 .. p - 1 /\ Len(chunks') = Len(chunks) + 1 /\ i \in 1 .. Len(chunks')
      BY <1>0, <1>1, <1>2, <2>1
    <3> QED
      BY <1>2, <3>1
  <2>2. CASE i >= p
    <3>1. i + 1 \in p + 1 .. Len(chunks) + 1 /\ i + 1 - 1 = i /\ i + 1 \in 1 .. Len(chunks')
      BY <1>0, <1>1, <1>2, <2>2
    <3>2. chunks'[i + 1] = chunks[i + 1 - 1]
      BY <1>2, <3>1
    <3> QED
      BY <3>1, <3>2
  <2>3. i < p \/ i >= p
    BY <1>0, <1>1
  <2> QED
    BY <2>1, <2>2, <2>3
<1> HIDE DEF old
<1>6. /\ \A i \in 1 .. Len(chunks') : Batches(i)' = chunks'[i].batches
      /\ \A i \in 1 .. Len(chunks) : Batches(i) = chunks[i].batches
  BY DEF Batches
<1>7. \A i \in 1 .. Len(chunks') : \/ Batches(i)' = <<>> /\ i = p
                                   \/ i # p /\ Batches(i)' = Batches(old(i))
  <2> TAKE i \in 1 .. Len(chunks')
  <2>1. CASE i = p
    BY <1>1, <1>2, <1>6, <2>1
  <2>2. CASE i # p
    BY <1>3, <1>6, <2>2
  <2> QED
    BY <2>1, <2>2
<1>8. Len(<<>>) = 0 /\ 1 .. 0 = {}
  OBVIOUS
<1>9. ASSUME NEW i \in 1 .. Len(chunks')
      PROVE  /\ \A j \in 1 .. Len(Batches(i)') : Batches(i)'[j] # <<>>
             /\ Apart(Batches(i)')
             /\ \A j \in 1 .. Len(Batches(i)') : \A k \in 1 .. Len(Batches(i)'[j]) :
                   k2[Batches(i)'[j][k]] = "batch"
  <2>1. CASE Batches(i)' = <<>>
    BY <1>8, <2>1 DEF Apart
  <2>2. CASE i # p /\ Batches(i)' = Batches(old(i))
    <3>1. PICK q \in 1 .. Len(chunks) : Batches(i)' = Batches(q)
      BY <1>3, <2>2
    <3>2. /\ \A j \in 1 .. Len(Batches(q)) : Batches(q)[j] # <<>>
          /\ Apart(Batches(q))
          /\ \A j \in 1 .. Len(Batches(q)) : \A k \in 1 .. Len(Batches(q)[j]) :
                k2[Batches(q)[j][k]] = "batch"
      BY DEF Types, ArrayTypes, NoRepeats
    <3> QED
      BY <3>1, <3>2
  <2> QED
    BY <1>7, <2>1, <2>2
<1>10. ArraysApart'
  <2>1. ASSUME NEW i \in 1 .. Len(chunks'), NEW j \in 1 .. Len(chunks'),
               NEW k \in 1 .. Len(chunks'[i].batches), NEW l \in 1 .. Len(chunks'[j].batches),
               NEW x \in 1 .. Len(chunks'[i].batches[k]),
               NEW y \in 1 .. Len(chunks'[j].batches[l]),
               chunks'[i].batches[k][x] = chunks'[j].batches[l][y]
        PROVE  i = j
    <3>1. i # p /\ j # p
      BY <1>1, <1>2, <1>8
    <3>2. /\ old(i) \in 1 .. Len(chunks) /\ chunks'[i] = chunks[old(i)]
          /\ old(j) \in 1 .. Len(chunks) /\ chunks'[j] = chunks[old(j)]
      BY <1>3, <3>1
    <3>3. ApartIn(chunks)
      BY DEF NoRepeats, ArraysApart
    <3>4. old(i) = old(j)
      <4> DEFINE oi == old(i)  oj == old(j)
      <4>1. /\ oi \in 1 .. Len(chunks) /\ oj \in 1 .. Len(chunks)
            /\ k \in 1 .. Len(chunks[oi].batches) /\ l \in 1 .. Len(chunks[oj].batches)
            /\ x \in 1 .. Len(chunks[oi].batches[k]) /\ y \in 1 .. Len(chunks[oj].batches[l])
            /\ chunks[oi].batches[k][x] = chunks[oj].batches[l][y]
        BY <2>1, <3>2
      <4> HIDE DEF oi, oj
      <4>2. oi = oj
        BY <3>3, <4>1 DEF ApartIn
      <4> QED
        BY <4>2 DEF oi, oj
    <3> QED
      BY <1>4, <3>1, <3>4
  <2> QED
    BY <2>1, Zenon DEF ArraysApart, ApartIn
<1>11. ArrayTypes'
  BY <1>2, <1>9 DEF Types, ArrayTypes
<1>12. ArrayAcc(k2, w2)'
  BY <1>9 DEF ArrayAcc
<1>13. /\ \E i \in 1 .. Len(chunks') : chunks'[i].chunk = c
       /\ \A i \in 1 .. Len(chunks) : \E j \in 1 .. Len(chunks') :
               chunks'[j].chunk = chunks[i].chunk
  BY <1>1, <1>2, <1>5
<1> QED
  BY <1>9, <1>10, <1>11, <1>12, <1>13 DEF ChunkJoined

\* A chunk that was got outside the lock becomes part of the central cache, which other
\* threads may have filled meanwhile: its first blocks are cut off, the rest waits.
LEMMA InstallKeeps ==
  ASSUME Inv, SmallInv, NEW t \in Thread, Install(t)
  PROVE  Inv'
<1>c. PICK c, n : c = mem[t] /\ n = Min2(NumBlocks, BATCH)
  OBVIOUS
<1> DEFINE list == Carved(c, 1, n)
           left == NumBlocks - n
<1>0. /\ Types /\ NoRepeats /\ pc[t] = "install" /\ pc' = [pc EXCEPT ![t] = "idle"]
      /\ mem' = [mem EXCEPT ![t] = NULL] /\ Receive(t, list)
      /\ counter' = [counter EXCEPT ![t] = CounterFor(n)]
      /\ lastChunk' = Hooked(c, left) /\ minChunkAddr' = LowestWith(c)
      /\ maxChunkAddr' = IF c > maxChunkAddr THEN c ELSE maxChunkAddr
      /\ UNCHANGED <<tempList, firstBatch, listVars, padVars, mapped, squeezeVars>>
  BY <1>c DEF Inv, Install
<1>1. PICK kind, who : Account(kind, who)
  BY DEF Inv, Accounted
<1>2. UNCHANGED <<pad, padSize, mapped, detached, releasing>>
      /\ UNCHANGED <<tempList, firstBatch, ccFreeList, freeListSize>>
  BY <1>0 DEF listVars, padVars, squeezeVars
<1>3. /\ c \in mapped /\ c \in Chunk /\ c \in Nat /\ c >= 1
      /\ minChunkAddr \in Nat /\ maxChunkAddr \in Nat
      /\ NumBlocks \in Nat /\ NumBlocks >= 1 /\ n \in 1 .. NumBlocks /\ n \in 1 .. BATCH
      /\ BATCH \in Nat
  <2>1. c \in mapped /\ c \in Chunk /\ minChunkAddr \in Nat /\ maxChunkAddr \in Nat
    BY <1>0, <1>c DEF Types, ChunkTypes
  <2>2. c \in Nat /\ c >= 1 /\ NumBlocks \in Nat /\ NumBlocks >= 1 /\ BATCH \in Nat /\ BATCH >= 1
    BY <2>1, LtAllocAssumption
  <2>3. n \in 1 .. NumBlocks /\ n \in 1 .. BATCH
    BY <1>c, <2>2 DEF Min2
  <2> QED
    BY <2>1, <2>2, <2>3
<1>4. \A m \in 1 .. NumBlocks : <<c, m>> \in Block /\ kind[<<c, m>>] = "mem" /\ who[<<c, m>>] = t
  BY <1>0, <1>1, <1>3, <1>c DEF Account, MemAcc, Block
<1>5. \A b \in Block : b[1] \in Chunk /\ b[2] \in 1 .. NumBlocks /\ b = <<b[1], b[2]>>
  BY DEF Block
<1>6. \A b \in Block : b[1] = c => kind[b] = "mem" /\ who[b] = t
  BY <1>4, <1>5
<1>7. /\ list \in Seq(Block) /\ Len(list) = n /\ list # <<>>
      /\ \A k \in 1 .. n : list[k] = <<c, k>>
  <2> DEFINE at(k) == 1 + k - 1
  <2>1. \A k \in 1 .. n : <<c, at(k)>> \in Block /\ at(k) = k
    BY <1>3 DEF Block
  <2>2. list = [k \in 1 .. n |-> <<c, at(k)>>]
    BY DEF Carved
  <2>3. Len(<<>>) = 0 /\ n \in Nat
    BY <1>3
  <2> HIDE DEF list, at
  <2>4. list \in Seq(Block) /\ Len(list) = n /\ \A k \in 1 .. n : list[k] = <<c, k>>
    BY <2>1, <2>2, <2>3
  <2> QED
    BY <1>3, <2>3, <2>4
<1> HIDE DEF list
<1>8. PICK k2 : k2 = [b \in Block |-> IF b[1] = c
                                      THEN IF b[2] = 1 THEN "app"
                                           ELSE IF b[2] <= n THEN "free" ELSE "carve"
                                      ELSE kind[b]]
  OBVIOUS
<1>9. PICK w2 : w2 = [b \in Block |-> IF b[1] = c THEN t ELSE who[b]]
  OBVIOUS
<1>10. /\ \A b \in Block : b[1] # c => k2[b] = kind[b] /\ w2[b] = who[b]
       /\ k2[<<c, 1>>] = "app"
       /\ \A m \in 2 .. n : k2[<<c, m>>] = "free" /\ w2[<<c, m>>] = t
       /\ \A m \in n + 1 .. NumBlocks : k2[<<c, m>>] = "carve"
       /\ \A b \in Block : b[1] = c => k2[b] \in Serving
  <2>1. \A m \in 1 .. NumBlocks :
           /\ k2[<<c, m>>] = IF m = 1 THEN "app" ELSE IF m <= n THEN "free" ELSE "carve"
           /\ w2[<<c, m>>] = t
    BY <1>4, <1>8, <1>9
  <2>2. \A b \in Block : b[1] # c => k2[b] = kind[b] /\ w2[b] = who[b]
    BY <1>8, <1>9
  <2>3. \A b \in Block : b[1] = c => k2[b] \in Serving
    BY <1>8 DEF Serving
  <2> QED
    BY <1>3, <2>1, <2>2, <2>3
<1>11. HandsOut(kind, who, k2, w2, t, list)
  <2>1. Distinct(list)
    BY <1>7 DEF Distinct
  <2>2. \A k \in 1 .. Len(list) : kind[list[k]] # "app"
    <3> TAKE k \in 1 .. Len(list)
    <3>1. k \in 1 .. NumBlocks /\ list[k] = <<c, k>>
      BY <1>3, <1>7
    <3>2. kind[<<c, k>>] = "mem"
      BY <1>4, <3>1
    <3> QED
      BY <3>1, <3>2
  <2>3. k2[list[1]] = "app" /\ \A k \in 2 .. Len(list) : k2[list[k]] = "free" /\ w2[list[k]] = t
    BY <1>3, <1>7, <1>10, SMTT(20)
  <2>4. /\ \A b \in Block : kind[b] = "app" => k2[b] = "app"
        /\ \A b \in Block : kind[b] = "free" /\ who[b] # t => k2[b] = "free" /\ w2[b] = who[b]
    BY <1>6, <1>10
  <2> QED
    BY <1>7, <2>1, <2>2, <2>3, <2>4 DEF HandsOut
<1>12. /\ FreeAcc(k2, w2)' /\ AppAcc(k2, w2)'
       /\ freeList' \in [Thread -> Seq(Block)] /\ users' \in [Block -> {0, 1}]
       /\ \A u \in Thread : Distinct(freeList'[u])
       /\ \A u \in Thread \ {t} : freeList'[u] = freeList[u]
  BY <1>0, <1>1, <1>11, Received
<1>13. /\ pc \in [Thread -> {"idle"} \cup InFetch \cup InSqueeze]
       /\ pc' \in [Thread -> {"idle"} \cup InFetch \cup InSqueeze] /\ pc'[t] = "idle"
       /\ \A u \in Thread : u # t => pc'[u] = pc[u]
       /\ mem' \in [Thread -> mapped \cup {NULL}] /\ mem'[t] = NULL
       /\ \A u \in Thread : u # t => mem'[u] = mem[u]
  BY <1>0 DEF Types, ChunkTypes
<1>14. StillAccounted(k2, w2, {"mem"})
  <2> DEFINE M == {b \in Block : b[1] = c}
  <2>1. Moves(kind, who, k2, w2, M)
    BY <1>10 DEF Moves
  <2>2. \A b \in Block : b \in M => kind[b] \in {"mem"}
    BY <1>6
  <2> HIDE DEF M
  <2> QED
    BY <1>0, <1>1, <2>1, <2>2, Kept
<1>15. MemAcc(k2, w2)'
  <2>1. ASSUME NEW u \in Thread, pc'[u] = "install", NEW m \in 1 .. NumBlocks
        PROVE  k2[<<mem'[u], m>>] = "mem" /\ w2[<<mem'[u], m>>] = u
    <3>1. u # t /\ pc[u] = "install" /\ mem'[u] = mem[u]
      BY <1>13, <2>1
    <3>2. kind[<<mem[u], m>>] = "mem" /\ who[<<mem[u], m>>] = u
      BY <1>1, <3>1 DEF Account, MemAcc
    <3>3. mem[u] \in Chunk
      BY <1>0, <3>1 DEF Types, ChunkTypes
    <3>4. <<mem[u], m>> \in Block /\ <<mem[u], m>>[1] = mem[u]
      BY <3>3 DEF Block
    <3>5. mem[u] # c
      BY <1>4, <3>1, <3>2
    <3> QED
      BY <1>10, <3>1, <3>2, <3>4, <3>5
  <2> QED
    BY <2>1 DEF MemAcc
<1>16. /\ lastChunk' \in Seq(UncarvedEntry) /\ CarveAcc(k2, w2)'
       /\ \A i, j \in 1 .. Len(lastChunk') : lastChunk'[i].chunk = lastChunk'[j].chunk => i = j
  <2>1. CASE left = 0
    <3>1. lastChunk' = <<>> /\ Len(<<>>) = 0 /\ 1 .. 0 = {} /\ <<>> \in Seq(UncarvedEntry)
      BY <1>0, <2>1 DEF Hooked
    <3> QED
      BY <3>1 DEF CarveAcc
  <2>2. CASE left # 0
    <3> DEFINE new == [chunk |-> c, left |-> left]
    <3>1. new \in UncarvedEntry /\ new.chunk = c /\ new.left = left
      BY <1>3, <2>2 DEF UncarvedEntry
    <3>2. lastChunk' = <<new>> \o lastChunk
      BY <1>0, <2>2 DEF Hooked
    <3> HIDE DEF new
    <3>3. /\ lastChunk \in Seq(UncarvedEntry) /\ Len(lastChunk) \in Nat
          /\ \A i, j \in 1 .. Len(lastChunk) : lastChunk[i].chunk = lastChunk[j].chunk => i = j
          /\ \A i \in 1 .. Len(lastChunk) : lastChunk[i] \in UncarvedEntry
      <4>1. lastChunk \in Seq(UncarvedEntry)
        BY <1>0 DEF Types, ListTypes
      <4>2. \A i, j \in 1 .. Len(lastChunk) : lastChunk[i].chunk = lastChunk[j].chunk => i = j
        BY <1>0 DEF NoRepeats
      <4>3. Len(lastChunk) \in Nat /\ \A i \in 1 .. Len(lastChunk) : lastChunk[i] \in UncarvedEntry
        BY <4>1
      <4> QED
        BY <4>1, <4>2, <4>3
    <3>4. \A i \in 1 .. Len(lastChunk) :
             /\ lastChunk[i].chunk \in Chunk /\ lastChunk[i].left \in 1 .. NumBlocks
             /\ lastChunk[i].chunk # c
      <4> TAKE i \in 1 .. Len(lastChunk)
      <4>1. lastChunk[i].chunk \in Chunk /\ lastChunk[i].left \in 1 .. NumBlocks
        BY <3>3 DEF UncarvedEntry
      <4>2. NumBlocks \in NumBlocks - lastChunk[i].left + 1 .. NumBlocks
               /\ NumBlocks \in 1 .. NumBlocks
        BY <1>3, <4>1
      <4>3. kind[<<lastChunk[i].chunk, NumBlocks>>] = "carve"
        BY <1>1, <4>2 DEF Account, CarveAcc
      <4> QED
        BY <1>4, <4>1, <4>2, <4>3
    <3>5. /\ lastChunk' \in Seq(UncarvedEntry) /\ Len(lastChunk') = Len(lastChunk) + 1
          /\ lastChunk'[1] = new
          /\ \A i \in 1 .. Len(lastChunk') :
                \/ i = 1
                \/ i - 1 \in 1 .. Len(lastChunk) /\ lastChunk'[i] = lastChunk[i - 1]
      BY <3>1, <3>2, <3>3
    <3>6. \A i, j \in 1 .. Len(lastChunk') : lastChunk'[i].chunk = lastChunk'[j].chunk => i = j
      <4> SUFFICES ASSUME NEW i \in 1 .. Len(lastChunk'), NEW j \in 1 .. Len(lastChunk'),
                          lastChunk'[i].chunk = lastChunk'[j].chunk
                   PROVE  i = j
        OBVIOUS
      <4>1. CASE i = 1
        BY <3>1, <3>4, <3>5, <4>1
      <4>2. CASE i # 1
        <5>1. j # 1
          BY <3>1, <3>4, <3>5, <4>2
        <5>2. i - 1 = j - 1
          BY <3>3, <3>5, <4>2, <5>1
        <5> QED
          BY <5>2
      <4> QED
        BY <4>1, <4>2
    <3>7. CarveAcc(k2, w2)'
      <4>1. ASSUME NEW i \in 1 .. Len(lastChunk'),
                   NEW m \in NumBlocks - lastChunk'[i].left + 1 .. NumBlocks
            PROVE  k2[<<lastChunk'[i].chunk, m>>] = "carve"
        <5>1. CASE i = 1
          <6>1. lastChunk'[i].chunk = c /\ m \in n + 1 .. NumBlocks
            BY <1>3, <3>1, <3>5, <5>1
          <6> QED
            BY <1>10, <6>1
        <5>2. CASE i # 1
          <6>1. PICK p \in 1 .. Len(lastChunk) : lastChunk'[i] = lastChunk[p]
            BY <3>5, <5>2
          <6>2. /\ kind[<<lastChunk[p].chunk, m>>] = "carve"
                /\ <<lastChunk[p].chunk, m>> \in Block
                /\ <<lastChunk[p].chunk, m>>[1] # c
            BY <1>0, <1>1, <3>4, <6>1, ListedBlocks DEF Account, CarveAcc
          <6> QED
            BY <1>10, <6>1, <6>2
        <5> QED
          BY <5>1, <5>2
      <4> QED
        BY <4>1 DEF CarveAcc
    <3> QED
      BY <3>5, <3>6, <3>7
  <2> QED
    BY <2>1, <2>2
<1> HIDE DEF left
<1>17. /\ ArrayTypes' /\ ArraysApart' /\ ArrayAcc(k2, w2)'
       /\ \A i \in 1 .. Len(chunks') : Apart(Batches(i)')
       /\ CHUNK_IS_SMALL => \E i \in 1 .. Len(chunks') : chunks'[i].chunk = c
       /\ CHUNK_IS_SMALL => \A i \in 1 .. Len(chunks) : \E j \in 1 .. Len(chunks') :
               chunks'[j].chunk = chunks[i].chunk
  <2>1. \A i \in 1 .. Len(chunks) : \A j \in 1 .. Len(Batches(i)) :
           \A k \in 1 .. Len(Batches(i)[j]) : k2[Batches(i)[j][k]] = "batch"
    <3> TAKE i \in 1 .. Len(chunks)
    <3> TAKE j \in 1 .. Len(Batches(i))
    <3> TAKE k \in 1 .. Len(Batches(i)[j])
    <3>1. Batches(i)[j][k] \in Block
      BY <1>0, ListedBlocks
    <3>2. kind[Batches(i)[j][k]] = "batch"
      BY <1>1 DEF Account, ArrayAcc
    <3> QED
      BY <1>6, <1>10, <3>1, <3>2
  <2>2. CASE CHUNK_IS_SMALL
    <3>1. chunks' = InsertAt(chunks, PlaceOfNew, [chunk |-> c, batches |-> <<>>])
      BY <1>c, <2>2 DEF Install
    <3>2. PICK p \in 1 .. Len(chunks) + 1 : p = PlaceOfNew
      <4>1. Len(chunks) \in Nat /\ chunkWithFreeBatches \in 0 .. Len(chunks)
        BY <1>0, <2>2 DEF SmallInv, Arrays, Types, ArrayTypes
      <4>2. PlaceOfNew \in 1 .. Len(chunks) + 1
        BY <4>1 DEF PlaceOfNew
      <4> QED
        BY <4>2
    <3>3. Types /\ NoRepeats /\ UNCHANGED firstBatch
      BY <1>0, <1>2
    <3>4. ChunkJoined(c, k2, w2)
      BY <1>3, <2>1, <2>2, <3>1, <3>2, <3>3, ChunkInserted
    <3> QED
      BY <2>2, <3>4 DEF ChunkJoined
  <2>3. CASE ~CHUNK_IS_SMALL
    <3>1. UNCHANGED <<chunks, firstBatch>>
      BY <1>2, <2>3 DEF Install
    <3>2. /\ ArrayTypes' /\ ArraysApart'
          /\ \A i \in 1 .. Len(chunks') : Apart(Batches(i)')
      BY <1>0, <3>1, ArraysUntouched
    <3>3. \A i : Batches(i)' = Batches(i)
      BY <3>1 DEF Batches
    <3>4. ArrayAcc(k2, w2)'
      BY <2>1, <3>1, <3>3 DEF ArrayAcc
    <3> QED
      BY <2>3, <3>2, <3>4
  <2> QED
    BY <2>2, <2>3
<1>18. ServingAcc(k2, w2)'
  <2>1. ASSUME NEW b \in Block, k2[b] \in Serving
        PROVE  /\ 1 <= minChunkAddr' /\ minChunkAddr' <= b[1] /\ b[1] <= maxChunkAddr'
               /\ CHUNK_IS_SMALL => \E i \in 1 .. Len(chunks') : chunks'[i].chunk = b[1]
    <3>1. CASE b[1] = c
      BY <1>0, <1>3, <1>17, <3>1 DEF LowestWith
    <3>2. CASE b[1] # c
      <4>1. /\ 1 <= minChunkAddr /\ minChunkAddr <= b[1] /\ b[1] <= maxChunkAddr
            /\ CHUNK_IS_SMALL => \E i \in 1 .. Len(chunks) : chunks[i].chunk = b[1]
        BY <1>1, <1>10, <2>1, <3>2 DEF Account, ServingAcc
      <4>2. b[1] \in Nat
        BY <1>5, LtAllocAssumption
      <4>3. 1 <= minChunkAddr' /\ minChunkAddr' <= b[1] /\ b[1] <= maxChunkAddr'
        BY <1>0, <1>3, <4>1, <4>2 DEF LowestWith
      <4>4. CHUNK_IS_SMALL => \E i \in 1 .. Len(chunks') : chunks'[i].chunk = b[1]
        BY <1>17, <4>1
      <4> QED
        BY <4>3, <4>4
    <3> QED
      BY <3>1, <3>2
  <2> QED
    BY <2>1 DEF ServingAcc
<1>19. Accounted'
  <2>1. /\ TempAcc(k2, w2)' /\ BatchAcc(k2, w2)' /\ ListAcc(k2, w2)' /\ ReleasingAcc(k2, w2)'
        /\ PadAcc(k2, w2)' /\ SystemAcc(k2, w2)' /\ DetachAcc(k2, w2)'
    <3>1. \A u \in Thread : pc'[u] = "squeeze" => pc[u] = "squeeze" /\ detached'[u] = detached[u]
      BY <1>2, <1>13
    <3> QED
      BY <1>2, <1>14, <3>1 DEF StillAccounted
  <2> QED
    BY <1>12, <1>15, <1>16, <1>17, <1>18, <2>1 DEF Accounted, Account
<1>20. Types'
  <2>1. counter' \in [Thread -> Int]
    <3>1. CounterFor(n) \in Int
      BY <1>3 DEF CounterFor
    <3> QED
      BY <1>0, <3>1 DEF Types, ListTypes
  <2>2. ListTypes'
    BY <1>0, <1>2, <1>12, <1>16, <2>1 DEF Types, ListTypes
  <2>3. minChunkAddr' \in Nat /\ maxChunkAddr' \in Nat
    BY <1>0, <1>3 DEF LowestWith
  <2>4. ChunkTypes'
    BY <1>0, <1>2, <1>12, <1>13, <2>3 DEF Types, ChunkTypes, InFetch, InSqueeze
  <2> QED
    BY <1>17, <2>2, <2>4 DEF Types
<1>21. NoRepeats'
  BY <1>0, <1>2, <1>12, <1>13, <1>16, <1>17 DEF NoRepeats
<1> QED
  BY <1>19, <1>20, <1>21 DEF Inv

-----------------------------------------------------------------------------
\* ltsqueeze detaches the central cache: its blocks become those of the thread, and the
\* buffer of counts is made for the addresses that the class has then.
LEMMA SqueezeDetachKeeps ==
  ASSUME Inv, NEW t \in Thread, SqueezeDetach(t)
  PROVE  Inv'
<1>1. PICK kind, who : Account(kind, who)
  BY DEF Inv, Accounted
<1>2. PICK size \in PadSize : detached' = [detached EXCEPT ![t] =
         [batches |-> firstBatch, list |-> ccFreeList, size |-> freeListSize,
          min |-> minChunkAddr, max |-> BufferEnd, padsz |-> size]]
  BY DEF SqueezeDetach
<1>d. PICK d : d = [batches |-> firstBatch, list |-> ccFreeList, size |-> freeListSize,
                    min |-> minChunkAddr, max |-> BufferEnd, padsz |-> size]
  OBVIOUS
<1>0. /\ Types /\ NoRepeats /\ t \in Squeezer /\ pc[t] = "idle"
      /\ pc' = [pc EXCEPT ![t] = "squeeze"] /\ detached' = [detached EXCEPT ![t] = d]
      /\ firstBatch' = <<>> /\ ccFreeList' = <<>> /\ freeListSize' = 0
      /\ UNCHANGED <<cacheVars, chunks, chunkWithFreeBatches, lastChunk, addrVars, padVars,
                     mapped, mem, releasing, users>>
  BY <1>2, <1>d DEF Inv, SqueezeDetach
<1>3. UNCHANGED <<freeList, tempList, counter, chunks, lastChunk, minChunkAddr, maxChunkAddr,
                  pad, padSize, mapped, mem, releasing, users>>
  BY <1>0 DEF cacheVars, addrVars, padVars
<1>4. ~CHUNK_IS_SMALL /\ chunks = <<>>
  <2>1. ~CHUNK_IS_SMALL
    BY <1>0, LtAllocAssumption
  <2> QED
    BY <1>0, <2>1 DEF Types, ArrayTypes
<1>5. /\ d \in Detached /\ d.batches = firstBatch /\ d.list = ccFreeList
      /\ d.size = freeListSize /\ d.min = minChunkAddr /\ d.max = maxChunkAddr
  BY <1>0, <1>d DEF Types, ListTypes, ChunkTypes, Detached, BufferEnd
<1>6. /\ pc \in [Thread -> {"idle"} \cup InFetch \cup InSqueeze]
      /\ pc' \in [Thread -> {"idle"} \cup InFetch \cup InSqueeze] /\ pc'[t] = "squeeze"
      /\ \A u \in Thread : u # t => pc'[u] = pc[u]
      /\ detached' \in [Thread -> Detached \cup {NULL}] /\ detached'[t] = d
      /\ \A u \in Thread : u # t => detached'[u] = detached[u]
  BY <1>0, <1>5 DEF Types, ChunkTypes, InSqueeze
<1>7. PICK k2 : k2 = [b \in Block |-> IF kind[b] = "batch" THEN "dbatch"
                                      ELSE IF kind[b] = "list" THEN "dlist" ELSE kind[b]]
  OBVIOUS
<1>8. PICK w2 : w2 = [b \in Block |-> IF kind[b] \in {"batch", "list"} THEN t ELSE who[b]]
  OBVIOUS
<1>9. \A b \in Block : /\ kind[b] = "batch" => k2[b] = "dbatch" /\ w2[b] = t
                       /\ kind[b] = "list" => k2[b] = "dlist" /\ w2[b] = t
                       /\ kind[b] \notin {"batch", "list"} => k2[b] = kind[b] /\ w2[b] = who[b]
  BY <1>7, <1>8
<1>10. AppAcc(k2, w2)'
  BY <1>1, <1>3, <1>9 DEF Account, AppAcc
<1>11. ServingAcc(k2, w2)'
  <2>1. \A b \in Block : k2[b] \in Serving => kind[b] \in Serving
    BY <1>9 DEF Serving
  <2> QED
    BY <1>1, <1>3, <2>1, StillServing DEF Account
<1>12. StillAccounted(k2, w2, {"batch", "list"})
  <2> DEFINE M == {b \in Block : kind[b] \in {"batch", "list"}}
  <2>1. Moves(kind, who, k2, w2, M)
    BY <1>9 DEF Moves
  <2>2. \A b \in Block : b \in M => kind[b] \in {"batch", "list"}
    OBVIOUS
  <2> HIDE DEF M
  <2> QED
    BY <1>0, <1>1, <2>1, <2>2, Kept
<1>13. DetachAcc(k2, w2)'
  <2>1. ASSUME NEW u \in Thread, pc'[u] = "squeeze"
        PROVE  DetachedAs(k2, w2, u, detached'[u])
    <3>1. CASE u # t
      <4>1. pc[u] = "squeeze" /\ detached'[u] = detached[u]
        BY <1>6, <2>1, <3>1
      <4>2. detached[u] \in Detached /\ DetachedAs(kind, who, u, detached[u])
        BY <1>0, <1>1, <4>1 DEF Account, DetachAcc, Types, ChunkTypes, InSqueeze
      <4>3. \A b \in Block : kind[b] \in {"dbatch", "dlist"} /\ who[b] = u
               => k2[b] = kind[b] /\ w2[b] = who[b]
        BY <1>9
      <4> QED
        BY <4>1, <4>2, <4>3, DetachedStays
    <3>2. CASE u = t
      <4>0. \A b \in Block : kind[b] \in Serving => b[1] \in d.min .. d.max
        <5>1. \A b \in Block : b[1] \in Nat
          BY LtAllocAssumption DEF Block
        <5>2. minChunkAddr \in Nat /\ maxChunkAddr \in Nat
          BY <1>0 DEF Types, ChunkTypes
        <5> QED
          BY <1>1, <1>5, <5>1, <5>2 DEF Account, ServingAcc
      <4>1. ASSUME NEW j \in 1 .. Len(firstBatch), NEW k \in 1 .. Len(firstBatch[j])
            PROVE  /\ k2[firstBatch[j][k]] = "dbatch" /\ w2[firstBatch[j][k]] = t
                   /\ firstBatch[j][k][1] \in d.min .. d.max
        <5>1. firstBatch[j][k] \in Block /\ kind[firstBatch[j][k]] = "batch"
          BY <1>0, <1>1, ListedBlocks DEF Account, BatchAcc
        <5> QED
          BY <1>9, <4>0, <5>1 DEF Serving
      <4>2. ASSUME NEW k \in 1 .. Len(ccFreeList)
            PROVE  /\ k2[ccFreeList[k]] = "dlist" /\ w2[ccFreeList[k]] = t
                   /\ ccFreeList[k][1] \in d.min .. d.max
        <5>1. ccFreeList[k] \in Block /\ kind[ccFreeList[k]] = "list"
          BY <1>0, <1>1, ListedBlocks DEF Account, ListAcc
        <5> QED
          BY <1>9, <4>0, <5>1 DEF Serving
      <4>3. DetachedAs(k2, w2, t, d)
        BY <1>5, <4>1, <4>2 DEF DetachedAs
      <4> QED
        BY <1>6, <3>2, <4>3
    <3> QED
      BY <3>1, <3>2
  <2> QED
    BY <2>1 DEF DetachAcc
<1>14. Accounted'
  <2>1. Len(<<>>) = 0 /\ 1 .. 0 = {}
    OBVIOUS
  <2>2. BatchAcc(k2, w2)' /\ ArrayAcc(k2, w2)' /\ ListAcc(k2, w2)'
    BY <1>0, <1>3, <1>4, <2>1 DEF BatchAcc, ArrayAcc, ListAcc
  <2>3. \A u \in Thread : pc'[u] = "install" => pc[u] = "install" /\ mem'[u] = mem[u]
    BY <1>3, <1>6
  <2>4. /\ FreeAcc(k2, w2)' /\ TempAcc(k2, w2)' /\ CarveAcc(k2, w2)' /\ MemAcc(k2, w2)'
        /\ ReleasingAcc(k2, w2)' /\ PadAcc(k2, w2)' /\ SystemAcc(k2, w2)'
    BY <1>3, <1>12, <2>3 DEF StillAccounted
  <2> QED
    BY <1>10, <1>11, <1>13, <2>2, <2>4 DEF Accounted, Account
<1>15. Types'
  <2>1. <<>> \in Seq(Seq(Block)) /\ <<>> \in Seq(Block) /\ Len(<<>>) = 0 /\ 1 .. 0 = {}
    OBVIOUS
  <2>2. ListTypes'
    BY <1>0, <1>3, <2>1 DEF Types, ListTypes
  <2>3. ArrayTypes'
    BY <1>0, <1>3, <1>4, <2>1 DEF Types, ArrayTypes, Batches
  <2>4. /\ \A j \in 1 .. Len(d.batches) : d.batches[j] # <<>>
        /\ Len(d.list) <= d.size
    BY <1>0, <1>5 DEF Types, ListTypes
  <2>5. ASSUME NEW u \in Thread
        PROVE  /\ pc'[u] \in InFetch => freeList'[u] = <<>> /\ tempList'[u] = <<>>
               /\ IF pc'[u] = "install" THEN mem'[u] \in mapped' ELSE mem'[u] = NULL
               /\ IF pc'[u] \in InSqueeze THEN detached'[u] \in Detached ELSE detached'[u] = NULL
               /\ pc'[u] \in InSqueeze => ~CHUNK_IS_SMALL
               /\ IF pc'[u] = "squeeze"
                  THEN /\ \A j \in 1 .. Len(detached'[u].batches) : detached'[u].batches[j] # <<>>
                       /\ Len(detached'[u].list) <= detached'[u].size
                  ELSE pc'[u] \in InSqueeze
                        => detached'[u].batches = <<>> /\ detached'[u].list = <<>>
               /\ pc'[u] \notin {"pad", "unmap"} => releasing'[u] = {}
    <3>1. CASE u # t
      BY <1>0, <1>3, <1>6, <3>1 DEF Types, ChunkTypes
    <3>2. CASE u = t
      BY <1>0, <1>3, <1>4, <1>5, <1>6, <2>4, <3>2 DEF Types, ChunkTypes, InFetch, InSqueeze
    <3> QED
      BY <3>1, <3>2
  <2>6. ChunkTypes'
    BY <1>0, <1>3, <1>6, <2>5 DEF Types, ChunkTypes
  <2> QED
    BY <2>2, <2>3, <2>6 DEF Types
<1>16. NoRepeats'
  <2>1. Len(<<>>) = 0 /\ 1 .. 0 = {}
    OBVIOUS
  <2>2. Apart(<<>>) /\ Distinct(<<>>)
    BY <2>1 DEF Apart, Distinct
  <2>3. ArraysApart' /\ \A i \in 1 .. Len(chunks') : Apart(Batches(i)')
    BY <1>3, <1>4, <2>1 DEF ArraysApart, ApartIn
  <2>4. \A u \in Thread : pc'[u] = "squeeze" =>
           Apart(detached'[u].batches) /\ Distinct(detached'[u].list)
    BY <1>0, <1>5, <1>6 DEF NoRepeats
  <2> QED
    BY <1>0, <1>3, <2>2, <2>3, <2>4 DEF NoRepeats
<1> QED
  BY <1>14, <1>15, <1>16 DEF Inv

-----------------------------------------------------------------------------
\* What Among computes by recursion: the elements among the first i.
Sifting(g, s, S, n) ==
    g = [i \in 0 .. n |-> IF i = 0 THEN <<>>
                          ELSE IF s[i] \in S THEN Append(g[i - 1], s[i]) ELSE g[i - 1]]

\* The recursive function that Among is made of exists: it is an instance of its own
\* defining equation, shown from the first number for which it would fail.
LEMMA SiftingExists ==
  ASSUME NEW s, NEW S, NEW n \in Nat
  PROVE  \E g : Sifting(g, s, S, n)
<1> DEFINE Bad == {m \in Nat : ~ \E g : Sifting(g, s, S, m)}
<1>1. Sifting([i \in 0 .. 0 |-> <<>>], s, S, 0)
  BY DEF Sifting
<1>2. ASSUME NEW m \in Nat, NEW g, Sifting(g, s, S, m)
      PROVE  \E h : Sifting(h, s, S, m + 1)
  <2> DEFINE last == IF s[m + 1] \in S THEN Append(g[m], s[m + 1]) ELSE g[m]
  <2> HIDE DEF last
  <2> DEFINE h == [i \in 0 .. m + 1 |-> IF i = m + 1 THEN last ELSE g[i]]
  <2>1. \A i \in 0 .. m : g[i] = IF i = 0 THEN <<>>
                                 ELSE IF s[i] \in S THEN Append(g[i - 1], s[i]) ELSE g[i - 1]
    BY <1>2 DEF Sifting
  <2>2. /\ DOMAIN h = 0 .. m + 1 /\ h[m + 1] = last
        /\ \A i \in 0 .. m : h[i] = g[i]
    OBVIOUS
  <2> HIDE DEF h
  <2>3. \A i \in 0 .. m + 1 : h[i] = IF i = 0 THEN <<>>
                                     ELSE IF s[i] \in S THEN Append(h[i - 1], s[i]) ELSE h[i - 1]
    <3>1. ASSUME NEW i \in 0 .. m
          PROVE  h[i] = IF i = 0 THEN <<>>
                        ELSE IF s[i] \in S THEN Append(h[i - 1], s[i]) ELSE h[i - 1]
      <4>1. i # 0 => i - 1 \in 0 .. m
        OBVIOUS
      <4> QED
        BY <2>1, <2>2, <4>1
    <3>2. h[m + 1] = IF s[m + 1] \in S THEN Append(h[(m + 1) - 1], s[m + 1]) ELSE h[(m + 1) - 1]
      <4>1. m \in 0 .. m /\ (m + 1) - 1 = m
        OBVIOUS
      <4> QED
        BY <2>2, <4>1 DEF last
    <3>3. \A i \in 0 .. m + 1 : i \in 0 .. m \/ i = m + 1
      OBVIOUS
    <3>4. m + 1 # 0
      OBVIOUS
    <3> QED
      BY <3>1, <3>2, <3>3, <3>4
  <2>4. h = [i \in 0 .. m + 1 |-> IF i = 0 THEN <<>>
                                  ELSE IF s[i] \in S THEN Append(h[i - 1], s[i]) ELSE h[i - 1]]
    <3>1. h = [i \in 0 .. m + 1 |-> h[i]]
      BY <2>2 DEF h
    <3> QED
      BY <2>3, <3>1
  <2> QED
    BY <2>4 DEF Sifting
<1>3. Bad = {}
  <2>1. SUFFICES ASSUME Bad # {} PROVE FALSE
    OBVIOUS
  <2>2. PICK m \in Bad : m = 0 \/ (m - 1 \in Nat /\ m - 1 \notin Bad)
    BY <2>1, FirstFailure
  <2>3. CASE m - 1 \in Nat /\ m - 1 \notin Bad
    <3>1. PICK g : Sifting(g, s, S, m - 1)
      BY <2>3
    <3>2. \E h : Sifting(h, s, S, (m - 1) + 1)
      BY <1>2, <2>3, <3>1
    <3> QED
      BY <2>2, <3>2
  <2> QED
    BY <1>1, <2>2, <2>3
<1> QED
  BY <1>3

\* Every element of u stands in s, at a place among the first n that no other has.
TakenFrom(u, s, n, pos) ==
    /\ pos \in [1 .. Len(u) -> 1 .. n]
    /\ \A i, j \in 1 .. Len(u) : pos[i] = pos[j] => i = j
    /\ \A i \in 1 .. Len(u) : u[i] = s[pos[i]]

\* Among takes elements of its sequence that are in the set, each once.
LEMMA AmongTakes ==
  ASSUME NEW T, NEW s \in Seq(T), NEW S
  PROVE  /\ Among(s, S) \in Seq(T)
         /\ \A i \in 1 .. Len(Among(s, S)) : Among(s, S)[i] \in S
         /\ \E pos : TakenFrom(Among(s, S), s, Len(s), pos)
<1> DEFINE g == CHOOSE g : Sifting(g, s, S, Len(s))
<1>0. Len(s) \in Nat /\ Len(s) \in 0 .. Len(s)
  OBVIOUS
<1>1. Sifting(g, s, S, Len(s))
  BY <1>0, SiftingExists
<1>2. Among(s, S) = g[Len(s)]
  BY <1>0 DEF Among, Sifting
<1> HIDE DEF g
<1>3. \A i \in 0 .. Len(s) : g[i] = IF i = 0 THEN <<>>
                                    ELSE IF s[i] \in S THEN Append(g[i - 1], s[i]) ELSE g[i - 1]
  BY <1>1 DEF Sifting
<1> DEFINE Good(m) == /\ g[m] \in Seq(T)
                      /\ \A i \in 1 .. Len(g[m]) : g[m][i] \in S
                      /\ \E pos : TakenFrom(g[m], s, m, pos)
           Bad == {m \in 0 .. Len(s) : ~Good(m)}
<1>4. Good(0)
  <2>1. g[0] = <<>> /\ Len(<<>>) = 0 /\ 1 .. 0 = {}
    BY <1>0, <1>3
  <2>2. TakenFrom(g[0], s, 0, [i \in {} |-> i])
    BY <2>1 DEF TakenFrom
  <2>3. g[0] \in Seq(T) /\ \A i \in 1 .. Len(g[0]) : g[0][i] \in S
    BY <2>1
  <2> QED
    BY <2>2, <2>3
<1>5. ASSUME NEW m \in 1 .. Len(s), Good(m - 1)
      PROVE  Good(m)
  <2> DEFINE u == g[m - 1]  n == Len(u)
  <2>1. PICK pos : TakenFrom(u, s, m - 1, pos)
    BY <1>5
  <2>2. /\ u \in Seq(T) /\ n \in Nat /\ \A i \in 1 .. n : u[i] \in S
        /\ pos \in [1 .. n -> 1 .. m - 1]
        /\ \A i, j \in 1 .. n : pos[i] = pos[j] => i = j
        /\ \A i \in 1 .. n : u[i] = s[pos[i]]
    BY <1>5, <2>1 DEF TakenFrom
  <2>3. \A i \in 1 .. n : pos[i] \in 1 .. m - 1 /\ pos[i] \in 1 .. m /\ pos[i] # m
    BY <2>2
  <2>4. g[m] = IF s[m] \in S THEN Append(u, s[m]) ELSE u
    BY <1>3, <1>5
  <2>5. CASE s[m] \notin S
    <3>1. g[m] = u
      BY <2>4, <2>5
    <3>2. pos \in [1 .. n -> 1 .. m]
      BY <2>2, <2>3
    <3> HIDE DEF u, n
    <3>3. TakenFrom(u, s, m, pos)
      BY <2>2, <3>2 DEF TakenFrom, n
    <3> QED
      BY <2>2, <3>1, <3>3 DEF n
  <2>6. CASE s[m] \in S
    <3> DEFINE v == Append(u, s[m])
               p2 == [i \in 1 .. n + 1 |-> IF i = n + 1 THEN m ELSE pos[i]]
    <3>1. s[m] \in T
      BY <1>5
    <3>2. g[m] = v
      BY <2>4, <2>6
    <3> HIDE DEF u
    <3>3. v \in Seq(T) /\ Len(v) = n + 1 /\ v[n + 1] = s[m] /\ \A i \in 1 .. n : v[i] = u[i]
      BY <2>2, <3>1
    <3> HIDE DEF v
    <3>4. \A i \in 1 .. n + 1 : i = n + 1 \/ i \in 1 .. n
      BY <2>2
    <3>5. p2[n + 1] = m /\ \A i \in 1 .. n : p2[i] = pos[i]
      BY <2>2
    <3>6. p2 \in [1 .. n + 1 -> 1 .. m]
      BY <2>2, <2>3, <3>4
    <3> HIDE DEF p2
    <3>7. \A i, j \in 1 .. n + 1 : p2[i] = p2[j] => i = j
      <4> SUFFICES ASSUME NEW i \in 1 .. n + 1, NEW j \in 1 .. n + 1, p2[i] = p2[j]
                   PROVE  i = j
        OBVIOUS
      <4>1. CASE i = n + 1
        BY <2>3, <3>4, <3>5, <4>1
      <4>2. CASE i \in 1 .. n
        <5>1. p2[i] = pos[i] /\ p2[i] # m
          BY <2>3, <3>5, <4>2
        <5>2. j \in 1 .. n
          BY <3>4, <3>5, <5>1
        <5> QED
          BY <2>2, <3>5, <4>2, <5>1, <5>2
      <4> QED
        BY <3>4, <4>1, <4>2
    <3>8. \A i \in 1 .. n + 1 : v[i] = s[p2[i]] /\ v[i] \in S
      BY <2>2, <2>6, <3>3, <3>4, <3>5
    <3>9. TakenFrom(v, s, m, p2)
      BY <3>3, <3>6, <3>7, <3>8 DEF TakenFrom
    <3> QED
      BY <3>2, <3>3, <3>8, <3>9
  <2> QED
    BY <2>5, <2>6
<1> HIDE DEF Good
<1>6. Bad = {}
  <2>1. SUFFICES ASSUME Bad # {} PROVE FALSE
    OBVIOUS
  <2>2. Bad \in SUBSET Nat
    OBVIOUS
  <2>3. PICK m \in Bad : m = 0 \/ (m - 1 \in Nat /\ m - 1 \notin Bad)
    <3> HIDE DEF Bad
    <3> QED
      BY <2>1, <2>2, FirstFailure
  <2>4. m # 0
    BY <1>4
  <2>5. m \in 1 .. Len(s) /\ m - 1 \in 0 .. Len(s)
    BY <1>0, <2>4
  <2>6. Good(m - 1)
    BY <2>3, <2>4, <2>5
  <2> QED
    BY <1>5, <2>5, <2>6
<1>7. Good(Len(s))
  BY <1>0, <1>6
<1> QED
  BY <1>2, <1>7 DEF Good

\* What is taken from a sequence without repetitions has none, and so for sequences.
LEMMA TakenDistinct ==
  ASSUME NEW T, NEW s \in Seq(T), NEW u \in Seq(T), NEW pos, TakenFrom(u, s, Len(s), pos)
  PROVE  /\ ToSet(u) \subseteq ToSet(s)
         /\ Distinct(s) => Distinct(u)
<1>1. /\ \A i \in 1 .. Len(u) : pos[i] \in 1 .. Len(s) /\ u[i] = s[pos[i]]
      /\ \A i, j \in 1 .. Len(u) : pos[i] = pos[j] => i = j
  BY DEF TakenFrom
<1>2. ASSUME NEW x \in ToSet(u)
      PROVE  x \in ToSet(s)
  <2>1. PICK i \in 1 .. Len(u) : x = u[i]
    BY ToSetPlaces
  <2> QED
    BY <1>1, <2>1, ToSetPlaces
<1>3. Distinct(s) => Distinct(u)
  BY <1>1 DEF Distinct
<1> QED
  BY <1>2, <1>3

\* Sequences that are taken from sequences apart are apart.
LEMMA TakenApart ==
  ASSUME NEW T, NEW s \in Seq(Seq(T)), NEW u \in Seq(Seq(T)), NEW pos,
         TakenFrom(u, s, Len(s), pos), Apart(s)
  PROVE  Apart(u)
<1>1. /\ \A i \in 1 .. Len(u) : pos[i] \in 1 .. Len(s) /\ u[i] = s[pos[i]]
      /\ \A i, j \in 1 .. Len(u) : pos[i] = pos[j] => i = j
  BY DEF TakenFrom
<1>2. ASSUME NEW i \in 1 .. Len(u), NEW j \in 1 .. Len(u),
             NEW k \in 1 .. Len(u[i]), NEW l \in 1 .. Len(u[j]), u[i][k] = u[j][l]
      PROVE  i = j /\ k = l
  <2> DEFINE p == pos[i]  q == pos[j]
  <2>1. /\ p \in 1 .. Len(s) /\ q \in 1 .. Len(s) /\ u[i] = s[p] /\ u[j] = s[q]
        /\ k \in 1 .. Len(s[p]) /\ l \in 1 .. Len(s[q]) /\ s[p][k] = s[q][l]
    BY <1>1, <1>2
  <2> HIDE DEF p, q
  <2>2. p = q /\ k = l
    <3>1. Apart(s)
      OBVIOUS
    <3>2. /\ p \in 1 .. Len(s) /\ q \in 1 .. Len(s)
          /\ k \in 1 .. Len(s[p]) /\ l \in 1 .. Len(s[q])
      BY <2>1
    <3>3. s[p][k] = s[q][l]
      BY <2>1
    <3> QED
      BY <3>1, <3>2, <3>3, ZenonT(30) DEF Apart
  <2> QED
    BY <1>1, <2>2 DEF p, q
<1> QED
  BY <1>2, Zenon DEF Apart

-----------------------------------------------------------------------------
\* What ltsqueeze has detached: the blocks are each there once.
LEMMA DetachedBlocksDistinct ==
  ASSUME NEW kind, NEW who, NEW t, NEW d \in Detached, DetachedAs(kind, who, t, d),
         Apart(d.batches), Distinct(d.list)
  PROVE  /\ DetachedBlocks(d) \in Seq(Block) /\ Distinct(DetachedBlocks(d))
         /\ ToSet(DetachedBlocks(d)) = Joint(d.batches) \cup ToSet(d.list)
         /\ \A b \in Joint(d.batches) : b \in Block /\ kind[b] = "dbatch" /\ who[b] = t
         /\ \A b \in ToSet(d.list) : b \in Block /\ kind[b] = "dlist" /\ who[b] = t
<1>1. d.batches \in Seq(Seq(Block)) /\ d.list \in Seq(Block)
  BY DEF Detached
<1>2. FlattenSeq(d.batches) \in Seq(Block)
  BY <1>1, FlattenType
<1>3. /\ \A j \in 1 .. Len(d.batches) : \A k \in 1 .. Len(d.batches[j]) :
            kind[d.batches[j][k]] = "dbatch" /\ who[d.batches[j][k]] = t
      /\ \A k \in 1 .. Len(d.list) : kind[d.list[k]] = "dlist" /\ who[d.list[k]] = t
  BY DEF DetachedAs
<1>4. \A b \in Joint(d.batches) : b \in Block /\ kind[b] = "dbatch" /\ who[b] = t
  <2> TAKE b \in Joint(d.batches)
  <2>1. PICK j \in 1 .. Len(d.batches) : b \in ToSet(d.batches[j])
    BY DEF Joint
  <2>2. d.batches[j] \in Seq(Block)
    BY <1>1
  <2>3. PICK k \in 1 .. Len(d.batches[j]) : b = d.batches[j][k]
    BY <2>1, <2>2, ToSetPlaces
  <2> QED
    BY <1>3, <2>2, <2>3
<1>5. \A b \in ToSet(d.list) : b \in Block /\ kind[b] = "dlist" /\ who[b] = t
  <2> TAKE b \in ToSet(d.list)
  <2>1. PICK k \in 1 .. Len(d.list) : b = d.list[k]
    BY <1>1, ToSetPlaces
  <2>2. d.list[k] \in Block
    BY <1>1
  <2> QED
    BY <1>3, <2>1, <2>2
<1>6. ToSet(FlattenSeq(d.batches)) = Joint(d.batches)
  BY <1>1, FlattenElements
<1>7. Joint(d.batches) \cap ToSet(d.list) = {}
  BY <1>4, <1>5
<1>8. Distinct(FlattenSeq(d.batches))
  BY <1>1, FlattenDistinct
<1>9. Distinct(DetachedBlocks(d)) /\ DetachedBlocks(d) \in Seq(Block)
  BY <1>1, <1>2, <1>6, <1>7, <1>8, ConcatDistinct DEF DetachedBlocks
<1>10. ToSet(DetachedBlocks(d)) = Joint(d.batches) \cup ToSet(d.list)
  BY <1>1, <1>2, <1>6, ConcatElements DEF DetachedBlocks
<1> QED
  BY <1>4, <1>5, <1>9, <1>10

\* The count that makes a chunk wholly free is right: every block of it is there.
LEMMA WhollyFreeListed ==
  ASSUME NEW d, DetachedBlocks(d) \in Seq(Block), Distinct(DetachedBlocks(d)),
         NEW c \in WhollyFree(d), NEW m \in 1 .. NumBlocks
  PROVE  c \in Chunk /\ <<c, m>> \in ToSet(DetachedBlocks(d))
<1> DEFINE s == DetachedBlocks(d)
           K == {k \in 1 .. Len(s) : s[k][1] = c}
           f == [k \in K |-> s[k][2]]
<1>1. c \in Chunk /\ Cardinality(K) = NumBlocks
  BY DEF WhollyFree
<1> HIDE DEF s
<1>2. /\ s \in Seq(Block) /\ \A k \in 1 .. Len(s) : s[k] \in Chunk \X (1 .. NumBlocks)
  BY DEF s, Block
<1>3. f \in [K -> 1 .. NumBlocks]
  BY <1>2
<1>4. \A k \in K : s[k] = <<c, f[k]>>
  BY <1>2
<1>5. \A k, l \in K : f[k] = f[l] => k = l
  <2>1. \A k, l \in 1 .. Len(s) : s[k] = s[l] => k = l
    BY DEF Distinct, s
  <2> HIDE DEF f
  <2> QED
    BY <1>4, <2>1
<1>6. f \in Injection(K, 1 .. NumBlocks)
  <2> HIDE DEF f
  <2> QED
    BY <1>3, <1>5 DEF Injection, IsInjective
<1>7. IsFiniteSet(1 .. NumBlocks) /\ Cardinality(1 .. NumBlocks) = NumBlocks
  <2>1. 1 \in Int /\ NumBlocks \in Int /\ NumBlocks >= 1
    BY LtAllocAssumption
  <2>2. /\ IsFiniteSet(1 .. NumBlocks)
        /\ Cardinality(1 .. NumBlocks) = IF 1 > NumBlocks THEN 0 ELSE NumBlocks - 1 + 1
    BY <2>1, FS_Interval, Zenon
  <2> QED
    BY <2>1, <2>2
<1>8. f \in Surjection(K, 1 .. NumBlocks)
  BY <1>1, <1>6, <1>7, FS_Injection
<1>9. PICK k \in K : f[k] = m
  BY <1>8 DEF Surjection
<1>10. s[k] \in ToSet(s)
  BY <1>2, ToSetPlaces
<1> QED
  BY <1>1, <1>4, <1>9, <1>10 DEF s

\* Whole batches of a list, one after the other, are not longer than the list.
LEMMA WholeBatches ==
  ASSUME NEW a \in Nat, NEW b \in Nat \ {0}
  PROVE  (a \div b) * b \in 0 .. a
<1>1. a \div b \in Nat /\ a % b \in 0 .. b - 1 /\ a = b * (a \div b) + (a % b)
  OBVIOUS
<1> DEFINE q == a \div b
<1>2. q \in Nat /\ b * q = q * b /\ b * q \in Nat
  BY <1>1
<1> QED
  BY <1>1, <1>2

\* What ltsqueeze puts back when the chunks of free are wholly free.
Regroups(d, free, kept, left) ==
    /\ kept \in Seq(Seq(Block)) /\ Apart(kept)
    /\ \A j \in 1 .. Len(kept) : kept[j] \in ToSet(d.batches)
    /\ \A b \in Joint(kept) : b \in Joint(d.batches) /\ b[1] \notin free
    /\ left \in Seq(Block) /\ Distinct(left)
    /\ \A b \in ToSet(left) :
          /\ b \in Joint(d.batches) \cup ToSet(d.list)
          /\ b[1] \notin free /\ b \notin Joint(kept)

\* What is computed for that.
PutsBack(d, free, notFree, mixed, kept, rest, left) ==
    /\ notFree = {b \in Block : b[1] \notin free}
    /\ mixed = {B \in ToSet(d.batches) : \E k \in 1 .. Len(B) : B[k] \notin notFree}
    /\ kept = Among(d.batches, ToSet(d.batches) \ mixed)
    /\ rest = Among(FlattenSeq(Among(d.batches, mixed)) \o d.list, notFree)
    /\ left = SubSeq(rest, (Len(rest) \div BATCH) * BATCH + 1, Len(rest))

\* What ltsqueeze puts back are the blocks that it has detached whose chunk is not
\* wholly free, each once; the batches that it keeps are batches it found.
LEMMA Regrouping ==
  ASSUME NEW d \in Detached, Apart(d.batches), Distinct(d.list),
         Joint(d.batches) \cap ToSet(d.list) = {}, NEW free, NEW notFree, NEW mixed,
         NEW kept, NEW rest, NEW left,
         PutsBack(d, free, notFree, mixed, kept, rest, left)
  PROVE  Regroups(d, free, kept, left)
<1>a. /\ notFree = {b \in Block : b[1] \notin free}
      /\ mixed = {B \in ToSet(d.batches) : \E k \in 1 .. Len(B) : B[k] \notin notFree}
  BY DEF PutsBack
<1>b. /\ kept = Among(d.batches, ToSet(d.batches) \ mixed)
      /\ rest = Among(FlattenSeq(Among(d.batches, mixed)) \o d.list, notFree)
  BY DEF PutsBack
<1>c. PICK n : n = Len(rest) \div BATCH
  OBVIOUS
<1>d. left = SubSeq(rest, n * BATCH + 1, Len(rest))
  BY <1>c DEF PutsBack
<1>1. d.batches \in Seq(Seq(Block)) /\ d.list \in Seq(Block)
  BY DEF Detached
<1>2. /\ kept \in Seq(Seq(Block))
      /\ \A i \in 1 .. Len(kept) : kept[i] \in ToSet(d.batches) \ mixed
      /\ \E pos : TakenFrom(kept, d.batches, Len(d.batches), pos)
  BY <1>1, <1>b, AmongTakes
<1>3. Apart(kept)
  BY <1>1, <1>2, TakenApart
<1>4. PICK other : other = Among(d.batches, mixed)
  OBVIOUS
<1>5. /\ other \in Seq(Seq(Block))
      /\ \A i \in 1 .. Len(other) : other[i] \in mixed
      /\ \E pos : TakenFrom(other, d.batches, Len(d.batches), pos)
  BY <1>1, <1>4, AmongTakes
<1>6. Apart(other)
  BY <1>1, <1>5, TakenApart
<1>7. \A B \in ToSet(d.batches) : /\ B \in Seq(Block) /\ ToSet(B) \subseteq Joint(d.batches)
                                  /\ \E j \in 1 .. Len(d.batches) : B = d.batches[j]
  <2> TAKE B \in ToSet(d.batches)
  <2>1. PICK j \in 1 .. Len(d.batches) : B = d.batches[j]
    BY <1>1, ToSetPlaces
  <2> QED
    BY <1>1, <2>1 DEF Joint
<1>8. ASSUME NEW b \in Joint(kept)
      PROVE  /\ b \in Joint(d.batches) /\ b[1] \notin free
             /\ b \notin Joint(other)
  <2>1. PICK i \in 1 .. Len(kept) : b \in ToSet(kept[i])
    BY DEF Joint
  <2>2. kept[i] \in ToSet(d.batches) \ mixed
    BY <1>2
  <2>3. kept[i] \in Seq(Block)
    BY <1>7, <2>2
  <2>4. PICK k \in 1 .. Len(kept[i]) : b = kept[i][k]
    BY <2>1, <2>3, ToSetPlaces
  <2>5. b \in notFree
    BY <1>a, <2>2, <2>4
  <2>6. PICK p \in 1 .. Len(d.batches) : kept[i] = d.batches[p]
    BY <1>7, <2>2
  <2>7. ASSUME b \in Joint(other)
        PROVE  FALSE
    <3>1. PICK j \in 1 .. Len(other) : b \in ToSet(other[j])
      BY <2>7 DEF Joint
    <3>2. other[j] \in mixed /\ other[j] \in ToSet(d.batches)
      BY <1>5, <1>a
    <3>3. other[j] \in Seq(Block)
      BY <1>7, <3>2
    <3>4. PICK l \in 1 .. Len(other[j]) : b = other[j][l]
      BY <3>1, <3>3, ToSetPlaces
    <3>5. PICK q \in 1 .. Len(d.batches) : other[j] = d.batches[q]
      BY <1>7, <3>2
    <3>6. p = q
      <4>1. /\ k \in 1 .. Len(d.batches[p]) /\ l \in 1 .. Len(d.batches[q])
            /\ d.batches[p][k] = d.batches[q][l]
        BY <2>4, <2>6, <3>4, <3>5
      <4>2. Apart(d.batches)
        OBVIOUS
      <4> QED
        BY <4>1, <4>2, Zenon DEF Apart
    <3> QED
      BY <2>2, <2>6, <3>2, <3>5, <3>6
  <2> QED
    BY <1>7, <1>a, <2>1, <2>2, <2>5, <2>7
<1>9. PICK base : base = FlattenSeq(other) \o d.list
  OBVIOUS
<1>10. /\ FlattenSeq(other) \in Seq(Block) /\ ToSet(FlattenSeq(other)) = Joint(other)
       /\ Distinct(FlattenSeq(other))
  BY <1>5, <1>6, FlattenType, FlattenElements, FlattenDistinct
<1>11. Joint(other) \subseteq Joint(d.batches)
  <2> SUFFICES ASSUME NEW b \in Joint(other) PROVE b \in Joint(d.batches)
    OBVIOUS
  <2>1. PICK j \in 1 .. Len(other) : b \in ToSet(other[j])
    BY DEF Joint
  <2> QED
    BY <1>5, <1>7, <1>a, <2>1
<1>12. /\ base \in Seq(Block) /\ Distinct(base)
       /\ ToSet(base) = Joint(other) \cup ToSet(d.list)
  <2>1. ToSet(FlattenSeq(other)) \cap ToSet(d.list) = {}
    BY <1>10, <1>11
  <2>2. base \in Seq(Block)
    BY <1>1, <1>9, <1>10
  <2> QED
    BY <1>1, <1>9, <1>10, <2>1, <2>2, ConcatDistinct, ConcatElements
<1>13. /\ rest \in Seq(Block)
       /\ \A i \in 1 .. Len(rest) : rest[i] \in notFree
       /\ \E pos : TakenFrom(rest, base, Len(base), pos)
  BY <1>4, <1>9, <1>12, <1>b, AmongTakes
<1>14. ToSet(rest) \subseteq ToSet(base) /\ Distinct(rest)
  BY <1>12, <1>13, TakenDistinct
<1>15. n * BATCH \in 0 .. Len(rest) /\ Len(rest) \in Nat
  <2>1. Len(rest) \in Nat
    BY <1>13
  <2> QED
    BY <2>1, <1>c, WholeBatches, LtAllocAssumption
<1> DEFINE m == n * BATCH
<1>16. /\ left \in Seq(Block) /\ Len(left) = Len(rest) - m
       /\ \A k \in 1 .. Len(rest) - m : left[k] = rest[m + k]
  BY <1>13, <1>15, <1>d, Split
<1> HIDE DEF m
<1>17. m \in Nat /\ m <= Len(rest) /\ Len(rest) \in Nat
  BY <1>15 DEF m
<1>18. \A k \in 1 .. Len(left) : m + k \in 1 .. Len(rest) /\ left[k] = rest[m + k]
  BY <1>16, <1>17
<1>19. Distinct(left)
  <2> SUFFICES ASSUME NEW i \in 1 .. Len(left), NEW j \in 1 .. Len(left), left[i] = left[j]
               PROVE  i = j
    BY DEF Distinct
  <2>1. m + i = m + j
    BY <1>14, <1>18 DEF Distinct
  <2> QED
    BY <1>17, <2>1
<1>20. ASSUME NEW b \in ToSet(left)
       PROVE  /\ b \in Joint(d.batches) \cup ToSet(d.list)
              /\ b[1] \notin free /\ b \notin Joint(kept)
  <2>1. PICK k \in 1 .. Len(left) : b = left[k]
    BY <1>16, ToSetPlaces
  <2>2. b \in notFree /\ b \in ToSet(rest)
    BY <1>13, <1>18, <2>1, ToSetPlaces
  <2>3. b \in Joint(other) \cup ToSet(d.list)
    BY <1>12, <1>14, <2>2
  <2> QED
    BY <1>8, <1>11, <1>a, <2>2, <2>3
<1> QED
  BY <1>2, <1>3, <1>8, <1>16, <1>19, <1>20 DEF Regroups

\* What ltsqueeze changes when it comes back: the batches back and the list bl return
\* to the central cache, whose list of before may be lost.
Returns(t, d, free, back, bl) ==
    /\ releasing' = [releasing EXCEPT ![t] = free]
    /\ firstBatch' = back \o firstBatch
    /\ \E old \in {<<>>, ccFreeList} : ccFreeList' = bl \o old
    /\ freeListSize' \in Nat /\ freeListSize + Len(bl) <= freeListSize'
    /\ pc' = [pc EXCEPT ![t] = IF free = {} THEN "idle" ELSE IF d.padsz = 0 THEN "unmap" ELSE "pad"]
    /\ detached' = [detached EXCEPT ![t] =
          IF free = {} THEN NULL ELSE [d EXCEPT !.batches = <<>>, !.list = <<>>]]

\* ltsqueeze gives back what it keeps: the step, in terms of what was detached.
LEMMA SqueezeReturns ==
  ASSUME NEW t \in Thread, NEW d \in Detached, d = detached[t], SqueezeReturn(t),
         Apart(d.batches), Distinct(d.list), Joint(d.batches) \cap ToSet(d.list) = {},
         Len(d.list) <= d.size, ccFreeList \in Seq(Block), freeListSize \in Nat
  PROVE  \E back, bl : Regroups(d, WhollyFree(d), back, bl)
        /\ Returns(t, d, WhollyFree(d), back, bl)
<1>f. PICK free : free = WhollyFree(d)
  OBVIOUS
<1>1. PICK notFree : notFree = {b \in Block : b[1] \notin free}
  OBVIOUS
<1>2. PICK mixed : mixed = {B \in ToSet(d.batches) : \E k \in 1 .. Len(B) : B[k] \notin notFree}
  OBVIOUS
<1>3. PICK kept : kept = Among(d.batches, ToSet(d.batches) \ mixed)
  OBVIOUS
<1>4. PICK rest : rest = Among(FlattenSeq(Among(d.batches, mixed)) \o d.list, notFree)
  OBVIOUS
<1>5. PICK left : left = SubSeq(rest, (Len(rest) \div BATCH) * BATCH + 1, Len(rest))
  OBVIOUS
<1>6. Regroups(d, free, kept, left)
  <2>1. PutsBack(d, free, notFree, mixed, kept, rest, left)
    BY <1>1, <1>2, <1>3, <1>4, <1>5 DEF PutsBack
  <2> QED
    BY <2>1, Regrouping
<1>7. /\ releasing' = [releasing EXCEPT ![t] = free]
      /\ free = {} => /\ firstBatch' = d.batches \o firstBatch
                      /\ ccFreeList' = d.list \o ccFreeList
                      /\ freeListSize' = freeListSize + d.size
                      /\ pc' = [pc EXCEPT ![t] = "idle"]
      /\ free # {} => /\ firstBatch' = kept \o firstBatch
                      /\ ccFreeList' = Rehung(left, ccFreeList)
                      /\ freeListSize' = freeListSize + Len(left)
                      /\ pc' = [pc EXCEPT ![t] = IF d.padsz = 0 THEN "unmap" ELSE "pad"]
      /\ detached' = [detached EXCEPT ![t] =
            IF free = {} THEN NULL ELSE [d EXCEPT !.batches = <<>>, !.list = <<>>]]
  BY <1>f, <1>1, <1>2, <1>3, <1>4, <1>5, Zenon DEF SqueezeReturn, Rejoined
<1>8. CASE free # {}
  <2>1. left \in Seq(Block) /\ Len(left) \in Nat
    BY <1>6 DEF Regroups
  <2>2. freeListSize' \in Nat /\ freeListSize + Len(left) <= freeListSize'
    BY <1>7, <1>8, <2>1
  <2>3. \E old \in {<<>>, ccFreeList} : ccFreeList' = left \o old
    <3>1. <<>> \o <<>> = <<>>
      OBVIOUS
    <3>2. ccFreeList' = IF left = <<>> THEN <<>> ELSE left \o ccFreeList
      BY <1>7, <1>8 DEF Rehung
    <3> QED
      BY <3>1, <3>2, Zenon
  <2> QED
    BY <1>f, <1>6, <1>7, <1>8, <2>2, <2>3 DEF Returns
<1>9. CASE free = {}
  <2>1. d.batches \in Seq(Seq(Block)) /\ d.list \in Seq(Block)
    BY DEF Detached
  <2>2. \A j \in 1 .. Len(d.batches) : d.batches[j] \in ToSet(d.batches)
    BY <2>1, ToSetPlaces
  <2>3. Regroups(d, free, d.batches, d.list)
    BY <1>9, <2>1, <2>2 DEF Regroups
  <2>4. Len(d.list) \in Nat /\ d.size \in Nat
    BY DEF Detached
  <2>5. freeListSize' \in Nat /\ freeListSize + Len(d.list) <= freeListSize'
    BY <1>7, <1>9, <2>4
  <2>6. Returns(t, d, free, d.batches, d.list)
    BY <1>7, <1>9, <2>5 DEF Returns
  <2> QED
    BY <1>f, <2>3, <2>6
<1> QED
  BY <1>8, <1>9

\* ltsqueeze returns: the chunks that were counted wholly free are not in service now,
\* and everything else is the central cache's again.
LEMMA SqueezeReturnKeeps ==
  ASSUME Inv, NEW t \in Thread, SqueezeReturn(t)
  PROVE  Inv'
<1>1. PICK kind, who : Account(kind, who)
  BY DEF Inv, Accounted
<1>d. PICK d : d = detached[t]
  OBVIOUS
<1>f. PICK free : free = WhollyFree(d)
  OBVIOUS
<1>0. /\ Types /\ NoRepeats /\ pc[t] = "squeeze"
      /\ UNCHANGED <<freeList, tempList, counter, chunks, chunkWithFreeBatches, lastChunk,
                     minChunkAddr, maxChunkAddr, pad, padSize, mapped, mem, users>>
  BY DEF Inv, SqueezeReturn, cacheVars, addrVars, padVars
<1>2. /\ d \in Detached /\ Len(d.list) <= d.size
      /\ \A j \in 1 .. Len(d.batches) : d.batches[j] # <<>>
  BY <1>0, <1>d DEF Types, ChunkTypes, InSqueeze
<1>3. DetachedAs(kind, who, t, d) /\ Apart(d.batches) /\ Distinct(d.list)
  BY <1>0, <1>1, <1>d DEF Account, DetachAcc, NoRepeats
<1>4. /\ DetachedBlocks(d) \in Seq(Block) /\ Distinct(DetachedBlocks(d))
      /\ ToSet(DetachedBlocks(d)) = Joint(d.batches) \cup ToSet(d.list)
      /\ \A b \in Joint(d.batches) : b \in Block /\ kind[b] = "dbatch" /\ who[b] = t
      /\ \A b \in ToSet(d.list) : b \in Block /\ kind[b] = "dlist" /\ who[b] = t
  BY <1>2, <1>3, DetachedBlocksDistinct
<1>5. Joint(d.batches) \cap ToSet(d.list) = {}
  BY <1>4
<1>11. firstBatch \in Seq(Seq(Block)) /\ ccFreeList \in Seq(Block) /\ freeListSize \in Nat
  BY <1>0 DEF Types, ListTypes
<1>6. PICK back, bl : Regroups(d, free, back, bl) /\ Returns(t, d, free, back, bl)
  BY <1>2, <1>3, <1>5, <1>11, <1>d, <1>f, SqueezeReturns
<1>7. \A c \in free : /\ c \in Chunk /\ c \in mapped
                      /\ \A m \in 1 .. NumBlocks : /\ <<c, m>> \in Block
                                                   /\ kind[<<c, m>>] \in {"dbatch", "dlist"}
                                                   /\ who[<<c, m>>] = t
  <2> TAKE c \in free
  <2>1. \A m \in 1 .. NumBlocks : c \in Chunk /\ <<c, m>> \in ToSet(DetachedBlocks(d))
    BY <1>4, <1>f, WhollyFreeListed
  <2>2. 1 \in 1 .. NumBlocks
    BY LtAllocAssumption
  <2>3. \A m \in 1 .. NumBlocks : /\ <<c, m>> \in Block
                                  /\ kind[<<c, m>>] \in {"dbatch", "dlist"}
                                  /\ who[<<c, m>>] = t
    BY <1>4, <2>1
  <2>4. c \in mapped
    <3>1. kind[<<c, 1>>] # "system"
      BY <2>2, <2>3
    <3> QED
      BY <1>1, <2>1, <2>2, <3>1 DEF Account, SystemAcc
  <2> QED
    BY <2>1, <2>2, <2>3, <2>4
<1>8. /\ back \in Seq(Seq(Block)) /\ Apart(back)
      /\ \A j \in 1 .. Len(back) : back[j] \in ToSet(d.batches)
      /\ \A b \in Joint(back) : b \in Joint(d.batches) /\ b[1] \notin free
      /\ bl \in Seq(Block) /\ Distinct(bl)
      /\ \A b \in ToSet(bl) : /\ b \in Joint(d.batches) \cup ToSet(d.list)
                              /\ b[1] \notin free /\ b \notin Joint(back)
  BY <1>6 DEF Regroups
<1>9. /\ releasing' = [releasing EXCEPT ![t] = free]
      /\ firstBatch' = back \o firstBatch
      /\ freeListSize' \in Nat /\ freeListSize + Len(bl) <= freeListSize'
      /\ pc' = [pc EXCEPT ![t] = IF free = {} THEN "idle"
                                 ELSE IF d.padsz = 0 THEN "unmap" ELSE "pad"]
      /\ detached' = [detached EXCEPT ![t] =
            IF free = {} THEN NULL ELSE [d EXCEPT !.batches = <<>>, !.list = <<>>]]
  BY <1>6 DEF Returns
<1>10. ~CHUNK_IS_SMALL /\ chunks = <<>>
  <2>1. ~CHUNK_IS_SMALL
    BY <1>0 DEF Types, ChunkTypes, InSqueeze
  <2> QED
    BY <1>0, <2>1 DEF Types, ArrayTypes
<1>o. PICK old \in {<<>>, ccFreeList} : ccFreeList' = bl \o old
  BY <1>6 DEF Returns
<1>p. /\ old \in Seq(Block) /\ Distinct(old) /\ ToSet(old) \subseteq ToSet(ccFreeList)
      /\ Len(old) \in Nat /\ Len(old) <= freeListSize
  <2>1. /\ Distinct(ccFreeList) /\ Len(ccFreeList) \in Nat /\ Len(ccFreeList) <= freeListSize
    BY <1>0 DEF Types, ListTypes, NoRepeats
  <2>2. <<>> \in Seq(Block) /\ Len(<<>>) = 0 /\ ToSet(<<>>) = {} /\ Distinct(<<>>)
    BY DEF ToSet, Distinct
  <2>3. CASE old = <<>>
    BY <1>11, <2>2, <2>3
  <2>4. CASE old = ccFreeList
    BY <1>11, <2>1, <2>4
  <2> QED
    BY <2>3, <2>4
<1> DEFINE M == {b \in Block : kind[b] \in {"dbatch", "dlist"} /\ who[b] = t}
           New(b) == IF b[1] \in free THEN "releasing"
                     ELSE IF b \in Joint(back) THEN "batch"
                     ELSE IF b \in ToSet(bl) THEN "list" ELSE "lost"
<1>12. PICK k2 : k2 = [b \in Block |-> IF b \in M THEN New(b) ELSE kind[b]]
  OBVIOUS
<1>13. PICK w2 : w2 = [b \in Block |-> IF b \in M /\ b[1] \in free THEN t ELSE who[b]]
  OBVIOUS
<1>14. \A b \in Block : /\ b \in M /\ b[1] \in free => k2[b] = "releasing" /\ w2[b] = t
                        /\ b \in M /\ b[1] \notin free /\ b \in Joint(back) => k2[b] = "batch"
                        /\ b \in M /\ b[1] \notin free /\ b \notin Joint(back) /\ b \in ToSet(bl)
                              => k2[b] = "list"
                        /\ b \in M => k2[b] \in {"releasing", "batch", "list", "lost"}
                        /\ b \notin M => k2[b] = kind[b] /\ w2[b] = who[b]
  BY <1>12, <1>13
<1>15. \A b \in Block : b \in M <=> kind[b] \in {"dbatch", "dlist"} /\ who[b] = t
  OBVIOUS
<1> HIDE DEF M, New
<1>16. \A b \in Joint(back) : b \in Block /\ k2[b] = "batch" /\ kind[b] = "dbatch"
  BY <1>4, <1>8, <1>14, <1>15
<1>17. \A b \in ToSet(bl) : b \in Block /\ k2[b] = "list" /\ kind[b] \in {"dbatch", "dlist"}
  BY <1>4, <1>8, <1>14, <1>15
<1>18. AppAcc(k2, w2)'
  BY <1>0, <1>1, <1>14, <1>15 DEF Account, AppAcc
<1>19. ServingAcc(k2, w2)'
  <2>1. \A b \in Block : k2[b] \in Serving => kind[b] \in Serving
    BY <1>14, <1>15 DEF Serving
  <2> QED
    BY <1>0, <1>1, <2>1, StillServing DEF Account
<1>20. StillAccounted(k2, w2, {"dbatch", "dlist"})
  <2>1. Moves(kind, who, k2, w2, M)
    BY <1>14 DEF Moves
  <2>2. \A b \in Block : b \in M => kind[b] \in {"dbatch", "dlist"}
    BY <1>15
  <2> QED
    BY <1>0, <1>1, <2>1, <2>2, Kept
<1>21. /\ pc \in [Thread -> {"idle"} \cup InFetch \cup InSqueeze]
       /\ pc' \in [Thread -> {"idle"} \cup InFetch \cup InSqueeze]
       /\ pc'[t] \in {"idle", "unmap", "pad"} /\ (pc'[t] = "idle" <=> free = {})
       /\ \A u \in Thread : u # t => /\ pc'[u] = pc[u] /\ detached'[u] = detached[u]
                                     /\ releasing'[u] = releasing[u]
       /\ releasing'[t] = free
       /\ detached'[t] = IF free = {} THEN NULL ELSE [d EXCEPT !.batches = <<>>, !.list = <<>>]
  BY <1>0, <1>9 DEF Types, ChunkTypes, InSqueeze
<1>22. DetachAcc(k2, w2)'
  <2>1. ASSUME NEW u \in Thread, pc'[u] = "squeeze"
        PROVE  DetachedAs(k2, w2, u, detached'[u])
    <3>1. u # t
      BY <1>21, <2>1
    <3>2. pc[u] = "squeeze" /\ detached'[u] = detached[u]
      BY <1>21, <2>1, <3>1
    <3>3. detached[u] \in Detached /\ DetachedAs(kind, who, u, detached[u])
      BY <1>0, <1>1, <3>2 DEF Account, DetachAcc, Types, ChunkTypes, InSqueeze
    <3>4. \A b \in Block : kind[b] \in {"dbatch", "dlist"} /\ who[b] = u
             => k2[b] = kind[b] /\ w2[b] = who[b]
      BY <1>14, <1>15, <3>1
    <3> QED
      BY <3>2, <3>3, <3>4, DetachedStays
  <2> QED
    BY <2>1 DEF DetachAcc
<1>23. ReleasingAcc(k2, w2)'
  <2>1. ASSUME NEW u \in Thread, NEW c \in releasing'[u], NEW m \in 1 .. NumBlocks
        PROVE  k2[<<c, m>>] = "releasing" /\ w2[<<c, m>>] = u
    <3>1. CASE u = t
      <4>1. c \in free /\ <<c, m>> \in Block /\ <<c, m>> \in M
        BY <1>7, <1>15, <1>21, <2>1, <3>1
      <4> QED
        BY <1>14, <3>1, <4>1
    <3>2. CASE u # t
      <4>1. c \in releasing[u] /\ c \in Chunk
        BY <1>0, <1>21, <2>1, <3>2 DEF Types, ChunkTypes
      <4>2. kind[<<c, m>>] = "releasing" /\ who[<<c, m>>] = u /\ <<c, m>> \in Block
        BY <1>1, <4>1 DEF Account, ReleasingAcc, Block
      <4> QED
        BY <1>14, <1>15, <4>2
    <3> QED
      BY <3>1, <3>2
  <2> QED
    BY <2>1 DEF ReleasingAcc
<1>24. ListAcc(k2, w2)'
  <2>1. ccFreeList' \in Seq(Block) /\ ToSet(ccFreeList') = ToSet(bl) \cup ToSet(old)
    BY <1>8, <1>o, <1>p, ConcatElements
  <2>2. ASSUME NEW b \in ToSet(ccFreeList)
        PROVE  k2[b] = "list"
    <3>1. PICK k \in 1 .. Len(ccFreeList) : b = ccFreeList[k]
      BY <1>11, ToSetPlaces
    <3>2. b \in Block /\ kind[b] = "list"
      BY <1>1, <1>11, <3>1 DEF Account, ListAcc
    <3> QED
      BY <1>14, <1>15, <3>2
  <2>3. \A k \in 1 .. Len(ccFreeList') : ccFreeList'[k] \in ToSet(ccFreeList')
    BY <2>1, ToSetPlaces
  <2> QED
    BY <1>17, <1>p, <2>1, <2>2, <2>3 DEF ListAcc
<1>25. \A b \in Joint(firstBatch) : b \in Block /\ kind[b] = "batch" /\ k2[b] = "batch"
  <2> TAKE b \in Joint(firstBatch)
  <2>1. PICK j \in 1 .. Len(firstBatch) : \E k \in 1 .. Len(firstBatch[j]) : b = firstBatch[j][k]
    BY <1>11, JointPlaces
  <2>2. b \in Block /\ kind[b] = "batch"
    BY <1>0, <1>1, <2>1, ListedBlocks DEF Account, BatchAcc
  <2> QED
    BY <1>14, <1>15, <2>2
<1>26. firstBatch' \in Seq(Seq(Block)) /\ Apart(firstBatch')
       /\ Joint(firstBatch') = Joint(back) \cup Joint(firstBatch)
  <2>1. Joint(back) \cap Joint(firstBatch) = {}
    BY <1>16, <1>25
  <2>2. Apart(firstBatch)
    BY <1>0 DEF NoRepeats
  <2>3. firstBatch' \in Seq(Seq(Block))
    BY <1>8, <1>9, <1>11
  <2> QED
    BY <1>8, <1>9, <1>11, <2>1, <2>2, <2>3, ConcatApart
<1>27. BatchAcc(k2, w2)'
  <2>1. \A j \in 1 .. Len(firstBatch') : \A k \in 1 .. Len(firstBatch'[j]) :
           firstBatch'[j][k] \in Joint(firstBatch')
    BY <1>26, JointPlaces
  <2> QED
    BY <1>16, <1>25, <1>26, <2>1 DEF BatchAcc
<1>28. Accounted'
  <2>1. Len(<<>>) = 0 /\ 1 .. 0 = {}
    OBVIOUS
  <2>2. ArrayAcc(k2, w2)'
    BY <1>0, <1>10, <2>1 DEF ArrayAcc
  <2>3. \A u \in Thread : pc'[u] = "install" => pc[u] = "install" /\ mem'[u] = mem[u]
    BY <1>0, <1>21
  <2>4. /\ FreeAcc(k2, w2)' /\ TempAcc(k2, w2)' /\ CarveAcc(k2, w2)' /\ MemAcc(k2, w2)'
        /\ PadAcc(k2, w2)' /\ SystemAcc(k2, w2)'
    BY <1>0, <1>20, <2>3 DEF StillAccounted
  <2> QED
    BY <1>18, <1>19, <1>22, <1>23, <1>24, <1>27, <2>2, <2>4 DEF Accounted, Account
<1>29. Types'
  <2>1. Len(<<>>) = 0 /\ 1 .. 0 = {}
    OBVIOUS
  <2>2. \A j \in 1 .. Len(firstBatch') : firstBatch'[j] # <<>>
    <3>1. \A B \in ToSet(d.batches) : B # <<>>
      <4>1. d.batches \in Seq(Seq(Block))
        BY <1>2 DEF Detached
      <4> QED
        BY <1>2, <4>1, ToSetPlaces
    <3>2. \A j \in 1 .. Len(back) : back[j] # <<>>
      BY <1>8, <3>1
    <3>3. \A j \in 1 .. Len(firstBatch) : firstBatch[j] # <<>>
      BY <1>0 DEF Types, ListTypes
    <3> DEFINE n == Len(back)
    <3>4. /\ n \in Nat /\ Len(firstBatch') = n + Len(firstBatch) /\ Len(firstBatch) \in Nat
          /\ \A j \in 1 .. n : firstBatch'[j] = back[j]
          /\ \A j \in 1 .. Len(firstBatch) : firstBatch'[n + j] = firstBatch[j]
      BY <1>8, <1>9, <1>11, SMTT(20)
    <3> HIDE DEF n
    <3>5. TAKE j \in 1 .. Len(firstBatch')
    <3>6. j \in 1 .. n \/ (j - n \in 1 .. Len(firstBatch) /\ n + (j - n) = j)
      BY <3>4
    <3> QED
      BY <3>2, <3>3, <3>4, <3>6 DEF n
  <2>3. ccFreeList' \in Seq(Block) /\ freeListSize' \in Nat /\ Len(ccFreeList') <= freeListSize'
    <3>1. bl \o old \in Seq(Block) /\ Len(bl \o old) = Len(bl) + Len(old) /\ Len(bl) \in Nat
      BY <1>8, <1>p
    <3> QED
      BY <1>9, <1>11, <1>o, <1>p, <3>1
  <2>4. ListTypes'
    BY <1>0, <1>26, <2>2, <2>3 DEF Types, ListTypes
  <2>5. ArrayTypes'
    BY <1>0, <1>10, <2>1 DEF Types, ArrayTypes, Batches
  <2>6. /\ [d EXCEPT !.batches = <<>>, !.list = <<>>] \in Detached
        /\ [d EXCEPT !.batches = <<>>, !.list = <<>>].batches = <<>>
        /\ [d EXCEPT !.batches = <<>>, !.list = <<>>].list = <<>>
    <3>1. <<>> \in Seq(Seq(Block)) /\ <<>> \in Seq(Block)
      OBVIOUS
    <3> QED
      BY <1>2, <3>1 DEF Detached
  <2>7. detached' \in [Thread -> Detached \cup {NULL}]
    BY <1>0, <1>9, <2>6 DEF Types, ChunkTypes
  <2>8. free \subseteq mapped
    BY <1>7
  <2>9. releasing' \in [Thread -> SUBSET mapped']
    BY <1>0, <1>9, <2>8 DEF Types, ChunkTypes
  <2>10. ASSUME NEW u \in Thread
         PROVE  /\ pc'[u] \in InFetch => freeList'[u] = <<>> /\ tempList'[u] = <<>>
                /\ IF pc'[u] = "install" THEN mem'[u] \in mapped' ELSE mem'[u] = NULL
                /\ IF pc'[u] \in InSqueeze THEN detached'[u] \in Detached ELSE detached'[u] = NULL
                /\ pc'[u] \in InSqueeze => ~CHUNK_IS_SMALL
                /\ IF pc'[u] = "squeeze"
                   THEN /\ \A j \in 1 .. Len(detached'[u].batches) : detached'[u].batches[j] # <<>>
                        /\ Len(detached'[u].list) <= detached'[u].size
                   ELSE pc'[u] \in InSqueeze
                         => detached'[u].batches = <<>> /\ detached'[u].list = <<>>
                /\ pc'[u] \notin {"pad", "unmap"} => releasing'[u] = {}
    <3>1. CASE u # t
      BY <1>0, <1>21, <3>1 DEF Types, ChunkTypes
    <3>2. CASE u = t
      <4>1. mem'[t] = NULL
        BY <1>0 DEF Types, ChunkTypes
      <4> QED
        BY <1>10, <1>21, <2>6, <3>2, <4>1 DEF InFetch, InSqueeze
    <3> QED
      BY <3>1, <3>2
  <2>11. ChunkTypes'
    BY <1>0, <1>21, <2>7, <2>9, <2>10 DEF Types, ChunkTypes
  <2> QED
    BY <2>4, <2>5, <2>11 DEF Types
<1>30. NoRepeats'
  <2>1. Len(<<>>) = 0 /\ 1 .. 0 = {}
    OBVIOUS
  <2>2. Distinct(ccFreeList')
    <3>1. \A b \in ToSet(ccFreeList) : kind[b] = "list"
      BY <1>1, <1>11, ToSetPlaces DEF Account, ListAcc
    <3>2. ToSet(bl) \cap ToSet(old) = {}
      BY <1>17, <1>p, <3>1
    <3> QED
      BY <1>8, <1>o, <1>p, <3>2, ConcatDistinct
  <2>3. ArraysApart' /\ \A i \in 1 .. Len(chunks') : Apart(Batches(i)')
    BY <1>0, <1>10, <2>1 DEF ArraysApart, ApartIn
  <2>4. \A u \in Thread : pc'[u] = "squeeze" =>
           Apart(detached'[u].batches) /\ Distinct(detached'[u].list)
    BY <1>0, <1>21 DEF NoRepeats
  <2> QED
    BY <1>0, <1>26, <2>2, <2>3, <2>4 DEF NoRepeats
<1> QED
  BY <1>28, <1>29, <1>30 DEF Inv

-----------------------------------------------------------------------------
\* The accounts when thread t has given back the chunks of gone, which are s then.
GaveBack(kind, who, k2, w2, gone, s) ==
    /\ AppAcc(k2, w2)' /\ ServingAcc(k2, w2)' /\ FreeAcc(k2, w2)' /\ TempAcc(k2, w2)'
    /\ BatchAcc(k2, w2)' /\ ArrayAcc(k2, w2)' /\ ListAcc(k2, w2)' /\ CarveAcc(k2, w2)'
    /\ DetachAcc(k2, w2)' /\ MemAcc(k2, w2)' /\ ReleasingAcc(k2, w2)'
    /\ \A c \in Chunk, m \in 1 .. NumBlocks :
          k2[<<c, m>>] = IF c \in gone THEN s ELSE kind[<<c, m>>]

\* Chunks of which a thread has every block are put aside or unmapped.
LEMMA Releases ==
  ASSUME Inv, NEW kind, NEW who, Account(kind, who), NEW t \in Thread,
         pc[t] \in {"pad", "unmap"}, NEW gone \in SUBSET releasing[t],
         NEW s \in {"pad", "system"}, releasing' = [releasing EXCEPT ![t] = releasing[t] \ gone],
         AfterRelease(t)
  PROVE  /\ ListTypes' /\ ArrayTypes' /\ NoRepeats'
         /\ \E k2, w2 : GaveBack(kind, who, k2, w2, gone, s)
<1>0. /\ Types /\ NoRepeats
      /\ UNCHANGED <<freeList, tempList, counter, firstBatch, chunks, chunkWithFreeBatches,
                     ccFreeList, freeListSize, lastChunk, minChunkAddr, maxChunkAddr, mem, users>>
  BY DEF Inv, AfterRelease, cacheVars, batchVars, listVars, addrVars
<1>1. /\ pc' = [pc EXCEPT ![t] = IF releasing'[t] = {} THEN "idle" ELSE "unmap"]
      /\ detached' = [detached EXCEPT ![t] = IF releasing'[t] = {} THEN NULL ELSE detached[t]]
  BY DEF AfterRelease
<1>2. /\ pc \in [Thread -> {"idle"} \cup InFetch \cup InSqueeze]
      /\ pc'[t] \in {"idle", "unmap"}
      /\ \A u \in Thread : u # t => pc'[u] = pc[u] /\ detached'[u] = detached[u]
  BY <1>0, <1>1 DEF Types, ChunkTypes
<1>3. /\ releasing'[t] = releasing[t] \ gone /\ releasing[t] \subseteq Chunk
      /\ \A u \in Thread : u # t => releasing'[u] = releasing[u] /\ releasing[u] \subseteq Chunk
  BY <1>0 DEF Types, ChunkTypes
<1>4. ListTypes' /\ ArrayTypes'
  BY <1>0 DEF Types, ListTypes, ArrayTypes, Batches
<1>5. NoRepeats'
  <2>1. \A u \in Thread : pc'[u] = "squeeze" =>
           Apart(detached'[u].batches) /\ Distinct(detached'[u].list)
    BY <1>0, <1>2 DEF NoRepeats
  <2> QED
    BY <1>0, <2>1 DEF NoRepeats, ArraysApart, Batches
<1> DEFINE M == {b \in Block : b[1] \in gone}
<1>6. PICK k2 : k2 = [b \in Block |-> IF b[1] \in gone THEN s ELSE kind[b]]
  OBVIOUS
<1>7. \A b \in Block : /\ b[1] \in gone => k2[b] = s
                       /\ b[1] \notin gone => k2[b] = kind[b]
  BY <1>6
<1>8. \A b \in Block : b[1] \in gone => kind[b] = "releasing" /\ who[b] = t
  BY <1>3 DEF Account, ReleasingAcc, Block
<1>9. StillAccounted(k2, who, {"releasing"})
  <2>1. Moves(kind, who, k2, who, M)
    BY <1>7 DEF Moves
  <2>2. \A b \in Block : b \in M => kind[b] \in {"releasing"}
    BY <1>8
  <2> HIDE DEF M
  <2> QED
    BY <1>0, <2>1, <2>2, Kept
<1>10. AppAcc(k2, who)'
  BY <1>0, <1>7, <1>8 DEF Account, AppAcc
<1>11. ServingAcc(k2, who)'
  <2>1. \A b \in Block : k2[b] \in Serving => kind[b] \in Serving
    BY <1>7 DEF Serving
  <2> QED
    BY <1>0, <2>1, StillServing DEF Account
<1>12. ReleasingAcc(k2, who)'
  <2>1. ASSUME NEW u \in Thread, NEW c \in releasing'[u], NEW m \in 1 .. NumBlocks
        PROVE  k2[<<c, m>>] = "releasing" /\ who[<<c, m>>] = u
    <3>1. c \in releasing[u] /\ c \in Chunk
      BY <1>3, <2>1
    <3>2. <<c, m>> \in Block /\ kind[<<c, m>>] = "releasing" /\ who[<<c, m>>] = u
      BY <3>1 DEF Account, ReleasingAcc, Block
    <3>3. c \notin gone
      BY <1>3, <1>8, <2>1, <3>2
    <3> QED
      BY <1>7, <3>2, <3>3
  <2> QED
    BY <2>1 DEF ReleasingAcc
<1>13. \A c \in Chunk, m \in 1 .. NumBlocks :
          k2[<<c, m>>] = IF c \in gone THEN s ELSE kind[<<c, m>>]
  BY <1>7 DEF Block
<1>14. /\ FreeAcc(k2, who)' /\ TempAcc(k2, who)' /\ BatchAcc(k2, who)' /\ ArrayAcc(k2, who)'
       /\ ListAcc(k2, who)' /\ CarveAcc(k2, who)' /\ DetachAcc(k2, who)' /\ MemAcc(k2, who)'
  <2>1. \A u \in Thread : pc'[u] = "install" => pc[u] = "install" /\ mem'[u] = mem[u]
    BY <1>0, <1>2
  <2>2. \A u \in Thread : pc'[u] = "squeeze" => pc[u] = "squeeze" /\ detached'[u] = detached[u]
    BY <1>2
  <2> QED
    BY <1>0, <1>9, <2>1, <2>2 DEF StillAccounted
<1>15. GaveBack(kind, who, k2, who, gone, s)
  BY <1>10, <1>11, <1>12, <1>13, <1>14 DEF GaveBack
<1> QED
  BY <1>4, <1>5, <1>15

\* The types of what has to do with chunks, when some are given back.
LEMMA ReleaseTypes ==
  ASSUME Inv, NEW t \in Thread, pc[t] \in {"pad", "unmap"}, NEW gone \in SUBSET releasing[t],
         releasing' = [releasing EXCEPT ![t] = releasing[t] \ gone], AfterRelease(t),
         mapped' \subseteq Chunk, pad' \subseteq mapped', padSize' = Cardinality(pad'),
         \A u \in Thread : /\ releasing'[u] \subseteq mapped'
                           /\ pc[u] = "install" => mem[u] \in mapped'
  PROVE  ChunkTypes'
<1>0. /\ Types
      /\ UNCHANGED <<freeList, tempList, minChunkAddr, maxChunkAddr, mem>>
  BY DEF Inv, AfterRelease, cacheVars, addrVars
<1>1. /\ pc' = [pc EXCEPT ![t] = IF releasing'[t] = {} THEN "idle" ELSE "unmap"]
      /\ detached' = [detached EXCEPT ![t] = IF releasing'[t] = {} THEN NULL ELSE detached[t]]
  BY DEF AfterRelease
<1>2. ChunkTypes
  BY <1>0 DEF Types
<1>3. /\ pc' \in [Thread -> {"idle"} \cup InFetch \cup InSqueeze]
      /\ detached' \in [Thread -> Detached \cup {NULL}]
      /\ releasing' \in [Thread -> SUBSET mapped']
  BY <1>1, <1>2 DEF ChunkTypes, InSqueeze
<1>4. mem' \in [Thread -> mapped' \cup {NULL}]
  BY <1>0, <1>2 DEF ChunkTypes
<1>5. ASSUME NEW u \in Thread
      PROVE  /\ pc'[u] \in InFetch => freeList'[u] = <<>> /\ tempList'[u] = <<>>
             /\ IF pc'[u] = "install" THEN mem'[u] \in mapped' ELSE mem'[u] = NULL
             /\ IF pc'[u] \in InSqueeze THEN detached'[u] \in Detached ELSE detached'[u] = NULL
             /\ pc'[u] \in InSqueeze => ~CHUNK_IS_SMALL
             /\ IF pc'[u] = "squeeze"
                THEN /\ \A j \in 1 .. Len(detached'[u].batches) : detached'[u].batches[j] # <<>>
                     /\ Len(detached'[u].list) <= detached'[u].size
                ELSE pc'[u] \in InSqueeze => detached'[u].batches = <<>> /\ detached'[u].list = <<>>
             /\ pc'[u] \notin {"pad", "unmap"} => releasing'[u] = {}
  <2>1. CASE u # t
    <3>1. pc'[u] = pc[u] /\ detached'[u] = detached[u] /\ releasing'[u] = releasing[u]
      BY <1>1, <1>2, <2>1 DEF ChunkTypes
    <3> QED
      BY <1>0, <1>2, <3>1 DEF ChunkTypes
  <2>2. CASE u = t
    <3>1. /\ pc'[t] = IF releasing'[t] = {} THEN "idle" ELSE "unmap"
          /\ detached'[t] = IF releasing'[t] = {} THEN NULL ELSE detached[t]
      BY <1>1, <1>2 DEF ChunkTypes
    <3>2. /\ mem[t] = NULL /\ detached[t] \in Detached /\ ~CHUNK_IS_SMALL
          /\ detached[t].batches = <<>> /\ detached[t].list = <<>>
      BY <1>2 DEF ChunkTypes, InSqueeze
    <3> QED
      BY <1>0, <2>2, <3>1, <3>2 DEF InFetch, InSqueeze
  <2> QED
    BY <2>1, <2>2
<1> QED
  BY <1>0, <1>2, <1>3, <1>4, <1>5 DEF ChunkTypes

\* A wholly free chunk is put aside in the pad.
LEMMA PutOffKeeps ==
  ASSUME Inv, NEW t \in Thread, PutOff(t)
  PROVE  Inv'
<1>1. PICK kind, who : Account(kind, who)
  BY DEF Inv, Accounted
<1>2. PICK put \in SUBSET releasing[t] :
         /\ pad' = pad \cup put /\ padSize' = padSize + Cardinality(put)
         /\ releasing' = [releasing EXCEPT ![t] = releasing[t] \ put]
  BY DEF PutOff, Inv, Types, ChunkTypes
<1>0. /\ Types /\ pc[t] \in {"pad", "unmap"} /\ mapped' = mapped /\ AfterRelease(t)
  BY DEF Inv, PutOff
<1>3. ListTypes' /\ ArrayTypes' /\ NoRepeats'
  BY <1>0, <1>1, <1>2, Releases
<1>4. PICK k2, w2 : GaveBack(kind, who, k2, w2, put, "pad")
  BY <1>0, <1>1, <1>2, Releases
<1>5. /\ pad \subseteq mapped /\ mapped \subseteq Chunk /\ padSize = Cardinality(pad)
      /\ releasing[t] \subseteq mapped /\ put \subseteq mapped
  BY <1>0 DEF Types, ChunkTypes
<1>6. \A c \in Chunk, m \in 1 .. NumBlocks :
         k2[<<c, m>>] = IF c \in put THEN "pad" ELSE kind[<<c, m>>]
  BY <1>4 DEF GaveBack
<1>7. PadAcc(k2, w2)'
  <2>1. ASSUME NEW c \in pad', NEW m \in 1 .. NumBlocks
        PROVE  k2[<<c, m>>] = "pad"
    <3>1. c \in Chunk /\ (c \in put \/ c \in pad)
      BY <1>2, <1>5
    <3>2. c \in pad => kind[<<c, m>>] = "pad"
      BY <1>1 DEF Account, PadAcc
    <3> QED
      BY <1>6, <3>1, <3>2
  <2> QED
    BY <2>1 DEF PadAcc
<1>8. SystemAcc(k2, w2)'
  <2>1. ASSUME NEW c \in Chunk \ mapped, NEW m \in 1 .. NumBlocks
        PROVE  k2[<<c, m>>] = "system"
    <3>1. c \notin put
      BY <1>5
    <3> QED
      BY <1>1, <1>6, <3>1 DEF Account, SystemAcc
  <2> QED
    BY <1>0, <2>1 DEF SystemAcc
<1>9. Accounted'
  BY <1>4, <1>7, <1>8 DEF GaveBack, Accounted, Account
<1>10. padSize' = Cardinality(pad')
  <2>1. IsFiniteSet(Chunk)
    BY LtAllocAssumption
  <2>2. IsFiniteSet(pad) /\ IsFiniteSet(put)
    BY <1>5, <2>1, FS_Subset
  <2>3. pad \cap put = {}
    <3> SUFFICES ASSUME NEW c \in pad, c \in put PROVE FALSE
      OBVIOUS
    <3>1. 1 \in 1 .. NumBlocks
      BY LtAllocAssumption
    <3>2. kind[<<c, 1>>] = "pad"
      BY <1>1, <3>1 DEF Account, PadAcc
    <3>3. kind[<<c, 1>>] = "releasing"
      BY <1>1, <3>1 DEF Account, ReleasingAcc
    <3> QED
      BY <3>2, <3>3
  <2>4. Cardinality(pad \cup put) = Cardinality(pad) + Cardinality(put) - Cardinality({})
    BY <2>2, <2>3, FS_Union
  <2>5. Cardinality({}) = 0 /\ Cardinality(pad) \in Nat /\ Cardinality(put) \in Nat
    BY <2>2, FS_EmptySet, FS_CardinalityType
  <2> QED
    BY <1>2, <1>5, <2>4, <2>5
<1>11. ChunkTypes'
  <2>1. \A u \in Thread : /\ releasing'[u] \subseteq mapped'
                          /\ pc[u] = "install" => mem[u] \in mapped'
    BY <1>0, <1>2 DEF Types, ChunkTypes
  <2>2. mapped' \subseteq Chunk /\ pad' \subseteq mapped'
    BY <1>0, <1>2, <1>5
  <2> QED
    BY <1>0, <1>2, <1>10, <2>1, <2>2, ReleaseTypes
<1> QED
  BY <1>3, <1>9, <1>11 DEF Inv, Types

\* The chunks that the pad has no place for are unmapped.
LEMMA UnmapKeeps ==
  ASSUME Inv, NEW t \in Thread, Unmap(t)
  PROVE  Inv'
<1>1. PICK kind, who : Account(kind, who)
  BY DEF Inv, Accounted
<1>2. PICK c \in releasing[t] :
         /\ mapped' = mapped \ {c}
         /\ releasing' = [releasing EXCEPT ![t] = releasing[t] \ {c}]
  BY DEF Unmap, Inv, Types, ChunkTypes
<1>0. /\ Types /\ pc[t] \in {"pad", "unmap"} /\ pad' = pad /\ padSize' = padSize
      /\ AfterRelease(t)
  BY DEF Inv, Unmap, padVars
<1>3. {c} \in SUBSET releasing[t]
  OBVIOUS
<1>4. ListTypes' /\ ArrayTypes' /\ NoRepeats'
  BY <1>0, <1>1, <1>2, <1>3, Releases
<1>5. PICK k2, w2 : GaveBack(kind, who, k2, w2, {c}, "system")
  BY <1>0, <1>1, <1>2, <1>3, Releases
<1>6. /\ pad \subseteq mapped /\ mapped \subseteq Chunk /\ padSize = Cardinality(pad)
      /\ c \in mapped
      /\ \A u \in Thread : /\ releasing[u] \subseteq mapped
                           /\ pc[u] = "install" => mem[u] \in mapped
  BY <1>0 DEF Types, ChunkTypes
<1>7. \A e \in Chunk, m \in 1 .. NumBlocks :
         k2[<<e, m>>] = IF e = c THEN "system" ELSE kind[<<e, m>>]
  BY <1>5 DEF GaveBack
<1>8. 1 \in 1 .. NumBlocks
  BY LtAllocAssumption
<1>9. kind[<<c, 1>>] = "releasing" /\ who[<<c, 1>>] = t
  BY <1>1, <1>8 DEF Account, ReleasingAcc
<1>10. c \notin pad
  BY <1>1, <1>8, <1>9 DEF Account, PadAcc
<1>11. PadAcc(k2, w2)'
  <2>1. ASSUME NEW e \in pad, NEW m \in 1 .. NumBlocks
        PROVE  k2[<<e, m>>] = "pad"
    BY <1>1, <1>6, <1>7, <1>10 DEF Account, PadAcc
  <2> QED
    BY <1>0, <2>1 DEF PadAcc
<1>12. SystemAcc(k2, w2)'
  <2>1. ASSUME NEW e \in Chunk \ mapped', NEW m \in 1 .. NumBlocks
        PROVE  k2[<<e, m>>] = "system"
    <3>1. e = c \/ e \in Chunk \ mapped
      BY <1>2
    <3> QED
      BY <1>1, <1>7, <3>1 DEF Account, SystemAcc
  <2> QED
    BY <2>1 DEF SystemAcc
<1>13. Accounted'
  BY <1>5, <1>11, <1>12 DEF GaveBack, Accounted, Account
<1>14. ChunkTypes'
  <2>1. ASSUME NEW u \in Thread
        PROVE  /\ releasing'[u] \subseteq mapped'
               /\ pc[u] = "install" => mem[u] \in mapped'
    <3>1. releasing'[u] \subseteq mapped'
      <4>1. CASE u = t
        <5>1. releasing'[u] = releasing[t] \ {c}
          BY <1>0, <1>2, <4>1 DEF Types, ChunkTypes
        <5> QED
          BY <1>2, <1>6, <5>1
      <4>2. CASE u # t
        <5>1. releasing'[u] = releasing[u]
          BY <1>0, <1>2, <4>2 DEF Types, ChunkTypes
        <5>2. c \notin releasing[u]
          BY <1>1, <1>8, <1>9, <4>2 DEF Account, ReleasingAcc
        <5> QED
          BY <1>2, <1>6, <5>1, <5>2
      <4> QED
        BY <4>1, <4>2
    <3>2. pc[u] = "install" => mem[u] # c
      BY <1>1, <1>8, <1>9 DEF Account, MemAcc
    <3> QED
      BY <1>2, <1>6, <3>1, <3>2
  <2>2. mapped' \subseteq Chunk /\ pad' \subseteq mapped'
    BY <1>0, <1>2, <1>6, <1>10
  <2>3. padSize' = Cardinality(pad')
    BY <1>0, <1>6
  <2> QED
    BY <1>0, <1>2, <1>3, <2>1, <2>2, <2>3, ReleaseTypes
<1> QED
  BY <1>4, <1>13, <1>14 DEF Inv, Types

-----------------------------------------------------------------------------
\* Products of natural numbers grow with their factors.
LEMMA TimesMonotone ==
  ASSUME NEW a \in Nat, NEW b \in Nat, NEW m \in Nat, a <= b
  PROVE  m * a <= m * b /\ a * m <= b * m /\ m * a \in Nat /\ m * b \in Nat
<1>1. PICK c \in Nat : b = a + c
  <2>1. b - a \in Nat /\ b = a + (b - a)
    OBVIOUS
  <2> QED
    BY <2>1
<1>2. m * (a + c) = m * a + m * c /\ m * a \in Nat /\ m * c \in Nat
  OBVIOUS
<1>3. (a + c) * m = a * m + c * m /\ a * m \in Nat /\ c * m \in Nat
  OBVIOUS
<1> QED
  BY <1>1, <1>2, <1>3

\* As many numbers as from 1 to n.
LEMMA CountTo ==
  ASSUME NEW n \in Nat
  PROVE  IsFiniteSet(1 .. n) /\ Cardinality(1 .. n) = n
<1>1. 1 \in Int /\ n \in Int
  OBVIOUS
<1>2. IsFiniteSet(1 .. n) /\ Cardinality(1 .. n) = IF 1 > n THEN 0 ELSE n - 1 + 1
  BY <1>1, FS_Interval, Zenon
<1> QED
  BY <1>2

\* Were all arrays full while a batch is kept aside, there would be more blocks than
\* in the chunks that are listed.
LEMMA RoomForBatch ==
  ASSUME Inv, Arrays, Counted, CHUNK_IS_SMALL, NEW t \in Thread, tempList[t] # <<>>
  PROVE  RoomAt \in 1 .. Len(chunks)
<1>1. PICK kind, who : Account(kind, who)
  BY DEF Inv, Accounted
<1>0. Types /\ NoRepeats
  BY DEF Inv
<1> DEFINE m == Len(chunks)
           first == tempList[t][1]
           L == {chunks[i].chunk : i \in 1 .. m}
           Y == L \X (1 .. NumBlocks)
           P == (1 .. m) \X ((1 .. NUM_OF_BATCHES) \X (1 .. BATCH))
           f == [p \in P |-> Batches(p[1])[p[2][1]][p[2][2]]]
<1>2. /\ m \in Nat /\ NUM_OF_BATCHES \in Nat /\ BATCH \in Nat \ {0} /\ NumBlocks \in Nat \ {0}
      /\ NUM_OF_BATCHES * BATCH >= NumBlocks
  BY <1>0, LtAllocAssumption DEF Types, ArrayTypes
<1>3. first \in Block /\ kind[first] = "temp"
  <2>1. tempList[t] \in Seq(Block)
    BY <1>0 DEF Types, ListTypes
  <2>2. 1 \in 1 .. Len(tempList[t])
    BY <2>1
  <2> QED
    BY <1>1, <2>1, <2>2 DEF Account, TempAcc
<1>4. \A b \in Block : kind[b] \in Serving => b[1] \in L
  BY <1>1 DEF Account, ServingAcc
<1>5. \A b \in Block : b = <<b[1], b[2]>> /\ b[2] \in 1 .. NumBlocks
  BY DEF Block
<1>6. \A b \in Block : kind[b] \in Serving => b \in Y
  <2> HIDE DEF L
  <2> QED
    BY <1>4, <1>5
<1>7. first \in Y
  BY <1>3, <1>6 DEF Serving
<1>8. chunkWithFreeBatches \in 1 .. m
  <2>1. m # 0
    BY <1>2, <1>7
  <2>2. chunks # <<>>
    BY <2>1
  <2> QED
    BY <1>2, <2>2 DEF Arrays
<1>9. SUFFICES ASSUME IsFull(chunkWithFreeBatches), chunkWithFreeBatches = m
               PROVE  FALSE
  BY <1>2, <1>8 DEF RoomAt
<1>10. \A i \in 1 .. m : Len(Batches(i)) = NUM_OF_BATCHES
  BY <1>2, <1>9 DEF Arrays, IsFull
<1>11. \A i \in 1 .. m : \A j \in 1 .. NUM_OF_BATCHES : Len(Batches(i)[j]) = BATCH
  <2>1. Squeezer = {}
    BY LtAllocAssumption
  <2> QED
    BY <1>10, <2>1 DEF Counted, CentralCounted, Whole
<1>12. \A i \in 1 .. m : \A j \in 1 .. NUM_OF_BATCHES : \A k \in 1 .. BATCH :
          Batches(i)[j][k] \in Block /\ kind[Batches(i)[j][k]] = "batch"
  BY <1>0, <1>1, <1>10, <1>11, ListedBlocks, ZenonT(30) DEF Account, ArrayAcc
<1>13. \A p \in P : /\ p[1] \in 1 .. m /\ p[2][1] \in 1 .. NUM_OF_BATCHES /\ p[2][2] \in 1 .. BATCH
                    /\ p = <<p[1], <<p[2][1], p[2][2]>>>>
                    /\ f[p] = Batches(p[1])[p[2][1]][p[2][2]]
  OBVIOUS
<1>14. DOMAIN f = P
  OBVIOUS
<1>15. \A p \in P : f[p] \in Y \ {first}
  <2> HIDE DEF f, P, Y, first
  <2> TAKE p \in P
  <2>1. f[p] \in Block /\ kind[f[p]] = "batch"
    BY <1>12, <1>13
  <2> QED
    BY <1>3, <1>6, <2>1 DEF Serving
<1>16. \A p, q \in P : f[p] = f[q] => p = q
  <2> HIDE DEF f, P
  <2> SUFFICES ASSUME NEW p \in P, NEW q \in P, f[p] = f[q]
               PROVE  p = q
    OBVIOUS
  <2>1. PICK i \in 1 .. m, j \in 1 .. NUM_OF_BATCHES, k \in 1 .. BATCH :
           p = <<i, <<j, k>>>> /\ f[p] = Batches(i)[j][k]
    BY <1>13
  <2>2. PICK g \in 1 .. m, h \in 1 .. NUM_OF_BATCHES, l \in 1 .. BATCH :
           q = <<g, <<h, l>>>> /\ f[q] = Batches(g)[h][l]
    BY <1>13
  <2>3. Batches(i)[j][k] = Batches(g)[h][l]
    BY <2>1, <2>2
  <2>4. /\ j \in 1 .. Len(Batches(i)) /\ h \in 1 .. Len(Batches(g))
        /\ k \in 1 .. Len(Batches(i)[j]) /\ l \in 1 .. Len(Batches(g)[h])
    BY <1>10, <1>11
  <2>5. i = g
    <3>1. ApartIn(chunks)
      BY <1>0 DEF NoRepeats, ArraysApart
    <3>2. /\ i \in 1 .. Len(chunks) /\ g \in 1 .. Len(chunks)
          /\ j \in 1 .. Len(chunks[i].batches) /\ h \in 1 .. Len(chunks[g].batches)
          /\ k \in 1 .. Len(chunks[i].batches[j]) /\ l \in 1 .. Len(chunks[g].batches[h])
      BY <2>4 DEF Batches
    <3>3. chunks[i].batches[j][k] = chunks[g].batches[h][l]
      BY <2>3 DEF Batches
    <3> QED
      BY <3>1, <3>2, <3>3, ZenonT(30) DEF ApartIn
  <2>6. j = h /\ k = l
    <3>0. PICK s : s = Batches(i)
      OBVIOUS
    <3>1. Apart(s)
      BY <1>0, <3>0 DEF NoRepeats
    <3>2. /\ j \in 1 .. Len(s) /\ h \in 1 .. Len(s)
          /\ k \in 1 .. Len(s[j]) /\ l \in 1 .. Len(s[h])
      BY <2>4, <2>5, <3>0
    <3>3. s[j][k] = s[h][l]
      BY <2>3, <2>5, <3>0
    <3> QED
      BY <3>1, <3>2, <3>3, ApartPlaces
  <2> QED
    BY <2>1, <2>2, <2>5, <2>6
<1>17. f \in Injection(P, Y \ {first})
  <2> HIDE DEF f, P, Y, first
  <2>1. f \in [P -> Y \ {first}]
    <3>1. f = [p \in P |-> f[p]]
      BY DEF f
    <3> QED
      BY <1>15, <3>1
  <2> QED
    BY <1>16, <2>1 DEF Injection, IsInjective
<1>18. IsFiniteSet(P) /\ Cardinality(P) = m * (NUM_OF_BATCHES * BATCH)
  <2>1. /\ IsFiniteSet(1 .. m) /\ Cardinality(1 .. m) = m
        /\ IsFiniteSet(1 .. NUM_OF_BATCHES) /\ Cardinality(1 .. NUM_OF_BATCHES) = NUM_OF_BATCHES
        /\ IsFiniteSet(1 .. BATCH) /\ Cardinality(1 .. BATCH) = BATCH
    BY <1>2, CountTo
  <2>2. /\ IsFiniteSet((1 .. NUM_OF_BATCHES) \X (1 .. BATCH))
        /\ Cardinality((1 .. NUM_OF_BATCHES) \X (1 .. BATCH)) = NUM_OF_BATCHES * BATCH
    <3>1. /\ IsFiniteSet((1 .. NUM_OF_BATCHES) \X (1 .. BATCH))
          /\ Cardinality((1 .. NUM_OF_BATCHES) \X (1 .. BATCH))
                = Cardinality(1 .. NUM_OF_BATCHES) * Cardinality(1 .. BATCH)
      BY <2>1, FS_Product, Zenon
    <3> QED
      BY <2>1, <3>1
  <2>3. IsFiniteSet(P) /\ Cardinality(P) = Cardinality(1 .. m)
           * Cardinality((1 .. NUM_OF_BATCHES) \X (1 .. BATCH))
    BY <2>1, <2>2, FS_Product
  <2> QED
    BY <2>1, <2>2, <2>3
<1>19. IsFiniteSet(L) /\ Cardinality(L) <= m /\ Cardinality(L) \in Nat
  <2>1. IsFiniteSet(1 .. m) /\ Cardinality(1 .. m) = m
    BY <1>2, CountTo
  <2> DEFINE g == [i \in 1 .. m |-> chunks[i].chunk]
  <2>2. g \in Surjection(1 .. m, L)
    BY DEF Surjection
  <2>3. IsFiniteSet(L) /\ Cardinality(L) <= Cardinality(1 .. m)
    <3> HIDE DEF g, L
    <3> QED
      BY <2>1, <2>2, FS_Surjection
  <2> QED
    BY <2>1, <2>3, FS_CardinalityType
<1>20. IsFiniteSet(Y) /\ Cardinality(Y) = Cardinality(L) * NumBlocks
  <2>1. IsFiniteSet(1 .. NumBlocks) /\ Cardinality(1 .. NumBlocks) = NumBlocks
    BY <1>2, CountTo
  <2> HIDE DEF L
  <2> QED
    BY <1>19, <2>1, FS_Product
<1> HIDE DEF L, Y, P, f, first
<1>21. IsFiniteSet(Y \ {first}) /\ Cardinality(Y \ {first}) = Cardinality(Y) - 1
  BY <1>7, <1>20, FS_RemoveElement
<1>22. Cardinality(P) <= Cardinality(Y \ {first})
  BY <1>17, <1>21, FS_Injection
<1>23. Cardinality(L) * NumBlocks <= m * NumBlocks
  BY <1>2, <1>19, TimesMonotone
<1>24. /\ m * NumBlocks <= m * (NUM_OF_BATCHES * BATCH)
       /\ m * NumBlocks \in Nat /\ m * (NUM_OF_BATCHES * BATCH) \in Nat
  <2>1. NUM_OF_BATCHES * BATCH \in Nat
    BY <1>2
  <2> QED
    BY <1>2, <2>1, TimesMonotone
<1>25. Cardinality(L) * NumBlocks \in Nat
  BY <1>2, <1>19
<1> QED
  BY <1>18, <1>20, <1>21, <1>22, <1>23, <1>24, <1>25

-----------------------------------------------------------------------------
\* The list of chunks when the batches of one of them change.
LEMMA ArrayChanged ==
  ASSUME Types, NEW B \in 1 .. Len(chunks), NEW bs \in Seq(Seq(Block)),
         chunks' = [chunks EXCEPT ![B].batches = bs]
  PROVE  /\ Len(chunks') = Len(chunks) /\ Batches(B)' = bs
         /\ \A i \in 1 .. Len(chunks) : i # B => Batches(i)' = Batches(i)
         /\ \A i \in 1 .. Len(chunks) : chunks'[i].chunk = chunks[i].chunk
<1>1. /\ chunks \in Seq(ArrayEntry) /\ Len(chunks) \in Nat
      /\ \A i \in 1 .. Len(chunks) : chunks[i] \in ArrayEntry
  BY DEF Types, ArrayTypes
<1> DEFINE new == [chunks[B] EXCEPT !.batches = bs]
<1>2. new \in ArrayEntry /\ new.batches = bs /\ new.chunk = chunks[B].chunk
  BY <1>1 DEF ArrayEntry
<1>3. chunks' = [chunks EXCEPT ![B] = new]
  OBVIOUS
<1> HIDE DEF new
<1>4. /\ Len(chunks') = Len(chunks) /\ chunks'[B] = new
      /\ \A i \in 1 .. Len(chunks) : i # B => chunks'[i] = chunks[i]
  BY <1>1, <1>2, <1>3
<1> QED
  BY <1>2, <1>4 DEF Batches

\* What a thread's counter tells is not changed by the other threads.
LEMMA OthersCounted ==
  ASSUME Types, Counted, NEW u \in Thread, counter'[u] = counter[u], freeList'[u] = freeList[u],
         tempList'[u] = tempList[u], pc'[u] = pc[u], detached'[u] = detached[u]
  PROVE  CacheCounted(u)' /\ DetachedCounted(u)'
BY DEF Counted, CacheCounted, DetachedCounted

\* The counter that a cache starts with, when it receives n blocks that are counted as m.
LEMMA CounterTold ==
  ASSUME NEW m \in Nat, NEW n \in Nat, 1 <= n, n <= m, m <= BATCH + 1, Squeezer = {} => m = n
  PROVE  CounterFor(m) \in 0 .. BATCH /\ Told(CounterFor(m), n - 1)
<1>1. CounterFor(m) = BATCH - m + 1
  BY LtAllocAssumption DEF CounterFor
<1>2. CounterFor(m) \in 0 .. BATCH /\ CounterFor(m) + (n - 1) <= BATCH
  BY <1>1, LtAllocAssumption
<1>3. Squeezer = {} => CounterFor(m) + (n - 1) = BATCH
  BY <1>1, LtAllocAssumption
<1> QED
  BY <1>2, <1>3 DEF Told

\* And when it receives a batch.
LEMMA BatchTold ==
  ASSUME NEW n \in Nat, n # 0, Whole(n)
  PROVE  1 \in 0 .. BATCH /\ Told(1, n - 1)
BY LtAllocAssumption DEF Whole, Told

\* The cache of a thread that receives a list, with the counter c.
LEMMA ReceivedCounted ==
  ASSUME Types, Counted, NEW t \in Thread, NEW list \in Seq(Block), list # <<>>,
         Receive(t, list), NEW c \in 0 .. BATCH, Told(c, Len(list) - 1),
         counter' = [counter EXCEPT ![t] = c], pc'[t] = "idle", tempList'[t] = <<>>
  PROVE  /\ CacheCounted(t)' /\ DetachedCounted(t)'
         /\ \A u \in Thread : u # t => counter'[u] = counter[u] /\ freeList'[u] = freeList[u]
<1>1. freeList \in [Thread -> Seq(Block)] /\ counter \in [Thread -> Int]
  BY DEF Types, ListTypes
<1>2. /\ freeList' = [freeList EXCEPT ![t] = Tail(list)]
      /\ Len(Tail(list)) = Len(list) - 1
  BY DEF Receive
<1>3. Told(counter'[t], Len(freeList'[t])) /\ counter'[t] \in 0 .. BATCH
  <2>1. freeList'[t] = Tail(list) /\ counter'[t] = c
    BY <1>1, <1>2
  <2> QED
    BY <1>2, <2>1
<1>4. pc'[t] \notin InFetch /\ pc'[t] \notin InSqueeze /\ pc'[t] # "squeeze"
  BY DEF InFetch, InSqueeze
<1>5. CacheCounted(t)'
  BY <1>3, <1>4 DEF CacheCounted
<1>6. DetachedCounted(t)'
  BY <1>4 DEF DetachedCounted
<1> QED
  BY <1>1, <1>2, <1>5, <1>6

\* The counts that are kept, when the other threads and the central cache stay.
LEMMA OneCounted ==
  ASSUME Types, Counted, NEW t \in Thread, CacheCounted(t)', DetachedCounted(t)', CentralCounted',
         \A u \in Thread : u # t =>
            /\ counter'[u] = counter[u] /\ freeList'[u] = freeList[u]
            /\ tempList'[u] = tempList[u] /\ pc'[u] = pc[u] /\ detached'[u] = detached[u]
  PROVE  Counted'
<1>1. \A u \in Thread : CacheCounted(u)' /\ DetachedCounted(u)'
  <2> TAKE u \in Thread
  <2>1. u # t => CacheCounted(u)' /\ DetachedCounted(u)'
    BY OthersCounted
  <2> QED
    BY <2>1
<1> QED
  BY <1>1 DEF Counted

\* The counts of the central cache, when its batches stay.
LEMMA CentralStays ==
  ASSUME Counted, UNCHANGED <<firstBatch, chunks>>
  PROVE  CentralCounted'
BY DEF Counted, CentralCounted, Batches

\* The order of the arrays, when no batch moves.
LEMMA ArraysStay ==
  ASSUME Arrays, UNCHANGED <<chunks, chunkWithFreeBatches>>
  PROVE  Arrays'
BY DEF Arrays, Batches, IsFull

-----------------------------------------------------------------------------
\* ltmalloc from the cache: one block less, and the counter one more.
LEMMA CachedCounted ==
  ASSUME Types, Arrays, Counted, NEW t \in Thread, MallocCached(t)
  PROVE  Arrays' /\ Counted'
<1>1. /\ pc[t] = "idle" /\ freeList[t] # <<>> /\ freeList[t] \in Seq(Block)
      /\ freeList' = [freeList EXCEPT ![t] = Tail(freeList[t])]
      /\ counter' = [counter EXCEPT ![t] = counter[t] + 1]
      /\ UNCHANGED <<tempList, firstBatch, chunks, chunkWithFreeBatches, pc, detached>>
      /\ freeList \in [Thread -> Seq(Block)] /\ counter \in [Thread -> Int]
  BY DEF MallocCached, Receive, batchVars, squeezeVars, Types, ListTypes
<1>2. Len(freeList[t]) >= 1 /\ Len(Tail(freeList[t])) = Len(freeList[t]) - 1
  BY <1>1
<1>3. /\ counter[t] \in 0 .. BATCH /\ Told(counter[t], Len(freeList[t]))
      /\ tempList[t] # <<>> => Whole(Len(tempList[t]))
  BY <1>1 DEF Counted, CacheCounted, InFetch
<1>4. freeList'[t] = Tail(freeList[t]) /\ counter'[t] = counter[t] + 1
  BY <1>1
<1>5. CacheCounted(t)'
  <2>1. counter[t] + 1 \in 0 .. BATCH /\ Told(counter[t] + 1, Len(Tail(freeList[t])))
    BY <1>2, <1>3, LtAllocAssumption DEF Told
  <2> QED
    BY <1>1, <1>3, <1>4, <2>1 DEF CacheCounted, InFetch
<1>6. DetachedCounted(t)'
  BY <1>1 DEF DetachedCounted, InSqueeze
<1>7. \A u \in Thread : u # t => counter'[u] = counter[u] /\ freeList'[u] = freeList[u]
  BY <1>1
<1> QED
  BY <1>1, <1>5, <1>6, <1>7, OneCounted, CentralStays, ArraysStay

\* ltmalloc from the batch that was put aside, which is whole.
LEMMA TempCounted ==
  ASSUME Types, Arrays, Counted, NEW t \in Thread, MallocTemp(t)
  PROVE  Arrays' /\ Counted'
<1>1. /\ pc[t] = "idle" /\ tempList[t] # <<>> /\ tempList[t] \in Seq(Block)
      /\ Receive(t, tempList[t])
      /\ counter' = [counter EXCEPT ![t] = 1] /\ tempList' = [tempList EXCEPT ![t] = <<>>]
      /\ UNCHANGED <<firstBatch, chunks, chunkWithFreeBatches, pc, detached>>
      /\ tempList \in [Thread -> Seq(Block)]
  BY DEF MallocTemp, batchVars, squeezeVars, Types, ListTypes
<1>2. Whole(Len(tempList[t])) /\ Len(tempList[t]) \in Nat /\ Len(tempList[t]) # 0
  BY <1>1 DEF Counted, CacheCounted
<1>3. 1 \in 0 .. BATCH /\ Told(1, Len(tempList[t]) - 1)
  BY <1>2, BatchTold
<1>4. tempList'[t] = <<>> /\ \A u \in Thread : u # t => tempList'[u] = tempList[u]
  BY <1>1
<1>5. /\ CacheCounted(t)' /\ DetachedCounted(t)'
      /\ \A u \in Thread : u # t => counter'[u] = counter[u] /\ freeList'[u] = freeList[u]
  BY <1>1, <1>3, <1>4, ReceivedCounted
<1> QED
  BY <1>1, <1>4, <1>5, OneCounted, CentralStays, ArraysStay

\* ltmalloc from the list of batches, which are whole.
LEMMA LargeBatchCounted ==
  ASSUME Types, Arrays, Counted, NEW t \in Thread, MallocBatch(t), ~CHUNK_IS_SMALL
  PROVE  Arrays' /\ Counted'
<1>1. /\ pc[t] = "idle" /\ tempList[t] = <<>> /\ firstBatch # <<>>
      /\ Receive(t, Head(firstBatch)) /\ firstBatch' = Tail(firstBatch)
      /\ counter' = [counter EXCEPT ![t] = 1]
      /\ UNCHANGED <<tempList, chunks, chunkWithFreeBatches, pc, detached>>
      /\ firstBatch \in Seq(Seq(Block)) /\ \A j \in 1 .. Len(firstBatch) : firstBatch[j] # <<>>
  BY DEF MallocBatch, Fetching, NoBatch, TakeBatch, squeezeVars, Types, ListTypes
<1>2. /\ 1 \in 1 .. Len(firstBatch) /\ Head(firstBatch) = firstBatch[1]
      /\ firstBatch[1] \in Seq(Block) /\ Tail(firstBatch) \in Seq(Seq(Block))
      /\ \A j \in 1 .. Len(Tail(firstBatch)) :
            j + 1 \in 1 .. Len(firstBatch) /\ Tail(firstBatch)[j] = firstBatch[j + 1]
  BY <1>1
<1>3. Head(firstBatch) \in Seq(Block) /\ Head(firstBatch) # <<>> /\ Whole(Len(Head(firstBatch)))
  BY <1>1, <1>2 DEF Counted, CentralCounted
<1>4. 1 \in 0 .. BATCH /\ Told(1, Len(Head(firstBatch)) - 1)
  <2>1. Len(Head(firstBatch)) \in Nat /\ Len(Head(firstBatch)) # 0
    BY <1>3
  <2> QED
    BY <1>3, <2>1, BatchTold
<1>5. /\ CacheCounted(t)' /\ DetachedCounted(t)'
      /\ \A u \in Thread : u # t => counter'[u] = counter[u] /\ freeList'[u] = freeList[u]
  BY <1>1, <1>3, <1>4, ReceivedCounted
<1>6. CentralCounted'
  BY <1>1, <1>2 DEF Counted, CentralCounted, Batches
<1> QED
  BY <1>1, <1>5, <1>6, OneCounted, ArraysStay

\* ltmalloc from an array: the arrays after it stay empty, the ones before it full, since
\* chunkWithFreeBatches moves back with the last batch of a chunk.
LEMMA SmallBatchCounted ==
  ASSUME Types, Arrays, Counted, NEW t \in Thread, MallocBatch(t), CHUNK_IS_SMALL
  PROVE  Arrays' /\ Counted'
<1>b. PICK B : B = BatchAt
  OBVIOUS
<1>o. PICK old : old = Batches(B)
  OBVIOUS
<1>1. /\ pc[t] = "idle" /\ tempList[t] = <<>> /\ ~NoBatch
      /\ Receive(t, Last(old)) /\ chunks' = [chunks EXCEPT ![B].batches = Front(@)]
      /\ chunkWithFreeBatches' = B
      /\ counter' = [counter EXCEPT ![t] = 1]
      /\ UNCHANGED <<tempList, firstBatch, pc, detached>>
  BY <1>b, <1>o DEF MallocBatch, Fetching, TakeBatch, squeezeVars
<1>2. B \in 1 .. Len(chunks) /\ old # <<>>
  BY <1>1, <1>b, <1>o, BatchInArray
<1>3. old \in Seq(Seq(Block)) /\ \A j \in 1 .. Len(old) : old[j] # <<>> /\ Whole(Len(old[j]))
  <2>1. chunks[B] \in ArrayEntry
    BY <1>2 DEF Types, ArrayTypes
  <2> QED
    BY <1>2, <1>o, <2>1 DEF ArrayEntry, Batches, Types, ArrayTypes, Counted, CentralCounted
<1>4. Len(old) \in 1 .. Len(old) /\ Len(old) \in Nat
  BY <1>2, <1>3
<1>5. /\ Last(old) = old[Len(old)] /\ Last(old) \in Seq(Block) /\ Last(old) # <<>>
      /\ Whole(Len(Last(old)))
  BY <1>3, <1>4 DEF Last
<1>6. /\ Front(old) \in Seq(Seq(Block)) /\ Len(Front(old)) = Len(old) - 1
      /\ \A j \in 1 .. Len(old) - 1 : Front(old)[j] = old[j]
  BY <1>3, <1>4, AllButLast DEF Front
<1>7. chunks' = [chunks EXCEPT ![B].batches = Front(old)]
  BY <1>1, <1>o DEF Batches
<1>8. /\ Len(chunks') = Len(chunks) /\ Batches(B)' = Front(old)
      /\ \A i \in 1 .. Len(chunks) : i # B => Batches(i)' = Batches(i)
  BY <1>2, <1>6, <1>7, ArrayChanged
<1>9. 1 \in 0 .. BATCH /\ Told(1, Len(Last(old)) - 1)
  <2>1. Len(Last(old)) \in Nat /\ Len(Last(old)) # 0
    BY <1>5
  <2> QED
    BY <1>5, <2>1, BatchTold
<1>10. /\ CacheCounted(t)' /\ DetachedCounted(t)'
       /\ \A u \in Thread : u # t => counter'[u] = counter[u] /\ freeList'[u] = freeList[u]
  BY <1>1, <1>5, <1>9, ReceivedCounted
<1>11. CentralCounted'
  <2>1. ASSUME NEW i \in 1 .. Len(chunks), NEW j \in 1 .. Len(Batches(i)')
        PROVE  Whole(Len(Batches(i)'[j]))
    <3>1. CASE i = B
      <4>1. j \in 1 .. Len(old) - 1 /\ j \in 1 .. Len(old) /\ Batches(i)'[j] = old[j]
        BY <1>4, <1>6, <1>8, <3>1
      <4> QED
        BY <1>3, <4>1
    <3>2. CASE i # B
      BY <1>8, <3>2 DEF Counted, CentralCounted
    <3> QED
      BY <3>1, <3>2
  <2> QED
    BY <1>1, <1>8, <2>1 DEF Counted, CentralCounted
<1>12. Arrays'
  <2>1. /\ chunkWithFreeBatches \in 1 .. Len(chunks)
        /\ \/ B = chunkWithFreeBatches
           \/ B = chunkWithFreeBatches - 1 /\ Batches(chunkWithFreeBatches) = <<>>
    <3>1. Len(chunks) \in Nat /\ chunkWithFreeBatches \in 0 .. Len(chunks)
      BY DEF Arrays, Types, ArrayTypes
    <3> QED
      BY <1>2, <1>b, <3>1 DEF BatchAt
  <2>2. ASSUME NEW i \in 1 .. Len(chunks)
        PROVE  /\ Len(Batches(i)') <= NUM_OF_BATCHES
               /\ i < B => Len(Batches(i)') = NUM_OF_BATCHES
               /\ i > B => Batches(i)' = <<>>
    <3>1. /\ Len(Batches(i)) <= NUM_OF_BATCHES
          /\ i < chunkWithFreeBatches => Len(Batches(i)) = NUM_OF_BATCHES
          /\ i > chunkWithFreeBatches => Batches(i) = <<>>
      BY DEF Arrays, IsFull
    <3>2. CASE i = B
      BY <1>2, <1>4, <1>6, <1>8, <1>o, <3>1, <3>2, LtAllocAssumption
    <3>3. CASE i # B
      <4>1. Batches(i)' = Batches(i)
        BY <1>8, <3>3
      <4>2. i < B => i < chunkWithFreeBatches
        BY <2>1
      <4>3. i > B => i > chunkWithFreeBatches \/ Batches(i) = <<>>
        BY <2>1, <3>3
      <4> QED
        BY <3>1, <4>1, <4>2, <4>3
    <3> QED
      BY <3>2, <3>3
  <2>3. B \in 0 .. Len(chunks) /\ B # 0
    BY <1>2
  <2> QED
    BY <1>1, <1>8, <2>2, <2>3 DEF Arrays, IsFull
<1> QED
  BY <1>1, <1>10, <1>11, <1>12, OneCounted

\* ltmalloc from the list: what is taken of it is a batch or less, and the counter fits.
LEMMA ListCounted ==
  ASSUME Types, Arrays, Counted, ListTold, NEW t \in Thread, MallocList(t)
  PROVE  Arrays' /\ Counted'
<1>n. PICK n : n = IF freeListSize <= BATCH + 1 THEN Len(ccFreeList) ELSE BATCH
  OBVIOUS
<1>c. PICK c : c = IF freeListSize <= BATCH + 1 THEN CounterFor(freeListSize) ELSE 1
  OBVIOUS
<1>l. PICK list : list = SubSeq(ccFreeList, 1, n)
  OBVIOUS
<1>1. /\ pc[t] = "idle" /\ tempList[t] = <<>> /\ ccFreeList # <<>> /\ n <= Len(ccFreeList)
      /\ Receive(t, list)
      /\ counter' = [counter EXCEPT ![t] = c]
      /\ UNCHANGED <<tempList, firstBatch, chunks, chunkWithFreeBatches, pc, detached>>
      /\ ccFreeList \in Seq(Block) /\ freeListSize \in Nat /\ Len(ccFreeList) <= freeListSize
  BY <1>n, <1>c, <1>l DEF MallocList, Fetching, batchVars, squeezeVars, Types, ListTypes
<1>2. Len(ccFreeList) \in Nat /\ Len(ccFreeList) >= 1 /\ BATCH \in Nat /\ BATCH >= 1
  BY <1>1, LtAllocAssumption
<1>3. n \in 1 .. Len(ccFreeList) /\ n \in Nat /\ 1 <= n
  BY <1>1, <1>2, <1>n
<1>4. list \in Seq(Block) /\ Len(list) = n
  BY <1>1, <1>3, <1>l, Split
<1>5. list # <<>>
  BY <1>3, <1>4
<1>6. c \in 0 .. BATCH /\ Told(c, Len(list) - 1)
  <2>1. CASE freeListSize <= BATCH + 1
    <3>1. n <= freeListSize /\ (Squeezer = {} => freeListSize = n)
      BY <1>1, <1>n, <2>1 DEF ListTold
    <3> QED
      BY <1>1, <1>3, <1>4, <1>c, <2>1, <3>1, CounterTold
  <2>2. CASE ~(freeListSize <= BATCH + 1)
    <3>1. c = 1 /\ n = BATCH
      BY <1>n, <1>c, <2>2
    <3> QED
      BY <1>2, <1>4, <3>1 DEF Told
  <2> QED
    BY <2>1, <2>2
<1>7. /\ CacheCounted(t)' /\ DetachedCounted(t)'
      /\ \A u \in Thread : u # t => counter'[u] = counter[u] /\ freeList'[u] = freeList[u]
  BY <1>1, <1>4, <1>5, <1>6, ReceivedCounted
<1> QED
  BY <1>1, <1>7, OneCounted, CentralStays, ArraysStay

\* The blocks that are carved.
LEMMA CarvedList ==
  ASSUME NEW c \in Chunk, NEW first \in Nat, NEW n \in Nat, first >= 1,
         first + n - 1 <= NumBlocks
  PROVE  Carved(c, first, n) \in Seq(Block) /\ Len(Carved(c, first, n)) = n
<1>1. \A i \in 1 .. n : first + i - 1 \in 1 .. NumBlocks
  BY LtAllocAssumption
<1>2. \A i \in 1 .. n : <<c, first + i - 1>> \in Block
  BY <1>1 DEF Block
<1> QED
  BY <1>2 DEF Carved

\* ltmalloc from a chunk that is being carved: the same of the blocks that are cut off.
LEMMA CarveCounted ==
  ASSUME Types, Arrays, Counted, NEW t \in Thread, MallocCarve(t)
  PROVE  Arrays' /\ Counted'
<1>l. PICK left : left = lastChunk[1].left
  OBVIOUS
<1>c. PICK c : c = lastChunk[1].chunk
  OBVIOUS
<1>n. PICK n : n = Min2(left, BATCH)
  OBVIOUS
<1>1. /\ pc[t] = "idle" /\ tempList[t] = <<>> /\ lastChunk # <<>>
      /\ Receive(t, Carved(c, NumBlocks - left + 1, n))
      /\ counter' = [counter EXCEPT ![t] = CounterFor(n)]
      /\ UNCHANGED <<tempList, firstBatch, chunks, chunkWithFreeBatches, pc, detached>>
  BY <1>l, <1>c, <1>n DEF MallocCarve, Fetching, batchVars, squeezeVars
<1>2. left \in 1 .. NumBlocks /\ c \in Chunk
  <2>1. lastChunk[1] \in UncarvedEntry
    BY <1>1 DEF Types, ListTypes
  <2> QED
    BY <1>l, <1>c, <2>1 DEF UncarvedEntry
<1>3. /\ n \in Nat /\ n >= 1 /\ n <= BATCH + 1 /\ n <= left
      /\ NumBlocks - left + 1 \in Nat /\ NumBlocks - left + 1 >= 1
      /\ NumBlocks - left + 1 + n - 1 <= NumBlocks
  BY <1>2, <1>n, LtAllocAssumption DEF Min2
<1> DEFINE first == NumBlocks - left + 1  list == Carved(c, first, n)
<1>4. first \in Nat /\ first >= 1 /\ first + n - 1 <= NumBlocks
  BY <1>3
<1> HIDE DEF first
<1>5. list \in Seq(Block) /\ Len(list) = n
  BY <1>2, <1>3, <1>4, CarvedList
<1>6. Receive(t, list)
  BY <1>1 DEF first
<1> HIDE DEF list
<1>7. list # <<>>
  BY <1>3, <1>5
<1>t. CounterFor(n) \in 0 .. BATCH /\ Told(CounterFor(n), Len(list) - 1)
  BY <1>3, <1>5, CounterTold
<1>8. /\ CacheCounted(t)' /\ DetachedCounted(t)'
      /\ \A u \in Thread : u # t => counter'[u] = counter[u] /\ freeList'[u] = freeList[u]
  BY <1>1, <1>5, <1>6, <1>7, <1>t, ReceivedCounted
<1> QED
  BY <1>1, <1>8, OneCounted, CentralStays, ArraysStay

\* A thread that goes for a chunk has the counter 1 and an empty cache.
LEMMA NewCounted ==
  ASSUME Types, Arrays, Counted, NEW t \in Thread, MallocNew(t)
  PROVE  Arrays' /\ Counted'
<1>1. /\ tempList[t] = <<>> /\ pc' = [pc EXCEPT ![t] = "chunk"]
      /\ counter' = [counter EXCEPT ![t] = 1]
      /\ UNCHANGED <<freeList, tempList, firstBatch, chunks, chunkWithFreeBatches, detached>>
      /\ counter \in [Thread -> Int] /\ pc \in [Thread -> {"idle"} \cup InFetch \cup InSqueeze]
  BY DEF MallocNew, Fetching, batchVars, squeezeVars, Types, ListTypes, ChunkTypes
<1>2. pc'[t] = "chunk" /\ counter'[t] = 1
  BY <1>1
<1>3. CacheCounted(t)' /\ DetachedCounted(t)'
  BY <1>1, <1>2, LtAllocAssumption DEF CacheCounted, DetachedCounted, InFetch, InSqueeze
<1>4. \A u \in Thread : u # t => counter'[u] = counter[u] /\ pc'[u] = pc[u]
  BY <1>1
<1> QED
  BY <1>1, <1>3, <1>4, OneCounted, CentralStays, ArraysStay

\* A chunk that was got changes no count.
LEMMA PreparedCounted ==
  ASSUME Types, Arrays, Counted, NEW t \in Thread, NEW c, pc[t] = "chunk", Prepare(t, c)
  PROVE  Arrays' /\ Counted'
<1>1. /\ pc' = [pc EXCEPT ![t] = "install"]
      /\ UNCHANGED <<freeList, tempList, counter, firstBatch, chunks, chunkWithFreeBatches,
            detached>>
      /\ pc \in [Thread -> {"idle"} \cup InFetch \cup InSqueeze]
  BY DEF Prepare, cacheVars, batchVars, squeezeVars, Types, ChunkTypes
<1>2. pc'[t] = "install"
  BY <1>1
<1>3. CacheCounted(t)
  BY DEF Counted
<1>4. CacheCounted(t)' /\ DetachedCounted(t)'
  BY <1>1, <1>2, <1>3 DEF CacheCounted, DetachedCounted, InFetch, InSqueeze
<1>5. \A u \in Thread : u # t => pc'[u] = pc[u]
  BY <1>1
<1> QED
  BY <1>1, <1>4, <1>5, OneCounted, CentralStays, ArraysStay

\* A new chunk stands behind the array that batches are taken from, so that the arrays
\* stay in their order.
LEMMA InstallCounted ==
  ASSUME Types, Arrays, Counted, NEW t \in Thread, Install(t)
  PROVE  Arrays' /\ Counted'
<1>c. PICK c : c = mem[t]
  OBVIOUS
<1>n. PICK n : n = Min2(NumBlocks, BATCH)
  OBVIOUS
<1>1. /\ pc[t] = "install" /\ pc' = [pc EXCEPT ![t] = "idle"]
      /\ Receive(t, Carved(c, 1, n))
      /\ counter' = [counter EXCEPT ![t] = CounterFor(n)]
      /\ UNCHANGED <<tempList, firstBatch, detached>>
      /\ pc \in [Thread -> {"idle"} \cup InFetch \cup InSqueeze]
      /\ c \in Chunk /\ tempList[t] = <<>>
  BY <1>c, <1>n DEF Install, squeezeVars, Types, ChunkTypes, InFetch
<1>2. n \in Nat /\ n >= 1 /\ n <= BATCH + 1 /\ 1 \in Nat /\ 1 >= 1 /\ 1 + n - 1 <= NumBlocks
  BY <1>n, LtAllocAssumption DEF Min2
<1> DEFINE list == Carved(c, 1, n)
<1>3. list \in Seq(Block) /\ Len(list) = n
  BY <1>1, <1>2, CarvedList
<1> HIDE DEF list
<1>4. list # <<>> /\ Receive(t, list)
  BY <1>1, <1>2, <1>3 DEF list
<1>5. pc'[t] = "idle" /\ \A u \in Thread : u # t => pc'[u] = pc[u]
  BY <1>1
<1>6. /\ CacheCounted(t)' /\ DetachedCounted(t)'
      /\ \A u \in Thread : u # t => counter'[u] = counter[u] /\ freeList'[u] = freeList[u]
  <2>1. CounterFor(n) \in 0 .. BATCH /\ Told(CounterFor(n), Len(list) - 1)
    BY <1>2, <1>3, CounterTold
  <2> QED
    BY <1>1, <1>3, <1>4, <1>5, <2>1, ReceivedCounted
<1>7. CASE ~CHUNK_IS_SMALL
  <2>1. UNCHANGED <<chunks, chunkWithFreeBatches>>
    BY <1>7 DEF Install
  <2> QED
    BY <1>1, <1>5, <1>6, <2>1, OneCounted, CentralStays, ArraysStay
<1>8. CASE CHUNK_IS_SMALL
  <2> DEFINE p == chunkWithFreeBatches + 1
             new == [chunk |-> c, batches |-> <<>>]
  <2>1. /\ chunks' = InsertAt(chunks, p, new)
        /\ chunkWithFreeBatches' = IF chunks = <<>> THEN 1 ELSE chunkWithFreeBatches
    BY <1>c, <1>8 DEF Install, PlaceOfNew
  <2>2. /\ chunks \in Seq(ArrayEntry) /\ Len(chunks) \in Nat
        /\ chunkWithFreeBatches \in 0 .. Len(chunks) /\ p \in 1 .. Len(chunks) + 1
        /\ chunks # <<>> => chunkWithFreeBatches # 0
        /\ chunks = <<>> => Len(chunks) = 0
    BY DEF Types, ArrayTypes, Arrays
  <2>3. new \in ArrayEntry /\ new.batches = <<>> /\ Len(<<>>) = 0
    <3>1. <<>> \in Seq(Seq(Block))
      OBVIOUS
    <3> QED
      BY <1>1, <3>1 DEF ArrayEntry
  <2> HIDE DEF new, p
  <2>4. /\ Len(chunks') = Len(chunks) + 1 /\ chunks'[p] = new
        /\ \A i \in 1 .. p - 1 : chunks'[i] = chunks[i]
        /\ \A i \in p + 1 .. Len(chunks) + 1 : chunks'[i] = chunks[i - 1]
    BY <2>1, <2>2, <2>3, Inserted
  <2>5. \A i \in 1 .. Len(chunks') :
           \/ i < p /\ i \in 1 .. Len(chunks) /\ Batches(i)' = Batches(i)
           \/ i = p /\ Batches(i)' = <<>>
           \/ i > p /\ i - 1 \in 1 .. Len(chunks) /\ Batches(i)' = Batches(i - 1)
    <3> TAKE i \in 1 .. Len(chunks')
    <3>0. i \in Nat /\ p \in Nat /\ i <= Len(chunks) + 1 /\ p >= 1 /\ p <= Len(chunks) + 1 /\ i >= 1
      BY <2>2, <2>4
    <3>1. CASE i < p
      <4>1. i \in 1 .. p - 1 /\ i \in 1 .. Len(chunks)
        BY <2>2, <3>0, <3>1
      <4>2. chunks'[i] = chunks[i]
        BY <2>4, <4>1
      <4> QED
        BY <3>1, <4>1, <4>2 DEF Batches
    <3>2. CASE i = p
      BY <2>3, <2>4, <3>2 DEF Batches
    <3>3. CASE i > p
      <4>1. i \in p + 1 .. Len(chunks) + 1 /\ i - 1 \in 1 .. Len(chunks)
        BY <2>2, <3>0, <3>3
      <4>2. chunks'[i] = chunks[i - 1]
        BY <2>4, <4>1
      <4> QED
        BY <3>3, <4>1, <4>2 DEF Batches
    <3> QED
      BY <3>0, <3>1, <3>2, <3>3
  <2>6. CentralCounted'
    <3>1. ASSUME NEW i \in 1 .. Len(chunks'), NEW j \in 1 .. Len(Batches(i)')
          PROVE  Whole(Len(Batches(i)'[j]))
      <4>1. CASE i < p /\ i \in 1 .. Len(chunks) /\ Batches(i)' = Batches(i)
        BY <4>1 DEF Counted, CentralCounted
      <4>2. CASE i = p /\ Batches(i)' = <<>>
        BY <2>3, <4>2
      <4>3. CASE i > p /\ i - 1 \in 1 .. Len(chunks) /\ Batches(i)' = Batches(i - 1)
        <5>1. PICK e \in 1 .. Len(chunks) : e = i - 1
          BY <4>3
        <5> QED
          BY <4>3, <5>1 DEF Counted, CentralCounted
      <4> QED
        BY <2>5, <4>1, <4>2, <4>3
    <3> QED
      BY <1>1, <3>1 DEF Counted, CentralCounted
  <2>7. \A e \in 1 .. Len(chunks) : /\ Len(Batches(e)) <= NUM_OF_BATCHES
                                    /\ e < chunkWithFreeBatches => Len(Batches(e)) = NUM_OF_BATCHES
                                    /\ e > chunkWithFreeBatches => Batches(e) = <<>>
    BY DEF Arrays, IsFull
  <2>8. ASSUME NEW i \in 1 .. Len(chunks')
        PROVE  /\ Len(Batches(i)') <= NUM_OF_BATCHES
               /\ i < chunkWithFreeBatches' => Len(Batches(i)') = NUM_OF_BATCHES
               /\ i > chunkWithFreeBatches' => Batches(i)' = <<>>
    <3>0. /\ i \in Nat /\ i >= 1 /\ p = chunkWithFreeBatches + 1 /\ chunkWithFreeBatches \in Nat
          /\ chunkWithFreeBatches' \in Nat
          /\ \/ chunkWithFreeBatches' = chunkWithFreeBatches
             \/ chunkWithFreeBatches = 0 /\ chunkWithFreeBatches' = 1
      BY <2>1, <2>2, <2>4 DEF p
    <3>1. CASE i < p /\ i \in 1 .. Len(chunks) /\ Batches(i)' = Batches(i)
      <4>1. chunkWithFreeBatches' = chunkWithFreeBatches
        BY <3>0, <3>1
      <4> QED
        BY <2>7, <3>1, <4>1
    <3>2. CASE i = p /\ Batches(i)' = <<>>
      <4>1. ~(i < chunkWithFreeBatches')
        BY <3>0, <3>2
      <4>2. NUM_OF_BATCHES >= 0
        BY LtAllocAssumption
      <4> QED
        BY <2>3, <3>2, <4>1, <4>2
    <3>3. CASE i > p /\ i - 1 \in 1 .. Len(chunks) /\ Batches(i)' = Batches(i - 1)
      <4>1. PICK e \in 1 .. Len(chunks) : e = i - 1
        BY <3>3
      <4>2. e > chunkWithFreeBatches /\ ~(i < chunkWithFreeBatches')
        BY <3>0, <3>3, <4>1
      <4>3. Batches(e) = <<>> /\ Batches(i)' = <<>>
        BY <2>7, <3>3, <4>1, <4>2
      <4>4. NUM_OF_BATCHES >= 0
        BY LtAllocAssumption
      <4> QED
        BY <2>3, <4>2, <4>3, <4>4
    <3> QED
      BY <2>5, <3>1, <3>2, <3>3
  <2>9. /\ chunkWithFreeBatches' \in 0 .. Len(chunks') /\ chunkWithFreeBatches' # 0
    BY <2>1, <2>2, <2>4
  <2>10. Arrays'
    BY <2>8, <2>9 DEF Arrays, IsFull
  <2> QED
    BY <1>1, <1>5, <1>6, <2>6, <2>10, OneCounted
<1> QED
  BY <1>7, <1>8

\* ltfree into the cache: the counter is one less, and no batch moves.
LEMMA FreeCounted ==
  ASSUME Types, Arrays, Counted, NEW t \in Thread, Free(t)
  PROVE  Arrays' /\ Counted'
<1>1. PICK b \in Block : freeList' = [freeList EXCEPT ![t] = <<b>> \o freeList[t]]
  BY DEF Free
<1>2. /\ pc[t] = "idle" /\ counter[t] > 0
      /\ counter' = [counter EXCEPT ![t] = counter[t] - 1]
      /\ UNCHANGED <<tempList, firstBatch, chunks, chunkWithFreeBatches, pc, detached>>
      /\ freeList \in [Thread -> Seq(Block)] /\ counter \in [Thread -> Int]
      /\ freeList[t] \in Seq(Block)
  BY DEF Free, Rest, batchVars, squeezeVars, Types, ListTypes
<1>3. /\ counter[t] \in 0 .. BATCH /\ Told(counter[t], Len(freeList[t]))
      /\ tempList[t] # <<>> => Whole(Len(tempList[t]))
  <2>1. CacheCounted(t) /\ pc[t] \notin InFetch /\ counter[t] # 0
    BY <1>2 DEF Counted, InFetch
  <2> QED
    BY <2>1 DEF CacheCounted
<1>4. /\ freeList'[t] = <<b>> \o freeList[t] /\ counter'[t] = counter[t] - 1
      /\ Len(<<b>> \o freeList[t]) = Len(freeList[t]) + 1 /\ Len(freeList[t]) \in Nat
  BY <1>1, <1>2
<1>5. CacheCounted(t)'
  <2>1. counter[t] - 1 \in 0 .. BATCH /\ Told(counter[t] - 1, Len(freeList[t]) + 1)
    BY <1>2, <1>3, <1>4, LtAllocAssumption DEF Told
  <2> QED
    BY <1>2, <1>3, <1>4, <2>1 DEF CacheCounted, InFetch
<1>6. DetachedCounted(t)'
  BY <1>2 DEF DetachedCounted, InSqueeze
<1>7. \A u \in Thread : u # t => counter'[u] = counter[u] /\ freeList'[u] = freeList[u]
  BY <1>1, <1>2
<1> QED
  BY <1>2, <1>5, <1>6, <1>7, OneCounted, CentralStays, ArraysStay

\* A whole batch joins the batches, or the array that has room for it.
LEMMA AddedCounted ==
  ASSUME Types, Arrays, Counted, NEW batch \in Seq(Block), batch # <<>> => Whole(Len(batch)),
         AddBatch(batch), CHUNK_IS_SMALL /\ batch # <<>> => RoomAt \in 1 .. Len(chunks)
  PROVE  Arrays' /\ CentralCounted'
<1>1. CASE batch = <<>>
  BY <1>1, CentralStays, ArraysStay DEF AddBatch, batchVars
<1>2. CASE batch # <<>> /\ ~CHUNK_IS_SMALL
  <2>1. firstBatch' = <<batch>> \o firstBatch /\ UNCHANGED <<chunks, chunkWithFreeBatches>>
    BY <1>2 DEF AddBatch
  <2>2. firstBatch \in Seq(Seq(Block)) /\ Len(firstBatch) \in Nat
    BY DEF Types, ListTypes
  <2>3. \A j \in 1 .. Len(firstBatch') : \/ j = 1 /\ firstBatch'[j] = batch
                                         \/ /\ j - 1 \in 1 .. Len(firstBatch)
                                            /\ firstBatch'[j] = firstBatch[j - 1]
    BY <2>1, <2>2
  <2>4. ASSUME NEW j \in 1 .. Len(firstBatch')
        PROVE  Whole(Len(firstBatch'[j]))
    <3>1. CASE firstBatch'[j] = batch
      BY <1>2, <3>1
    <3>2. CASE j - 1 \in 1 .. Len(firstBatch) /\ firstBatch'[j] = firstBatch[j - 1]
      <4>1. PICK e \in 1 .. Len(firstBatch) : e = j - 1
        BY <3>2
      <4> QED
        BY <3>2, <4>1 DEF Counted, CentralCounted
    <3> QED
      BY <2>3, <3>1, <3>2
  <2>5. CentralCounted'
    BY <2>1, <2>4 DEF Counted, CentralCounted, Batches
  <2> QED
    BY <2>1, <2>5, ArraysStay
<1>3. CASE batch # <<>> /\ CHUNK_IS_SMALL
  <2>b. PICK B \in 1 .. Len(chunks) : B = RoomAt
    BY <1>3
  <2>o. PICK old : old = Batches(B)
    OBVIOUS
  <2>1. /\ chunks' = [chunks EXCEPT ![B].batches = Append(old, batch)]
        /\ UNCHANGED firstBatch /\ chunkWithFreeBatches' = B
    BY <1>3, <2>b, <2>o DEF AddBatch, Batches
  <2>2. old \in Seq(Seq(Block))
    <3>1. chunks[B] \in ArrayEntry
      BY DEF Types, ArrayTypes
    <3> QED
      BY <2>o, <3>1 DEF Batches, ArrayEntry
  <2>3. /\ Append(old, batch) \in Seq(Seq(Block)) /\ Len(Append(old, batch)) = Len(old) + 1
        /\ Append(old, batch)[Len(old) + 1] = batch
        /\ \A j \in 1 .. Len(old) : Append(old, batch)[j] = old[j]
        /\ Len(old) \in Nat
    BY <2>2
  <2>4. /\ Len(chunks') = Len(chunks) /\ Batches(B)' = Append(old, batch)
        /\ \A i \in 1 .. Len(chunks) : i # B => Batches(i)' = Batches(i)
    BY <2>1, <2>3, ArrayChanged
  <2>5. CentralCounted'
    <3>1. ASSUME NEW i \in 1 .. Len(chunks), NEW j \in 1 .. Len(Batches(i)')
          PROVE  Whole(Len(Batches(i)'[j]))
      <4>1. CASE i = B
        <5>1. \A e \in 1 .. Len(old) : Whole(Len(old[e]))
          BY <2>o DEF Counted, CentralCounted
        <5>2. j \in 1 .. Len(old) \/ j = Len(old) + 1
          BY <2>3, <2>4, <4>1
        <5>3. CASE j \in 1 .. Len(old)
          <6>1. Batches(i)'[j] = old[j]
            BY <2>3, <2>4, <4>1, <5>3
          <6> QED
            BY <5>1, <5>3, <6>1
        <5>4. CASE j = Len(old) + 1
          <6>1. Batches(i)'[j] = batch
            BY <2>3, <2>4, <4>1, <5>4
          <6> QED
            BY <1>3, <6>1
        <5> QED
          BY <5>2, <5>3, <5>4
      <4>2. CASE i # B
        BY <2>4, <4>2 DEF Counted, CentralCounted
      <4> QED
        BY <4>1, <4>2
    <3> QED
      BY <2>1, <2>4, <3>1 DEF Counted, CentralCounted
  <2>6. Arrays'
    <3>1. /\ chunkWithFreeBatches \in 0 .. Len(chunks) /\ Len(chunks) \in Nat
          /\ chunkWithFreeBatches # 0
          /\ NUM_OF_BATCHES \in Nat /\ NUM_OF_BATCHES # 0
      BY LtAllocAssumption DEF Arrays, Types, ArrayTypes
    <3>2. ASSUME NEW i \in 1 .. Len(chunks)
          PROVE  /\ Len(Batches(i)) <= NUM_OF_BATCHES
                 /\ i < chunkWithFreeBatches => Len(Batches(i)) = NUM_OF_BATCHES
                 /\ i > chunkWithFreeBatches => Batches(i) = <<>>
      BY DEF Arrays, IsFull
    <3>3. \/ /\ B = chunkWithFreeBatches /\ Len(Batches(chunkWithFreeBatches)) # NUM_OF_BATCHES
          \/ /\ B = chunkWithFreeBatches + 1
             /\ Len(Batches(chunkWithFreeBatches)) = NUM_OF_BATCHES
      BY <2>b DEF RoomAt, IsFull
    <3>4. ASSUME NEW i \in 1 .. Len(chunks)
          PROVE  /\ Len(Batches(i)') <= NUM_OF_BATCHES
                 /\ i < B => Len(Batches(i)') = NUM_OF_BATCHES
                 /\ i > B => Batches(i)' = <<>>
      <4>1. CASE i = B
        <5>1. Len(old) + 1 <= NUM_OF_BATCHES
          <6>1. CASE B = chunkWithFreeBatches /\ Len(Batches(chunkWithFreeBatches)) # NUM_OF_BATCHES
            BY <2>3, <2>o, <3>1, <3>2, <6>1
          <6>2. CASE B = chunkWithFreeBatches + 1
            <7>1. old = <<>>
              BY <2>o, <3>1, <3>2, <6>2
            <7> QED
              BY <3>1, <7>1
          <6> QED
            BY <3>3, <6>1, <6>2
        <5>2. Len(Batches(i)') = Len(old) + 1
          BY <2>3, <2>4, <4>1
        <5>3. ~(i < B) /\ ~(i > B)
          BY <4>1
        <5> QED
          BY <5>1, <5>2, <5>3
      <4>2. CASE i # B
        <5>1. Batches(i)' = Batches(i)
          BY <2>4, <4>2
        <5>2. i < B => Len(Batches(i)) = NUM_OF_BATCHES
          BY <3>1, <3>2, <3>3
        <5>3. i > B => Batches(i) = <<>>
          BY <3>1, <3>2, <3>3
        <5> QED
          BY <3>2, <5>1, <5>2, <5>3
      <4> QED
        BY <4>1, <4>2
    <3>5. B \in 0 .. Len(chunks) /\ B # 0
      BY <3>1
    <3> QED
      BY <2>1, <2>4, <3>4, <3>5 DEF Arrays, IsFull
  <2> QED
    BY <2>5, <2>6
<1> QED
  BY <1>1, <1>2, <1>3

\* ltfree when the counter is 0: the cache is a whole batch, or it was never used.
LEMMA FreeAndMoveCounted ==
  ASSUME Types, Arrays, Counted, NEW t \in Thread, FreeAndMove(t),
         CHUNK_IS_SMALL /\ tempList[t] # <<>> => RoomAt \in 1 .. Len(chunks)
  PROVE  Arrays' /\ Counted'
<1>1. PICK b \in Block : freeList' = [freeList EXCEPT ![t] = <<b>>]
  BY DEF FreeAndMove
<1>2. /\ pc[t] = "idle" /\ counter[t] = 0 /\ AddBatch(tempList[t])
      /\ tempList' = [tempList EXCEPT ![t] = freeList[t]]
      /\ counter' = [counter EXCEPT ![t] = BATCH - 1]
      /\ UNCHANGED <<pc, detached>>
      /\ freeList \in [Thread -> Seq(Block)] /\ counter \in [Thread -> Int]
      /\ tempList \in [Thread -> Seq(Block)]
      /\ freeList[t] \in Seq(Block) /\ tempList[t] \in Seq(Block)
  BY DEF FreeAndMove, Aside, Rest, squeezeVars, Types, ListTypes
<1>3. /\ freeList[t] # <<>> => Whole(Len(freeList[t]))
      /\ tempList[t] # <<>> => Whole(Len(tempList[t]))
  <2>1. CacheCounted(t) /\ pc[t] \notin InFetch
    BY <1>2 DEF Counted, InFetch
  <2>2. freeList[t] # <<>> => Told(0, Len(freeList[t])) /\ Len(freeList[t]) \in Nat
    BY <1>2, <2>1 DEF CacheCounted
  <2> QED
    BY <2>1, <2>2, LtAllocAssumption DEF CacheCounted, Told, Whole
<1>4. /\ freeList'[t] = <<b>> /\ counter'[t] = BATCH - 1 /\ tempList'[t] = freeList[t]
      /\ Len(<<b>>) = 1
  BY <1>1, <1>2
<1>5. CacheCounted(t)'
  <2>1. BATCH - 1 \in 0 .. BATCH /\ Told(BATCH - 1, 1)
    BY LtAllocAssumption DEF Told
  <2> QED
    BY <1>2, <1>3, <1>4, <2>1 DEF CacheCounted, InFetch
<1>6. DetachedCounted(t)'
  BY <1>2 DEF DetachedCounted, InSqueeze
<1>7. \A u \in Thread : u # t => /\ counter'[u] = counter[u] /\ freeList'[u] = freeList[u]
                                 /\ tempList'[u] = tempList[u]
  BY <1>1, <1>2
<1>8. Arrays' /\ CentralCounted'
  BY <1>2, <1>3, AddedCounted
<1> QED
  BY <1>2, <1>5, <1>6, <1>7, <1>8, OneCounted

\* A thread that ends leaves its batch, which is whole, and its cache to the list.
LEMMA ExitCounted ==
  ASSUME Types, Arrays, Counted, NEW t \in Thread, Exit(t),
         CHUNK_IS_SMALL /\ tempList[t] # <<>> => RoomAt \in 1 .. Len(chunks)
  PROVE  Arrays' /\ Counted'
<1>2. /\ pc[t] = "idle" /\ AddBatch(tempList[t])
      /\ tempList' = [tempList EXCEPT ![t] = <<>>]
      /\ freeList' = [freeList EXCEPT ![t] = <<>>]
      /\ counter' = [counter EXCEPT ![t] = 0]
      /\ UNCHANGED <<pc, detached>>
      /\ freeList \in [Thread -> Seq(Block)] /\ counter \in [Thread -> Int]
      /\ tempList \in [Thread -> Seq(Block)] /\ tempList[t] \in Seq(Block)
  BY DEF Exit, Rest, squeezeVars, Types, ListTypes
<1>3. tempList[t] # <<>> => Whole(Len(tempList[t]))
  BY DEF Counted, CacheCounted
<1>4. /\ freeList'[t] = <<>> /\ counter'[t] = 0 /\ tempList'[t] = <<>>
  BY <1>2
<1>5. CacheCounted(t)'
  BY <1>2, <1>4, LtAllocAssumption DEF CacheCounted, InFetch
<1>6. DetachedCounted(t)'
  BY <1>2 DEF DetachedCounted, InSqueeze
<1>7. \A u \in Thread : u # t => /\ counter'[u] = counter[u] /\ freeList'[u] = freeList[u]
                                 /\ tempList'[u] = tempList[u]
  BY <1>2
<1>8. Arrays' /\ CentralCounted'
  BY <1>2, <1>3, AddedCounted
<1> QED
  BY <1>2, <1>5, <1>6, <1>7, <1>8, OneCounted

\* ltsqueeze detaches batches that are whole.
LEMMA SqueezeDetachCounted ==
  ASSUME Types, Arrays, Counted, NEW t \in Thread, SqueezeDetach(t)
  PROVE  Arrays' /\ Counted'
<1>1. PICK size \in PadSize : detached' = [detached EXCEPT ![t] =
         [batches |-> firstBatch, list |-> ccFreeList, size |-> freeListSize,
          min |-> minChunkAddr, max |-> BufferEnd, padsz |-> size]]
  BY DEF SqueezeDetach
<1>2. /\ pc[t] = "idle" /\ pc' = [pc EXCEPT ![t] = "squeeze"] /\ firstBatch' = <<>>
      /\ UNCHANGED <<freeList, tempList, counter, chunks, chunkWithFreeBatches>>
      /\ pc \in [Thread -> {"idle"} \cup InFetch \cup InSqueeze]
      /\ detached \in [Thread -> Detached \cup {NULL}]
  BY DEF SqueezeDetach, cacheVars, Types, ChunkTypes
<1>3. pc'[t] = "squeeze" /\ detached'[t].batches = firstBatch
  BY <1>1, <1>2
<1>4. CacheCounted(t)'
  BY <1>2, <1>3 DEF Counted, CacheCounted, InFetch
<1>5. DetachedCounted(t)'
  <2>1. Squeezer # {}
    BY DEF SqueezeDetach
  <2> QED
    BY <1>3, <2>1 DEF DetachedCounted, Counted, CentralCounted, Whole
<1>6. \A u \in Thread : u # t => pc'[u] = pc[u] /\ detached'[u] = detached[u]
  BY <1>1, <1>2
<1>7. CentralCounted'
  <2>1. Len(<<>>) = 0 /\ 1 .. 0 = {}
    OBVIOUS
  <2> QED
    BY <1>2, <2>1 DEF Counted, CentralCounted, Batches
<1> QED
  BY <1>2, <1>4, <1>5, <1>6, <1>7, OneCounted, ArraysStay

\* No batch that ltsqueeze puts back is longer than BATCH: it is one of those detached.
LEMMA SqueezeReturnCounted ==
  ASSUME Inv, Arrays, Counted, NEW t \in Thread, SqueezeReturn(t)
  PROVE  Arrays' /\ Counted'
<1>1. PICK kind, who : Account(kind, who)
  BY DEF Inv, Accounted
<1>d. PICK d : d = detached[t]
  OBVIOUS
<1>f. PICK free : free = WhollyFree(d)
  OBVIOUS
<1>0. /\ Types /\ NoRepeats /\ pc[t] = "squeeze"
      /\ UNCHANGED <<freeList, tempList, counter, chunks, chunkWithFreeBatches>>
  BY DEF Inv, SqueezeReturn, cacheVars
<1>2. /\ d \in Detached /\ Len(d.list) <= d.size
      /\ ccFreeList \in Seq(Block) /\ freeListSize \in Nat
  BY <1>0, <1>d DEF Types, ListTypes, ChunkTypes, InSqueeze
<1>s. Squeezer # {}
  BY <1>0 DEF Counted, DetachedCounted, InSqueeze
<1>3. DetachedAs(kind, who, t, d) /\ Apart(d.batches) /\ Distinct(d.list)
  BY <1>0, <1>1, <1>d DEF Account, DetachAcc, NoRepeats
<1>4. Joint(d.batches) \cap ToSet(d.list) = {}
  <2>1. /\ \A b \in Joint(d.batches) : kind[b] = "dbatch"
        /\ \A b \in ToSet(d.list) : kind[b] = "dlist"
    BY <1>2, <1>3, DetachedBlocksDistinct
  <2> QED
    BY <2>1
<1>5. PICK back, bl : Regroups(d, free, back, bl) /\ Returns(t, d, free, back, bl)
  BY <1>2, <1>3, <1>4, <1>d, <1>f, SqueezeReturns
<1>6. /\ back \in Seq(Seq(Block)) /\ \A j \in 1 .. Len(back) : back[j] \in ToSet(d.batches)
      /\ firstBatch' = back \o firstBatch
      /\ pc' = [pc EXCEPT ![t] = IF free = {} THEN "idle"
                                 ELSE IF d.padsz = 0 THEN "unmap" ELSE "pad"]
      /\ \A u \in Thread : u # t => detached'[u] = detached[u]
  BY <1>0, <1>5 DEF Regroups, Returns, Types, ChunkTypes
<1>7. /\ pc \in [Thread -> {"idle"} \cup InFetch \cup InSqueeze]
      /\ pc'[t] \in {"idle", "unmap", "pad"}
      /\ \A u \in Thread : u # t => pc'[u] = pc[u]
  BY <1>0, <1>6 DEF Types, ChunkTypes
<1>8. CacheCounted(t)'
  BY <1>0, <1>7 DEF Counted, CacheCounted, InFetch
<1>9. DetachedCounted(t)'
  BY <1>7, <1>s DEF DetachedCounted
<1>10. CentralCounted'
  <2>1. d.batches \in Seq(Seq(Block)) /\ \A e \in 1 .. Len(d.batches) : Len(d.batches[e]) <= BATCH
    BY <1>0, <1>2, <1>d DEF Detached, Counted, DetachedCounted
  <2>2. \A B \in ToSet(d.batches) : Len(B) <= BATCH
    BY <2>1, ToSetPlaces
  <2>3. firstBatch \in Seq(Seq(Block)) /\ Len(firstBatch) \in Nat
    BY <1>0 DEF Types, ListTypes
  <2> DEFINE n == Len(back)
  <2>4. /\ n \in Nat /\ Len(firstBatch') = n + Len(firstBatch)
        /\ \A j \in 1 .. n : firstBatch'[j] = back[j]
        /\ \A j \in 1 .. Len(firstBatch) : firstBatch'[n + j] = firstBatch[j]
    BY <1>6, <2>3
  <2>5. \A j \in 1 .. n : Whole(Len(back[j]))
    BY <1>6, <1>s, <2>2 DEF Whole
  <2> HIDE DEF n
  <2>6. ASSUME NEW j \in 1 .. Len(firstBatch')
        PROVE  Whole(Len(firstBatch'[j]))
    <3>1. j \in 1 .. n \/ (j - n \in 1 .. Len(firstBatch) /\ n + (j - n) = j)
      BY <2>3, <2>4
    <3>2. \A e \in 1 .. Len(firstBatch) : Whole(Len(firstBatch[e]))
      BY DEF Counted, CentralCounted
    <3> QED
      BY <2>4, <2>5, <3>1, <3>2
  <2> QED
    BY <1>0, <2>6 DEF Counted, CentralCounted, Batches
<1> QED
  BY <1>0, <1>6, <1>7, <1>8, <1>9, <1>10, OneCounted, ArraysStay

\* Chunks that are given back change no count.
LEMMA ReleaseCounted ==
  ASSUME Types, Arrays, Counted, NEW t \in Thread, PutOff(t) \/ Unmap(t)
  PROVE  Arrays' /\ Counted'
<1>1. /\ pc[t] \in {"pad", "unmap"} /\ AfterRelease(t)
  BY DEF PutOff, Unmap
<1>2. /\ pc' = [pc EXCEPT ![t] = IF releasing'[t] = {} THEN "idle" ELSE "unmap"]
      /\ detached' = [detached EXCEPT ![t] = IF releasing'[t] = {} THEN NULL ELSE detached[t]]
      /\ UNCHANGED <<freeList, tempList, counter, firstBatch, chunks, chunkWithFreeBatches>>
      /\ pc \in [Thread -> {"idle"} \cup InFetch \cup InSqueeze]
      /\ detached \in [Thread -> Detached \cup {NULL}]
  BY <1>1 DEF AfterRelease, cacheVars, batchVars, Types, ChunkTypes
<1>3. pc'[t] \in {"idle", "unmap"}
  BY <1>2
<1>4. CacheCounted(t)'
  BY <1>1, <1>2, <1>3 DEF Counted, CacheCounted, InFetch
<1>5. DetachedCounted(t)'
  <2>1. Squeezer # {}
    BY <1>1 DEF Counted, DetachedCounted, InSqueeze
  <2> QED
    BY <1>3, <2>1 DEF DetachedCounted
<1>6. \A u \in Thread : u # t => pc'[u] = pc[u] /\ detached'[u] = detached[u]
  BY <1>2
<1> QED
  BY <1>2, <1>4, <1>5, <1>6, OneCounted, CentralStays, ArraysStay

-----------------------------------------------------------------------------
\* The size of the central list, where ltsqueeze does not run, is right after every step.
LEMMA NextTold ==
  ASSUME Types, Counted, ListTold, NEW t \in Thread,
         Malloc(t) \/ Free(t) \/ FreeAndMove(t) \/ Exit(t) \/ SqueezeDetach(t) \/ Squeeze(t)
  PROVE  ListTold'
<1> SUFFICES ASSUME Squeezer = {}
             PROVE  freeListSize' = Len(ccFreeList')
  BY DEF ListTold
<1>0. /\ ccFreeList \in Seq(Block) /\ freeListSize = Len(ccFreeList) /\ Len(ccFreeList) \in Nat
      /\ freeList[t] \in Seq(Block)
  BY DEF Types, ListTypes, ListTold
<1>1. CASE UNCHANGED <<ccFreeList, freeListSize>>
  BY <1>0, <1>1
<1>2. CASE MallocList(t)
  <2>1. PICK n : n = IF freeListSize <= BATCH + 1 THEN Len(ccFreeList) ELSE BATCH
    OBVIOUS
  <2>2. /\ ccFreeList' = SubSeq(ccFreeList, n + 1, Len(ccFreeList))
        /\ freeListSize' = IF freeListSize <= BATCH + 1 THEN 0 ELSE freeListSize - BATCH
        /\ ccFreeList # <<>>
    BY <1>2, <2>1 DEF MallocList
  <2>3. n \in 1 .. Len(ccFreeList) /\ freeListSize' = Len(ccFreeList) - n
    BY <1>0, <2>1, <2>2, LtAllocAssumption
  <2> QED
    BY <1>0, <2>2, <2>3, Split
<1>3. CASE Exit(t)
  <2>1. /\ ccFreeList' = freeList[t] \o ccFreeList
        /\ freeListSize' = freeListSize + (IF freeList[t] = <<>> THEN 0 ELSE Len(freeList[t]))
    BY <1>3 DEF Exit, LeftBehind
  <2> QED
    BY <1>0, <2>1
<1>4. CASE SqueezeDetach(t) \/ SqueezeReturn(t)
  BY <1>4 DEF SqueezeDetach, SqueezeReturn, Counted, DetachedCounted, InSqueeze
<1>5. CASE MallocCached(t) \/ MallocTemp(t) \/ MallocBatch(t) \/ MallocCarve(t) \/ MallocNew(t)
           \/ FetchPad(t) \/ FetchSystem(t) \/ Install(t)
  BY <1>1, <1>5 DEF MallocCached, MallocTemp, MallocBatch, MallocCarve, MallocNew, FetchPad,
                    FetchSystem, Prepare, Install, listVars
<1>6. CASE Free(t) \/ FreeAndMove(t) \/ PutOff(t) \/ Unmap(t)
  BY <1>1, <1>6 DEF Free, FreeAndMove, PutOff, Unmap, AfterRelease, listVars
<1> QED
  BY <1>2, <1>3, <1>4, <1>5, <1>6 DEF Malloc, Squeeze

-----------------------------------------------------------------------------
\* The inductive invariant.
IInv == Inv /\ Arrays /\ Counted /\ ListTold

\* At first every chunk is the system's.
LEMMA InitIInv ==
  ASSUME Init
  PROVE  IInv
<1>1. Len(<<>>) = 0 /\ 1 .. 0 = {} /\ Cardinality({}) = 0
  BY FS_EmptySet
<1>2. \A S : <<>> \in Seq(S)
  OBVIOUS
<1>3. Types
  <2>1. ListTypes
    BY <1>1, <1>2 DEF Init, ListTypes
  <2>2. ArrayTypes
    BY <1>1, <1>2 DEF Init, ArrayTypes
  <2>3. ChunkTypes
    BY <1>1 DEF Init, ChunkTypes, InFetch, InSqueeze
  <2> QED
    BY <2>1, <2>2, <2>3 DEF Types
<1>4. NoRepeats
  <2>1. Distinct(<<>>) /\ Apart(<<>>) /\ ApartIn(<<>>)
    BY <1>1 DEF Distinct, Apart, ApartIn
  <2> QED
    BY <1>1, <2>1 DEF Init, NoRepeats, ArraysApart
<1>5. Accounted
  <2>1. PICK kind : kind = [b \in Block |-> "system"]
    OBVIOUS
  <2>2. \A b \in Block : kind[b] = "system"
    BY <2>1
  <2>3. /\ AppAcc(kind, kind) /\ FreeAcc(kind, kind) /\ TempAcc(kind, kind)
        /\ BatchAcc(kind, kind) /\ ArrayAcc(kind, kind) /\ ListAcc(kind, kind)
        /\ CarveAcc(kind, kind) /\ DetachAcc(kind, kind) /\ MemAcc(kind, kind)
    BY <1>1 DEF Init, AppAcc, FreeAcc, TempAcc, BatchAcc, ArrayAcc, ListAcc, CarveAcc,
                DetachAcc, MemAcc
  <2>4. ReleasingAcc(kind, kind) /\ PadAcc(kind, kind)
    BY DEF Init, ReleasingAcc, PadAcc
  <2>5. SystemAcc(kind, kind)
    BY <2>2 DEF SystemAcc, Block
  <2>6. ServingAcc(kind, kind)
    BY <2>2 DEF ServingAcc, Serving
  <2> QED
    BY <2>3, <2>4, <2>5, <2>6 DEF Accounted, Account
<1>6. Arrays
  BY <1>1 DEF Init, Arrays
<1>7. Counted
  <2>1. \A t \in Thread : CacheCounted(t) /\ DetachedCounted(t)
    BY LtAllocAssumption DEF Init, CacheCounted, DetachedCounted, InFetch, InSqueeze
  <2>2. CentralCounted
    BY <1>1 DEF Init, CentralCounted
  <2> QED
    BY <2>1, <2>2 DEF Counted
<1>8. ListTold
  BY <1>1 DEF Init, ListTold
<1> QED
  BY <1>3, <1>4, <1>5, <1>6, <1>7, <1>8 DEF IInv, Inv

\* Every step keeps the invariant, of a class of either kind.
LEMMA NextIInv ==
  ASSUME IInv, NEW t \in Thread,
         Malloc(t) \/ Free(t) \/ FreeAndMove(t) \/ Exit(t) \/ SqueezeDetach(t) \/ Squeeze(t)
  PROVE  IInv'
<1>0. Inv /\ Types /\ Arrays /\ Counted /\ ListTold /\ SmallInv
  BY DEF IInv, Inv, SmallInv
<1>t. ListTold'
  BY <1>0, NextTold
<1>r. CHUNK_IS_SMALL /\ tempList[t] # <<>> => RoomAt \in 1 .. Len(chunks)
  BY <1>0, RoomForBatch
<1>1. CASE MallocCached(t)
  BY <1>0, <1>1, CachedKeeps, CachedCounted, <1>t DEF IInv
<1>2. CASE MallocTemp(t)
  BY <1>0, <1>2, TempKeeps, TempCounted, <1>t DEF IInv
<1>3. CASE MallocBatch(t)
  BY <1>0, <1>3, LargeBatchKeeps, SmallBatchKeeps, LargeBatchCounted, SmallBatchCounted, <1>t DEF IInv
<1>4. CASE MallocList(t)
  BY <1>0, <1>4, ListKeeps, ListCounted, <1>t DEF IInv
<1>5. CASE MallocCarve(t)
  BY <1>0, <1>5, CarveKeeps, CarveCounted, <1>t DEF IInv
<1>6. CASE MallocNew(t)
  BY <1>0, <1>6, NewKeeps, NewCounted, <1>t DEF IInv
<1>7. CASE FetchPad(t)
  <2>1. Arrays' /\ Counted'
    BY <1>0, <1>7, PreparedCounted DEF FetchPad
  <2> QED
    BY <1>0, <1>7, <2>1, FetchPadKeeps, <1>t DEF IInv
<1>8. CASE FetchSystem(t)
  <2>1. Arrays' /\ Counted'
    BY <1>0, <1>8, PreparedCounted DEF FetchSystem
  <2> QED
    BY <1>0, <1>8, <2>1, FetchSystemKeeps, <1>t DEF IInv
<1>9. CASE Install(t)
  BY <1>0, <1>9, InstallKeeps, InstallCounted, <1>t DEF IInv
<1>10. CASE Free(t)
  BY <1>0, <1>10, FreeKeeps, FreeCounted, <1>t DEF IInv
<1>11. CASE FreeAndMove(t)
  BY <1>0, <1>11, <1>r, FreeAndMoveKeeps, FreeAndMoveCounted, <1>t DEF IInv
<1>12. CASE Exit(t)
  BY <1>0, <1>12, <1>r, ExitKeeps, ExitCounted, <1>t DEF IInv
<1>13. CASE SqueezeDetach(t)
  BY <1>0, <1>13, SqueezeDetachKeeps, SqueezeDetachCounted, <1>t DEF IInv
<1>14. CASE SqueezeReturn(t)
  BY <1>0, <1>14, SqueezeReturnKeeps, SqueezeReturnCounted, <1>t DEF IInv
<1>15. CASE PutOff(t)
  BY <1>0, <1>15, PutOffKeeps, ReleaseCounted, <1>t DEF IInv
<1>16. CASE Unmap(t)
  BY <1>0, <1>16, UnmapKeeps, ReleaseCounted, <1>t DEF IInv
<1> QED
  BY <1>1, <1>2, <1>3, <1>4, <1>5, <1>6, <1>7, <1>8, <1>9, <1>10, <1>11, <1>12, <1>13, <1>14,
     <1>15, <1>16 DEF Malloc, Squeeze

\* The invariant is about the variables only.
LEMMA StutterInv ==
  ASSUME Inv, UNCHANGED vars
  PROVE  Inv'
<1>1. UNCHANGED <<freeList, tempList, counter, firstBatch, chunks, chunkWithFreeBatches,
                  ccFreeList, freeListSize, lastChunk, minChunkAddr, maxChunkAddr, pad, padSize,
                  mapped, pc, mem, detached, releasing, users>>
  BY DEF vars, cacheVars, batchVars, listVars, addrVars, padVars, squeezeVars
<1>2. Types'
  BY <1>1 DEF Inv, Types, ListTypes, ArrayTypes, ChunkTypes, Batches
<1>3. NoRepeats'
  BY <1>1 DEF Inv, NoRepeats, ArraysApart, Batches
<1>4. Accounted'
  <2>1. PICK kind, who : Account(kind, who)
    BY DEF Inv, Accounted
  <2>2. Account(kind, who)'
    BY <1>1, <2>1 DEF Account, AppAcc, FreeAcc, TempAcc, BatchAcc, ArrayAcc, ListAcc, CarveAcc,
                      DetachAcc, MemAcc, ReleasingAcc, PadAcc, SystemAcc, ServingAcc, Batches
  <2> QED
    BY <2>2 DEF Accounted
<1> QED
  BY <1>2, <1>3, <1>4 DEF Inv

\* So are the arrays and the counts.
LEMMA StutterIInv ==
  ASSUME IInv, UNCHANGED vars
  PROVE  IInv'
<1>1. Inv'
  BY StutterInv DEF IInv
<1>2. Arrays' /\ Counted' /\ ListTold'
  <2>1. UNCHANGED <<freeList, tempList, counter, firstBatch, chunks, chunkWithFreeBatches,
                    ccFreeList, freeListSize, detached, pc, mem>>
    BY DEF vars, cacheVars, batchVars, listVars, squeezeVars
  <2> QED
    BY <2>1 DEF IInv, Arrays, IsFull, Batches, Counted, CacheCounted, DetachedCounted,
                   CentralCounted, ListTold
<1> QED
  BY <1>1, <1>2 DEF IInv

\* The invariant holds in every state.
THEOREM IInvTheorem == Spec => []IInv
<1>1. Init => IInv
  BY InitIInv
<1>2. IInv /\ [Next]_vars => IInv'
  BY NextIInv, StutterIInv DEF Next
<1> QED
  BY <1>1, <1>2, PTL DEF Spec

\* Without the counts, which do not hold where the system refuses memory.
THEOREM InvTheorem == Spec => []Inv
BY IInvTheorem, PTL DEF IInv

-----------------------------------------------------------------------------
\* The chunks in the list of chunks are never given back.
ListedMapped == \A i \in 1 .. Len(chunks) : chunks[i].chunk \in mapped

\* A batch leaves the list of chunks as it is.
LEMMA AddedMapped ==
  ASSUME Types, ListedMapped, NEW batch \in Seq(Block), AddBatch(batch), mapped' = mapped,
         CHUNK_IS_SMALL /\ batch # <<>> => RoomAt \in 1 .. Len(chunks)
  PROVE  ListedMapped'
<1>1. CASE batch = <<>> \/ ~CHUNK_IS_SMALL
  BY <1>1 DEF AddBatch, batchVars, ListedMapped
<1>2. CASE batch # <<>> /\ CHUNK_IS_SMALL
  <2>1. PICK B \in 1 .. Len(chunks) : B = RoomAt
    BY <1>2
  <2>2. chunks' = [chunks EXCEPT ![B].batches = Append(Batches(B), batch)]
    BY <1>2, <2>1 DEF AddBatch, Batches
  <2>3. Append(Batches(B), batch) \in Seq(Seq(Block))
    <3>1. chunks[B] \in ArrayEntry
      BY DEF Types, ArrayTypes
    <3>2. Batches(B) \in Seq(Seq(Block))
      BY <3>1 DEF Batches, ArrayEntry
    <3> QED
      BY <3>2
  <2>4. /\ Len(chunks') = Len(chunks)
        /\ \A i \in 1 .. Len(chunks) : chunks'[i].chunk = chunks[i].chunk
    BY <2>2, <2>3, ArrayChanged
  <2> QED
    BY <2>4 DEF ListedMapped
<1> QED
  BY <1>1, <1>2

\* A chunk is installed that the system has given; none of a small class is unmapped.
LEMMA NextMapped ==
  ASSUME IInv, ListedMapped, NEW t \in Thread,
         Malloc(t) \/ Free(t) \/ FreeAndMove(t) \/ Exit(t) \/ SqueezeDetach(t) \/ Squeeze(t)
  PROVE  ListedMapped'
<1>0. Types /\ Arrays /\ tempList[t] \in Seq(Block) /\ freeList[t] \in Seq(Block)
  BY DEF IInv, Inv, Types, ListTypes
<1>r. CHUNK_IS_SMALL /\ tempList[t] # <<>> => RoomAt \in 1 .. Len(chunks)
  BY RoomForBatch DEF IInv
<1>1. CASE /\ UNCHANGED chunks
           /\ mapped' = mapped \/ \E c \in Chunk : mapped' = mapped \cup {c}
  BY <1>1 DEF ListedMapped
<1>2. CASE MallocBatch(t)
  <2>1. CASE ~CHUNK_IS_SMALL
    BY <1>1, <1>2, <2>1 DEF MallocBatch, TakeBatch
  <2>2. CASE CHUNK_IS_SMALL
    <3>1. PICK B : B = BatchAt
      OBVIOUS
    <3>2. /\ chunks' = [chunks EXCEPT ![B].batches = Front(Batches(B))] /\ mapped' = mapped
          /\ ~NoBatch
      BY <1>2, <2>2, <3>1 DEF MallocBatch, TakeBatch, Batches
    <3>3. B \in 1 .. Len(chunks) /\ Batches(B) # <<>>
      BY <1>0, <2>2, <3>1, <3>2, BatchInArray
    <3>4. Front(Batches(B)) \in Seq(Seq(Block))
      <4>1. chunks[B] \in ArrayEntry
        BY <1>0, <3>3 DEF Types, ArrayTypes
      <4>2. Batches(B) \in Seq(Seq(Block))
        BY <4>1 DEF Batches, ArrayEntry
      <4>3. Len(Batches(B)) \in 1 .. Len(Batches(B))
        BY <3>3, <4>2
      <4> QED
        BY <4>2, <4>3, AllButLast DEF Front
    <3>5. /\ Len(chunks') = Len(chunks)
          /\ \A i \in 1 .. Len(chunks) : chunks'[i].chunk = chunks[i].chunk
      BY <1>0, <3>2, <3>3, <3>4, ArrayChanged
    <3> QED
      BY <3>2, <3>5 DEF ListedMapped
  <2> QED
    BY <2>1, <2>2
<1>3. CASE Install(t)
  <2>1. CASE ~CHUNK_IS_SMALL
    BY <1>1, <1>3, <2>1 DEF Install
  <2>2. CASE CHUNK_IS_SMALL
    <3> DEFINE p == chunkWithFreeBatches + 1
               new == [chunk |-> mem[t], batches |-> <<>>]
    <3>1. chunks' = InsertAt(chunks, p, new) /\ mapped' = mapped /\ mem[t] \in mapped
      BY <1>0, <1>3, <2>2 DEF Install, PlaceOfNew, Types, ChunkTypes
    <3>2. /\ chunks \in Seq(ArrayEntry) /\ Len(chunks) \in Nat /\ p \in 1 .. Len(chunks) + 1
      BY <1>0 DEF Types, ArrayTypes, Arrays
    <3>3. new \in ArrayEntry /\ new.chunk = mem[t]
      <4>1. <<>> \in Seq(Seq(Block))
        OBVIOUS
      <4> QED
        BY <1>0, <3>1, <4>1 DEF ArrayEntry, Types, ChunkTypes
    <3> HIDE DEF new, p
    <3>4. /\ Len(chunks') = Len(chunks) + 1 /\ chunks'[p] = new
          /\ \A i \in 1 .. p - 1 : chunks'[i] = chunks[i]
          /\ \A i \in p + 1 .. Len(chunks) + 1 : chunks'[i] = chunks[i - 1]
      <4>1. /\ Len(InsertAt(chunks, p, new)) = Len(chunks) + 1
            /\ InsertAt(chunks, p, new)[p] = new
            /\ \A i \in 1 .. p - 1 : InsertAt(chunks, p, new)[i] = chunks[i]
            /\ \A i \in p + 1 .. Len(chunks) + 1 : InsertAt(chunks, p, new)[i] = chunks[i - 1]
        BY <3>2, <3>3, Inserted
      <4> QED
        BY <3>1, <4>1
    <3>5. ASSUME NEW i \in 1 .. Len(chunks')
          PROVE  chunks'[i].chunk \in mapped
      <4>0. i \in Nat /\ p \in Nat /\ i <= Len(chunks) + 1 /\ p >= 1 /\ p <= Len(chunks) + 1
               /\ i >= 1
        BY <3>2, <3>4
      <4>1. CASE i < p
        <5>1. i \in 1 .. p - 1 /\ i \in 1 .. Len(chunks)
          BY <3>2, <4>0, <4>1
        <5> QED
          BY <3>4, <5>1 DEF ListedMapped
      <4>2. CASE i = p
        BY <3>1, <3>3, <3>4, <4>2
      <4>3. CASE i > p
        <5>1. i \in p + 1 .. Len(chunks) + 1 /\ i - 1 \in 1 .. Len(chunks)
          BY <3>2, <4>0, <4>3
        <5> QED
          BY <3>4, <5>1 DEF ListedMapped
      <4> QED
        BY <4>0, <4>1, <4>2, <4>3
    <3> QED
      BY <3>1, <3>5 DEF ListedMapped
  <2> QED
    BY <2>1, <2>2
<1>4. CASE FreeAndMove(t)
  BY <1>0, <1>4, <1>r, AddedMapped DEF FreeAndMove, Aside, Rest
<1>5. CASE Exit(t)
  BY <1>0, <1>5, <1>r, AddedMapped DEF Exit, Rest
<1>6. CASE Unmap(t)
  <2>1. chunks = <<>> /\ UNCHANGED chunks
    BY <1>0, <1>6 DEF Unmap, AfterRelease, batchVars, Types, ArrayTypes, ChunkTypes, InSqueeze
  <2>2. Len(<<>>) = 0 /\ 1 .. 0 = {}
    OBVIOUS
  <2> QED
    BY <2>1, <2>2 DEF ListedMapped
<1>7. CASE MallocCached(t) \/ MallocTemp(t) \/ MallocList(t) \/ MallocCarve(t) \/ MallocNew(t)
  BY <1>1, <1>7 DEF MallocCached, MallocTemp, MallocList, MallocCarve, MallocNew, batchVars
<1>8. CASE FetchPad(t) \/ FetchSystem(t)
  BY <1>1, <1>8 DEF FetchPad, FetchSystem, Prepare, batchVars
<1>9. CASE Free(t)
  BY <1>1, <1>9 DEF Free, Rest, batchVars
<1>10. CASE SqueezeDetach(t) \/ SqueezeReturn(t)
  BY <1>1, <1>10 DEF SqueezeDetach, SqueezeReturn
<1>11. CASE PutOff(t)
  BY <1>1, <1>11 DEF PutOff, AfterRelease, batchVars
<1> QED
  BY <1>2, <1>3, <1>4, <1>5, <1>6, <1>7, <1>8, <1>9, <1>10, <1>11 DEF Malloc, Squeeze

\* At first no chunk is listed.
LEMMA InitMapped ==
  ASSUME Init
  PROVE  ListedMapped
<1>1. Len(<<>>) = 0 /\ 1 .. 0 = {}
  OBVIOUS
<1> QED
  BY <1>1 DEF Init, ListedMapped

\* Nor does one leave the list while nothing happens.
LEMMA StutterMapped ==
  ASSUME ListedMapped, UNCHANGED vars
  PROVE  ListedMapped'
BY DEF vars, batchVars, ListedMapped

\* In every state; the type invariant needs it.
THEOREM ListedMappedTheorem == Spec => []ListedMapped
<1>1. Init => ListedMapped
  BY InitMapped
<1>2. IInv /\ ListedMapped /\ [Next]_vars => ListedMapped'
  BY StutterMapped, NextMapped DEF Next
<1> QED
  BY <1>1, <1>2, IInvTheorem, PTL DEF Spec

\* What the invariant says about types.
LEMMA IInvTypes ==
  ASSUME IInv, ListedMapped
  PROVE  TypeOK
<1>0. ListTypes /\ ArrayTypes /\ ChunkTypes /\ Arrays /\ Counted
  BY DEF IInv, Inv, Types
<1>1. ASSUME NEW t \in Thread
      PROVE  /\ freeList[t] \in Seq(Block) /\ tempList[t] \in Seq(Block)
             /\ counter[t] \in 0 .. BATCH
             /\ pc[t] \in {"idle", "chunk", "install", "squeeze", "pad", "unmap"}
             /\ mem[t] \in mapped \cup {NULL} /\ releasing[t] \subseteq mapped
  BY <1>0 DEF ListTypes, ChunkTypes, Counted, CacheCounted, InFetch, InSqueeze
<1>2. firstBatch \in Seq(Seq(Block)) /\ ccFreeList \in Seq(Block) /\ freeListSize \in Nat
  BY <1>0 DEF ListTypes
<1>3. ASSUME NEW i \in 1 .. Len(lastChunk)
      PROVE  lastChunk[i].chunk \in mapped /\ lastChunk[i].left \in 1 .. NumBlocks
  <2>1. PICK kind, who : Account(kind, who)
    BY DEF IInv, Inv, Accounted
  <2>2. lastChunk[i].chunk \in Chunk /\ lastChunk[i].left \in 1 .. NumBlocks
    <3>1. lastChunk[i] \in UncarvedEntry
      BY <1>0 DEF ListTypes
    <3> QED
      BY <3>1 DEF UncarvedEntry
  <2>3. /\ NumBlocks \in NumBlocks - lastChunk[i].left + 1 .. NumBlocks
        /\ NumBlocks \in 1 .. NumBlocks
    BY <2>2, LtAllocAssumption
  <2>4. kind[<<lastChunk[i].chunk, NumBlocks>>] = "carve"
    BY <2>1, <2>3 DEF Account, CarveAcc
  <2> QED
    BY <2>1, <2>2, <2>3, <2>4 DEF Account, SystemAcc
<1>4. padSize \in Nat /\ mapped \subseteq Chunk /\ pad \subseteq mapped
  <2>1. mapped \subseteq Chunk /\ pad \subseteq mapped /\ padSize = Cardinality(pad)
    BY <1>0 DEF ChunkTypes
  <2>2. IsFiniteSet(pad)
    BY <2>1, LtAllocAssumption, FS_Subset
  <2> QED
    BY <2>1, <2>2, FS_CardinalityType
<1>5. users \in [Block -> Nat]
  <2>1. users \in [Block -> {0, 1}] /\ {0, 1} \subseteq Nat
    BY <1>0 DEF ListTypes
  <2> QED
    BY <2>1
<1>6. \A i \in 1 .. Len(chunks) : chunks[i].chunk \in mapped /\ Len(Batches(i)) <= NUM_OF_BATCHES
  BY <1>0 DEF ListedMapped, Arrays
<1>7. chunkWithFreeBatches \in 0 .. Len(chunks)
  BY <1>0 DEF Arrays
<1> QED
  BY <1>1, <1>2, <1>3, <1>4, <1>5, <1>6, <1>7 DEF TypeOK

\* Every variable has its type, in every state.
THEOREM TypeOKTheorem == Spec => []TypeOK
BY IInvTheorem, ListedMappedTheorem, IInvTypes, PTL

-----------------------------------------------------------------------------
\* The order of the arrays is a part of the invariant.
LEMMA IInvOrdered ==
  ASSUME IInv
  PROVE  ArraysInOrder
BY DEF IInv, Arrays, ArraysInOrder

\* The arrays fill up from the first chunk on: a place for every batch is found by
\* moving to a neighbour, as the assertions in add_batch_to_central_cache demand.
THEOREM ArraysInOrderTheorem == Spec => []ArraysInOrder
BY IInvTheorem, IInvOrdered, PTL

\* What a thread has detached, by what it is doing.
LEMMA DetachedIs ==
  ASSUME Inv, NEW kind, NEW who, Account(kind, who), NEW t \in Thread, detached[t] # NULL
  PROVE  LET s == DetachedBlocks(detached[t]) IN
         /\ s \in Seq(Block) /\ Distinct(s)
         /\ \A b \in ToSet(s) :
               /\ kind[b] \in {"dbatch", "dlist"} /\ who[b] = t
               /\ b[1] \in detached[t].min .. detached[t].max
<1> DEFINE d == detached[t]
<1>1. pc[t] \in InSqueeze /\ d \in Detached
  BY DEF Inv, Types, ChunkTypes
<1>2. CASE pc[t] = "squeeze"
  <2>1. Apart(d.batches) /\ Distinct(d.list) /\ DetachedAs(kind, who, t, d)
    BY <1>2 DEF Inv, NoRepeats, Account, DetachAcc
  <2> HIDE DEF d
  <2>2. /\ DetachedBlocks(d) \in Seq(Block) /\ Distinct(DetachedBlocks(d))
        /\ ToSet(DetachedBlocks(d)) = Joint(d.batches) \cup ToSet(d.list)
        /\ \A b \in Joint(d.batches) : b \in Block /\ kind[b] = "dbatch" /\ who[b] = t
        /\ \A b \in ToSet(d.list) : b \in Block /\ kind[b] = "dlist" /\ who[b] = t
    BY <1>1, <2>1, DetachedBlocksDistinct
  <2>3. d.batches \in Seq(Seq(Block)) /\ d.list \in Seq(Block)
    BY <1>1 DEF Detached
  <2>4. \A b \in Joint(d.batches) : b[1] \in d.min .. d.max
    <3> TAKE b \in Joint(d.batches)
    <3>1. PICK j \in 1 .. Len(d.batches) : \E k \in 1 .. Len(d.batches[j]) : b = d.batches[j][k]
      BY <2>3, JointPlaces
    <3> QED
      BY <2>1, <3>1 DEF DetachedAs
  <2>5. \A b \in ToSet(d.list) : b[1] \in d.min .. d.max
    BY <2>1, <2>3, ToSetPlaces DEF DetachedAs
  <2> QED
    BY <2>2, <2>4, <2>5 DEF d
<1>3. CASE pc[t] # "squeeze"
  <2>1. d.batches = <<>> /\ d.list = <<>>
    BY <1>1, <1>3 DEF Inv, Types, ChunkTypes
  <2>2. FlattenSeq(<<>>) = <<>> /\ <<>> \o <<>> = <<>>
    BY DEF FlattenSeq
  <2>3. DetachedBlocks(d) = <<>>
    BY <2>1, <2>2 DEF DetachedBlocks
  <2>4. <<>> \in Seq(Block) /\ Len(<<>>) = 0 /\ 1 .. 0 = {}
    OBVIOUS
  <2>5. ToSet(<<>>) = {}
    BY <2>4, ToSetPlaces
  <2>6. Distinct(<<>>)
    BY <2>4 DEF Distinct
  <2> QED
    BY <2>3, <2>4, <2>5, <2>6
<1> QED
  BY <1>2, <1>3

\* What ltsqueeze counts, it has room for.
LEMMA InvBuffer ==
  ASSUME Inv
  PROVE  BufferFits
<1>1. PICK kind, who : Account(kind, who)
  BY DEF Inv, Accounted
<1> QED
  BY <1>1, DetachedIs DEF BufferFits

\* Every block that ltsqueeze counts has its chunk between the addresses that the
\* buffer of counts was made for, though chunks may have been added since.
THEOREM BufferFitsTheorem == Spec => []BufferFits
BY InvTheorem, InvBuffer, PTL

-----------------------------------------------------------------------------
\* The batches of the arrays, and with those of the large classes the central cache's.
ArrayBatches == [i \in 1 .. Len(chunks) |-> Batches(i)]

\* The batches of the central cache are those of the list and those of the arrays.
LEMMA CentralElements ==
  ASSUME Types
  PROVE  /\ ArrayBatches \in Seq(Seq(Seq(Block))) /\ Len(ArrayBatches) = Len(chunks)
         /\ \A i \in 1 .. Len(chunks) : ArrayBatches[i] = Batches(i)
         /\ CentralBatches = firstBatch \o FlattenSeq(ArrayBatches)
         /\ CentralBatches \in Seq(Seq(Block))
         /\ \A B \in ToSet(CentralBatches) :
               \/ \E j \in 1 .. Len(firstBatch) : B = firstBatch[j]
               \/ \E i \in 1 .. Len(chunks) : \E j \in 1 .. Len(Batches(i)) : B = Batches(i)[j]
<1>1. chunks \in Seq(ArrayEntry) /\ firstBatch \in Seq(Seq(Block))
  BY DEF Types, ListTypes, ArrayTypes
<1>2. \A i \in 1 .. Len(chunks) : Batches(i) \in Seq(Seq(Block))
  <2>1. \A i \in 1 .. Len(chunks) : chunks[i] \in ArrayEntry
    BY <1>1
  <2> QED
    BY <2>1 DEF Batches, ArrayEntry
<1>3. Len(chunks) \in Nat
  BY <1>1
<1>4. PICK ss : ss = ArrayBatches
  OBVIOUS
<1>5. /\ ss \in Seq(Seq(Seq(Block))) /\ Len(ss) = Len(chunks)
      /\ \A i \in 1 .. Len(chunks) : ss[i] = Batches(i)
  BY <1>2, <1>3, <1>4 DEF ArrayBatches
<1>6. PICK f : f = FlattenSeq(ss)
  OBVIOUS
<1>7. /\ f \in Seq(Seq(Block))
      /\ \A B \in ToSet(f) : \E i \in 1 .. Len(ss) : \E j \in 1 .. Len(ss[i]) : B = ss[i][j]
  BY <1>5, <1>6, JointFlatten, ZenonT(30)
<1>8. CentralBatches = firstBatch \o f
  BY <1>4, <1>6 DEF CentralBatches, ArrayBatches
<1>9. CentralBatches \in Seq(Seq(Block))
  BY <1>1, <1>7, <1>8
<1>10. ToSet(CentralBatches) = ToSet(firstBatch) \cup ToSet(f)
  <2>1. PICK T : T = Seq(Block)
    OBVIOUS
  <2> QED
    BY <1>1, <1>7, <1>8, <2>1, ConcatElements
<1>11. \A B \in ToSet(firstBatch) : \E j \in 1 .. Len(firstBatch) : B = firstBatch[j]
  BY <1>1, ToSetPlaces
<1>12. \A B \in ToSet(f) :
          \E i \in 1 .. Len(chunks) : \E j \in 1 .. Len(Batches(i)) : B = Batches(i)[j]
  <2> TAKE B \in ToSet(f)
  <2>1. PICK i \in 1 .. Len(ss) : \E j \in 1 .. Len(ss[i]) : B = ss[i][j]
    BY <1>7, Zenon
  <2>2. i \in 1 .. Len(chunks) /\ ss[i] = Batches(i)
    BY <1>5
  <2> QED
    BY <2>1, <2>2
<1> QED
  BY <1>4, <1>5, <1>6, <1>8, <1>9, <1>10, <1>11, <1>12

\* The lengths of the batches of the central cache, wherever they are.
LEMMA CentralLengths ==
  ASSUME Types, CentralCounted, NEW i \in 1 .. Len(CentralBatches)
  PROVE  Whole(Len(CentralBatches[i]))
<1>1. CentralBatches[i] \in ToSet(CentralBatches)
  <2>1. CentralBatches \in Seq(Seq(Block))
    BY CentralElements
  <2>2. PICK T : T = Seq(Block)
    OBVIOUS
  <2> QED
    BY <2>1, <2>2, ToSetPlaces
<1>2. \/ \E j \in 1 .. Len(firstBatch) : CentralBatches[i] = firstBatch[j]
      \/ \E k \in 1 .. Len(chunks) : \E j \in 1 .. Len(Batches(k)) :
            CentralBatches[i] = Batches(k)[j]
  BY <1>1, CentralElements
<1> QED
  BY <1>2 DEF CentralCounted

\* The bounds are in the invariant: a cache that was never used has the counter 0.
LEMMA IInvCover ==
  ASSUME IInv
  PROVE  CountersCover
<1>0. Types /\ Counted /\ CentralCounted
  BY DEF IInv, Inv, Counted
<1>1. Len(ccFreeList) <= freeListSize /\ padSize = Cardinality(pad)
  BY <1>0 DEF Types, ListTypes, ChunkTypes
<1>2. ASSUME NEW t \in Thread
      PROVE  /\ pc[t] = "idle" => counter[t] + Len(freeList[t]) <= BATCH
             /\ Len(tempList[t]) <= BATCH
  <2>1. CacheCounted(t) /\ Len(<<>>) = 0
    BY <1>0 DEF Counted
  <2>2. pc[t] = "idle" => counter[t] + Len(freeList[t]) <= BATCH
    BY <2>1, LtAllocAssumption DEF CacheCounted, InFetch, Told
  <2>3. Len(tempList[t]) <= BATCH
    <3>1. CASE tempList[t] = <<>>
      BY <2>1, <3>1, LtAllocAssumption
    <3>2. CASE tempList[t] # <<>>
      BY <2>1, <3>2 DEF CacheCounted, Whole
    <3> QED
      BY <3>1, <3>2
  <2> QED
    BY <2>2, <2>3
<1>3. \A i \in 1 .. Len(CentralBatches) : Len(CentralBatches[i]) <= BATCH
  BY <1>0, CentralLengths DEF Whole
<1> QED
  BY <1>1, <1>2, <1>3 DEF CountersCover

\* No cache and no batch outgrows its counter, and the size of the central list, by which
\* ltmalloc decides how to cut it and what the counter starts with, is never short of the
\* list; also where ltsqueeze takes the lists away and drops some.
THEOREM CountersCoverTheorem == Spec => []CountersCover
BY IInvTheorem, IInvCover, PTL

\* Where ltsqueeze does not run they are exact.
LEMMA IInvCounters ==
  ASSUME IInv, Squeezer = {}
  PROVE  CountersExact
<1>0. Types /\ Counted /\ CentralCounted /\ ListTold
  BY DEF IInv, Inv, Counted
<1>1. freeListSize = Len(ccFreeList)
  BY <1>0 DEF ListTold
<1>2. ASSUME NEW t \in Thread
      PROVE  /\ pc[t] = "idle" =>
                   \/ counter[t] = BATCH - Len(freeList[t])
                   \/ counter[t] = 0 /\ freeList[t] = <<>> /\ tempList[t] = <<>>
             /\ tempList[t] # <<>> => Len(tempList[t]) = BATCH
  <2>1. CacheCounted(t) /\ freeList[t] \in Seq(Block) /\ counter[t] \in Int /\ BATCH \in Nat
    BY <1>0, LtAllocAssumption DEF Counted, Types, ListTypes
  <2>2. Told(counter[t], Len(freeList[t])) => counter[t] = BATCH - Len(freeList[t])
    BY <2>1 DEF Told
  <2> QED
    BY <2>1, <2>2 DEF CacheCounted, InFetch, Whole
<1>3. \A i \in 1 .. Len(CentralBatches) : Len(CentralBatches[i]) = BATCH
  BY <1>0, CentralLengths DEF Whole
<1> QED
  BY <1>1, <1>2, <1>3 DEF CountersExact

\* Where ltsqueeze does not run, the counters tell what is in the lists, whatever way a
\* list has come.
THEOREM CountersExactTheorem ==
  ASSUME Squeezer = {}
  PROVE  Spec => []CountersExact
<1>1. IInv => CountersExact
  BY IInvCounters
<1> QED
  BY <1>1, IInvTheorem, PTL

-----------------------------------------------------------------------------
\* The pad grows up to what the caller of ltsqueeze asked for.
LEMMA NextPadBounded ==
  ASSUME Inv, PadBounded, NEW t \in Thread,
         Malloc(t) \/ Free(t) \/ FreeAndMove(t) \/ Exit(t) \/ SqueezeDetach(t) \/ Squeeze(t)
  PROVE  PadBounded'
<1>0. /\ PadSize \in SUBSET Nat /\ IsFiniteSet(PadSize) /\ PadSize # {}
  BY LtAllocAssumption
<1>1. Max(PadSize) \in Nat /\ \A n \in PadSize : n <= Max(PadSize)
  BY <1>0, MaxOfFinite
<1>2. padSize \in Nat
  <2>1. pad \subseteq Chunk /\ padSize = Cardinality(pad)
    BY DEF Inv, Types, ChunkTypes
  <2>2. IsFiniteSet(pad)
    BY <2>1, LtAllocAssumption, FS_Subset
  <2> QED
    BY <2>1, <2>2, FS_CardinalityType
<1>3. CASE UNCHANGED padSize
  BY <1>3 DEF PadBounded
<1>4. CASE FetchPad(t)
  BY <1>1, <1>2, <1>4 DEF FetchPad, PadBounded
<1>5. CASE PutOff(t)
  <2>1. detached[t] \in Detached /\ releasing[t] \subseteq Chunk
    BY <1>5 DEF PutOff, Inv, Types, ChunkTypes, InSqueeze
  <2>2. detached[t].padsz \in PadSize /\ detached[t].padsz \in Nat
    BY <1>0, <2>1 DEF Detached
  <2>3. PICK put \in SUBSET releasing[t] :
           /\ Cardinality(put) = IF Missing(t) <= 0 THEN 0
                                 ELSE Min2(Missing(t), Cardinality(releasing[t]))
           /\ padSize' = padSize + Cardinality(put)
    BY <1>5 DEF PutOff
  <2>4. Cardinality(releasing[t]) \in Nat
    BY <2>1, LtAllocAssumption, FS_Subset, FS_CardinalityType
  <2>5. padSize' <= padSize \/ padSize' <= detached[t].padsz
    BY <1>2, <2>2, <2>3, <2>4 DEF Missing, Min2
  <2>6. padSize' \in Nat
    BY <1>2, <2>2, <2>3, <2>4 DEF Missing, Min2
  <2>7. detached[t].padsz <= Max(PadSize)
    BY <1>1, <2>2
  <2> QED
    BY <1>1, <1>2, <2>2, <2>5, <2>6, <2>7 DEF PadBounded
<1>6. CASE MallocCached(t) \/ MallocTemp(t) \/ MallocBatch(t) \/ MallocList(t) \/ MallocCarve(t)
           \/ MallocNew(t) \/ FetchSystem(t) \/ Install(t)
  BY <1>3, <1>6 DEF MallocCached, MallocTemp, MallocBatch, MallocList, MallocCarve, MallocNew,
                    FetchSystem, Install, padVars
<1>7. CASE Free(t) \/ FreeAndMove(t) \/ Exit(t)
  BY <1>3, <1>7 DEF Free, FreeAndMove, Exit, Rest, padVars
<1>8. CASE SqueezeDetach(t) \/ SqueezeReturn(t) \/ Unmap(t)
  BY <1>3, <1>8 DEF SqueezeDetach, SqueezeReturn, Unmap, padVars
<1> QED
  BY <1>4, <1>5, <1>6, <1>7, <1>8 DEF Malloc, Squeeze

\* The pad never holds more chunks than some caller of ltsqueeze asked for, though
\* several threads may fill it at a time.
THEOREM PadBoundedTheorem == Spec => []PadBounded
<1>1. Init => PadBounded
  <2>1. PadSize \in SUBSET Nat /\ Max(PadSize) \in PadSize
    BY LtAllocAssumption, MaxOfFinite
  <2>2. Max(PadSize) \in Nat
    BY <2>1
  <2> QED
    BY <2>2 DEF Init, PadBounded
<1>2. Inv /\ PadBounded /\ [Next]_vars => PadBounded'
  <2>1. ASSUME PadBounded, UNCHANGED vars
        PROVE  PadBounded'
    BY <2>1 DEF vars, padVars, PadBounded
  <2> QED
    BY <2>1, NextPadBounded DEF Next
<1> QED
  BY <1>1, <1>2, InvTheorem, PTL DEF Spec

-----------------------------------------------------------------------------
\* The contract: since users stays 0 or 1, a block that is handed out had no user.
LEMMA ReceiveKeepsContract ==
  ASSUME Inv, Inv', NEW t, NEW list, Receive(t, list)
  PROVE  UNCHANGED users \/ \E b \in Block : Contract!Malloc(b)
<1>1. PICK h : h = Head(list)
  OBVIOUS
<1>2. users \in [Block -> {0, 1}] /\ users' \in [Block -> {0, 1}]
  BY DEF Inv, Types, ListTypes
<1>3. users' = [users EXCEPT ![h] = users[h] + 1]
  BY <1>1 DEF Receive
<1>4. CASE h \in Block
  <2>1. users'[h] = users[h] + 1 /\ users[h] \in {0, 1} /\ users'[h] \in {0, 1}
    BY <1>2, <1>3, <1>4
  <2>2. users[h] = 0 /\ users[h] + 1 = 1
    BY <2>1
  <2>3. users' = [users EXCEPT ![h] = 1]
    BY <1>3, <2>2
  <2> QED
    BY <1>4, <2>2, <2>3 DEF Contract!Malloc
<1>5. CASE h \notin Block
  <2>1. [users EXCEPT ![h] = users[h] + 1] = users
    BY <1>2, <1>5
  <2> QED
    BY <1>3, <2>1
<1> QED
  BY <1>4, <1>5

\* What a step does to users: a block handed out, one given back, or nothing.
LEMMA NextKeepsContract ==
  ASSUME Inv, Inv', NEW t \in Thread,
         Malloc(t) \/ Free(t) \/ FreeAndMove(t) \/ Exit(t) \/ SqueezeDetach(t) \/ Squeeze(t)
  PROVE  [Contract!HNext]_users
<1>1. ASSUME \E b \in Block : Contract!Malloc(b) \/ Contract!Free(b)
      PROVE  Contract!HNext
  BY <1>1 DEF Contract!HNext
<1>2. ASSUME NEW list, Receive(t, list)
      PROVE  [Contract!HNext]_users
  BY <1>1, <1>2, ReceiveKeepsContract
<1>3. ASSUME NEW b \in Block, GiveBack(b)
      PROVE  [Contract!HNext]_users
  <2>1. Contract!Free(b)
    BY <1>3 DEF GiveBack, Contract!Free
  <2> QED
    BY <1>1, <2>1
<1>4. CASE MallocCached(t) \/ MallocTemp(t) \/ MallocList(t) \/ MallocCarve(t) \/ Install(t)
  BY <1>2, <1>4 DEF MallocCached, MallocTemp, MallocList, MallocCarve, Install
<1>5. CASE MallocBatch(t)
  BY <1>2, <1>5 DEF MallocBatch, TakeBatch
<1>6. CASE Free(t) \/ FreeAndMove(t)
  BY <1>3, <1>6 DEF Free, FreeAndMove
<1>7. CASE MallocNew(t) \/ FetchPad(t) \/ FetchSystem(t) \/ Exit(t)
  BY <1>7 DEF MallocNew, FetchPad, FetchSystem, Prepare, Exit
<1>8. CASE SqueezeDetach(t) \/ Squeeze(t)
  BY <1>8 DEF SqueezeDetach, Squeeze, SqueezeReturn, PutOff, Unmap, AfterRelease
<1> QED
  BY <1>4, <1>5, <1>6, <1>7, <1>8 DEF Malloc

\* Whatever moves between the caches, ltmalloc hands out a block that nobody uses.
THEOREM KeepsContractTheorem == Spec => KeepsContract
<1>1. Init => Contract!HInit
  BY DEF Init, Contract!HInit
<1>2. Inv /\ Inv' /\ [Next]_vars => [Contract!HNext]_users
  <2>1. UNCHANGED vars => UNCHANGED users
    BY DEF vars
  <2> QED
    BY <2>1, NextKeepsContract DEF Next
<1> QED
  BY <1>1, <1>2, InvTheorem, PTL DEF Spec, KeepsContract, Contract!HSpec

-----------------------------------------------------------------------------
\* Lists without a repetition or a common block, and what accounts them: the blocks of
\* two parts whose accounts differ are different.
OfKinds(ss, kind, K) ==
    ss \in Seq(Seq(Block)) /\ Apart(ss) /\ \A b \in Joint(ss) : kind[b] \in K

\* Two parts, one after the other.
LEMMA KindsApart ==
  ASSUME NEW kind, NEW K, NEW L, NEW ss, NEW tt, OfKinds(ss, kind, K), OfKinds(tt, kind, L),
         K \cap L = {}, NEW M, M = K \cup L, NEW uu, uu = ss \o tt
  PROVE  OfKinds(uu, kind, M)
<1>1. /\ ss \in Seq(Seq(Block)) /\ Apart(ss) /\ \A b \in Joint(ss) : kind[b] \in K
      /\ tt \in Seq(Seq(Block)) /\ Apart(tt) /\ \A b \in Joint(tt) : kind[b] \in L
  BY DEF OfKinds
<1>2. Joint(ss) \cap Joint(tt) = {}
  BY <1>1
<1>3. Apart(ss \o tt) /\ Joint(ss \o tt) = Joint(ss) \cup Joint(tt)
  BY <1>1, <1>2, ConcatApart
<1>4. ss \o tt \in Seq(Seq(Block))
  BY <1>1
<1> QED
  BY <1>1, <1>3, <1>4 DEF OfKinds

\* The threads in some order.
LEMMA ThreadsOnce ==
  /\ Threads \in Seq(Thread) /\ Len(Threads) \in Nat /\ DOMAIN Threads = 1 .. Len(Threads)
  /\ \A i \in 1 .. Len(Threads) : Threads[i] \in Thread
  /\ \A i, j \in 1 .. Len(Threads) : Threads[i] = Threads[j] => i = j
<1> DEFINE n == Cardinality(Thread)
<1>1. IsFiniteSet(Thread)
  BY LtAllocAssumption
<1>2. n \in Nat /\ \E f : f \in Bijection(1 .. n, Thread)
  BY <1>1, FS_CardinalityType DEF ExistsBijection
<1>3. PICK f : f \in Bijection(1 .. n, Thread)
  BY <1>2
<1>4. \E g \in [1 .. n -> Thread] : IsInjective(g)
  BY <1>3 DEF Bijection, Injection, IsInjective
<1>5. Threads = CHOOSE g \in [1 .. n -> Thread] : IsInjective(g)
  BY DEF Threads, SetToSeq
<1>6. Threads \in [1 .. n -> Thread] /\ IsInjective(Threads)
  <2> HIDE DEF n
  <2> QED
    BY <1>4, <1>5
<1> HIDE DEF n
<1>7. Threads \in Seq(Thread) /\ Len(Threads) = n
  BY <1>2, <1>6
<1> QED
  BY <1>2, <1>6, <1>7 DEF IsInjective

\* A list of each thread.
EachOf(f) == [i \in DOMAIN Threads |-> f[Threads[i]]]

\* The accounts of the threads' lists tell the threads apart.
LEMMA EachOfKinds ==
  ASSUME NEW f, NEW kind, NEW who, NEW K,
         \A t \in Thread : /\ f[t] \in Seq(Block) /\ Distinct(f[t])
                           /\ \A b \in ToSet(f[t]) : kind[b] \in K /\ who[b] = t
  PROVE  OfKinds(EachOf(f), kind, K)
<1>1. /\ Len(Threads) \in Nat /\ DOMAIN Threads = 1 .. Len(Threads)
      /\ \A i \in 1 .. Len(Threads) : Threads[i] \in Thread
      /\ \A i, j \in 1 .. Len(Threads) : Threads[i] = Threads[j] => i = j
  BY ThreadsOnce
<1>2. PICK ss : ss = EachOf(f)
  OBVIOUS
<1>3. /\ ss \in Seq(Seq(Block)) /\ Len(ss) = Len(Threads)
      /\ \A i \in 1 .. Len(ss) : ss[i] = f[Threads[i]] /\ Threads[i] \in Thread
  <2>1. ss = [i \in 1 .. Len(Threads) |-> f[Threads[i]]]
    BY <1>1, <1>2 DEF EachOf
  <2>2. \A i \in 1 .. Len(Threads) : f[Threads[i]] \in Seq(Block)
    BY <1>1
  <2> QED
    BY <1>1, <2>1, <2>2
<1>4. ASSUME NEW i \in 1 .. Len(ss), NEW k \in 1 .. Len(ss[i])
      PROVE  kind[ss[i][k]] \in K /\ who[ss[i][k]] = Threads[i]
  <2>1. ss[i][k] \in ToSet(ss[i])
    BY <1>3, ToSetPlaces
  <2> QED
    BY <1>3, <2>1
<1>5. ASSUME NEW i \in 1 .. Len(ss), NEW j \in 1 .. Len(ss),
             NEW k \in 1 .. Len(ss[i]), NEW l \in 1 .. Len(ss[j]), ss[i][k] = ss[j][l]
      PROVE  i = j /\ k = l
  <2>1. Threads[i] = Threads[j]
    BY <1>4, <1>5
  <2>2. i = j
    BY <1>1, <1>3, <2>1
  <2>3. Distinct(ss[i])
    BY <1>3
  <2> QED
    BY <1>5, <2>2, <2>3 DEF Distinct
<1>6. Apart(ss)
  BY <1>5, Zenon DEF Apart
<1>7. \A b \in Joint(ss) : kind[b] \in K
  <2> TAKE b \in Joint(ss)
  <2>1. PICK i \in 1 .. Len(ss) : \E k \in 1 .. Len(ss[i]) : b = ss[i][k]
    BY <1>3, JointPlaces
  <2> QED
    BY <1>4, <2>1
<1> QED
  BY <1>2, <1>3, <1>6, <1>7 DEF OfKinds

\* The batches of the central cache.
LEMMA CentralOfKinds ==
  ASSUME Inv, NEW kind, NEW who, Account(kind, who)
  PROVE  OfKinds(CentralBatches, kind, {"batch"})
<1>0. Types /\ NoRepeats
  BY DEF Inv
<1>1. PICK ss : ss = ArrayBatches
  OBVIOUS
<1>2. /\ ss \in Seq(Seq(Seq(Block))) /\ Len(ss) = Len(chunks)
      /\ \A i \in 1 .. Len(chunks) : ss[i] = Batches(i)
      /\ CentralBatches = firstBatch \o FlattenSeq(ss) /\ CentralBatches \in Seq(Seq(Block))
      /\ \A B \in ToSet(CentralBatches) :
            \/ \E j \in 1 .. Len(firstBatch) : B = firstBatch[j]
            \/ \E i \in 1 .. Len(chunks) : \E j \in 1 .. Len(Batches(i)) : B = Batches(i)[j]
  BY <1>0, <1>1, CentralElements
<1>3. firstBatch \in Seq(Seq(Block)) /\ chunks \in Seq(ArrayEntry)
  BY <1>0 DEF Types, ListTypes, ArrayTypes
<1>4. Apart(FlattenSeq(ss)) /\ FlattenSeq(ss) \in Seq(Seq(Block))
  <2>1. \A i \in 1 .. Len(ss) : Apart(ss[i])
    BY <1>0, <1>2 DEF NoRepeats
  <2>2. ASSUME NEW i \in 1 .. Len(ss), NEW j \in 1 .. Len(ss), NEW x \in Joint(ss[i]),
               x \in Joint(ss[j])
        PROVE  i = j
    <3>1. ss[i] \in Seq(Seq(Block)) /\ ss[j] \in Seq(Seq(Block))
      BY <1>2
    <3>2. PICK p \in 1 .. Len(ss[i]) : \E k \in 1 .. Len(ss[i][p]) : x = ss[i][p][k]
      BY <3>1, JointPlaces
    <3>3. PICK q \in 1 .. Len(ss[j]) : \E k \in 1 .. Len(ss[j][q]) : x = ss[j][q][k]
      BY <2>2, <3>1, JointPlaces
    <3>4. PICK k \in 1 .. Len(ss[i][p]) : x = ss[i][p][k]
      BY <3>2
    <3>5. PICK l \in 1 .. Len(ss[j][q]) : x = ss[j][q][l]
      BY <3>3
    <3>6. ss[i] = chunks[i].batches /\ ss[j] = chunks[j].batches
      BY <1>2 DEF Batches
    <3>7. i \in 1 .. Len(chunks) /\ j \in 1 .. Len(chunks)
      BY <1>2
    <3>8. /\ p \in 1 .. Len(chunks[i].batches) /\ q \in 1 .. Len(chunks[j].batches)
          /\ k \in 1 .. Len(chunks[i].batches[p]) /\ l \in 1 .. Len(chunks[j].batches[q])
          /\ chunks[i].batches[p][k] = chunks[j].batches[q][l]
      BY <3>4, <3>5, <3>6
    <3>9. ApartIn(chunks)
      BY <1>0 DEF NoRepeats, ArraysApart
    <3> QED
      BY <3>7, <3>8, <3>9, Zenon DEF ApartIn
  <2>3. Parted(ss)
    BY <2>1, <2>2 DEF Parted
  <2> QED
    BY <1>2, <2>3, FlattenApart, JointFlatten
<1>5. Apart(CentralBatches)
  <2>1. CASE CHUNK_IS_SMALL
    <3>1. firstBatch = <<>>
      BY <1>0, <2>1 DEF Types, ArrayTypes
    <3>2. <<>> \o FlattenSeq(ss) = FlattenSeq(ss)
      BY <1>4
    <3> QED
      BY <1>2, <1>4, <3>1, <3>2
  <2>2. CASE ~CHUNK_IS_SMALL
    <3>1. chunks = <<>>
      BY <1>0, <2>2 DEF Types, ArrayTypes
    <3>2. ss = <<>>
      BY <1>2, <3>1
    <3>3. FlattenSeq(ss) = <<>>
      BY <3>2 DEF FlattenSeq
    <3>4. firstBatch \o <<>> = firstBatch
      BY <1>3
    <3> QED
      BY <1>0, <1>2, <3>3, <3>4 DEF NoRepeats
  <2> QED
    BY <2>1, <2>2
<1>6. ASSUME NEW b \in Joint(CentralBatches)
      PROVE  kind[b] \in {"batch"}
  <2>1. PICK n \in 1 .. Len(CentralBatches) :
           \E k \in 1 .. Len(CentralBatches[n]) : b = CentralBatches[n][k]
    <3>1. CentralBatches \in Seq(Seq(Block))
      BY <1>2
    <3>2. \A x \in Joint(CentralBatches) : \E n \in 1 .. Len(CentralBatches) :
             \E k \in 1 .. Len(CentralBatches[n]) : x = CentralBatches[n][k]
      BY <3>1, JointPlaces, Zenon
    <3> QED
      BY <3>2
  <2>2. PICK B : B = CentralBatches[n]
    OBVIOUS
  <2>3. PICK k \in 1 .. Len(B) : b = B[k]
    BY <2>1, <2>2
  <2>4. B \in ToSet(CentralBatches)
    <3>1. PICK T : T = Seq(Block)
      OBVIOUS
    <3> QED
      BY <1>2, <2>2, <3>1, ToSetPlaces
  <2>5. CASE \E j \in 1 .. Len(firstBatch) : B = firstBatch[j]
    BY <2>3, <2>5 DEF Account, BatchAcc
  <2>6. CASE \E i \in 1 .. Len(chunks) : \E j \in 1 .. Len(Batches(i)) : B = Batches(i)[j]
    BY <2>3, <2>6 DEF Account, ArrayAcc
  <2> QED
    BY <1>2, <2>4, <2>5, <2>6
<1> QED
  BY <1>2, <1>5, <1>6 DEF OfKinds

\* The blocks that have not been carved.
Uncarved == [i \in 1 .. Len(lastChunk) |->
                Carved(lastChunk[i].chunk, NumBlocks - lastChunk[i].left + 1, lastChunk[i].left)]

\* The entries of lastChunk are of different chunks.
LEMMA UncarvedOfKinds ==
  ASSUME Inv, NEW kind, NEW who, Account(kind, who)
  PROVE  OfKinds(Uncarved, kind, {"carve"})
<1>0. Types /\ NoRepeats /\ lastChunk \in Seq(UncarvedEntry) /\ NumBlocks \in Nat
  BY LtAllocAssumption DEF Inv, Types, ListTypes
<1>1. PICK ss : ss = Uncarved
  OBVIOUS
<1>2. ASSUME NEW i \in 1 .. Len(lastChunk)
      PROVE  LET c == lastChunk[i].chunk  left == lastChunk[i].left
                 s == Carved(c, NumBlocks - left + 1, left) IN
             /\ s \in Seq(Block) /\ Len(s) = left /\ left \in Nat
             /\ \A k \in 1 .. left : s[k] = <<c, NumBlocks - left + k>> /\ kind[s[k]] = "carve"
  <2>1. lastChunk[i] \in UncarvedEntry
    BY <1>0
  <2>2. PICK c, left : c = lastChunk[i].chunk /\ left = lastChunk[i].left
    OBVIOUS
  <2>3. c \in Chunk /\ left \in 1 .. NumBlocks
    BY <2>1, <2>2 DEF UncarvedEntry
  <2> DEFINE at(k) == NumBlocks - left + 1 + k - 1
  <2>4. \A k \in 1 .. left : /\ at(k) = NumBlocks - left + k /\ at(k) \in 1 .. NumBlocks
                             /\ at(k) \in NumBlocks - left + 1 .. NumBlocks
    BY <1>0, <2>3
  <2>5. Carved(c, NumBlocks - left + 1, left) = [k \in 1 .. left |-> <<c, at(k)>>]
    BY DEF Carved
  <2> HIDE DEF at
  <2>6. \A k \in 1 .. left : <<c, at(k)>> \in Block /\ kind[<<c, at(k)>>] = "carve"
    BY <2>2, <2>3, <2>4 DEF Block, Account, CarveAcc
  <2>7. PICK s : s = Carved(c, NumBlocks - left + 1, left)
    OBVIOUS
  <2>8. /\ s \in Seq(Block) /\ Len(s) = left /\ left \in Nat
        /\ \A k \in 1 .. left : s[k] = <<c, NumBlocks - left + k>> /\ kind[s[k]] = "carve"
    <3>1. left \in Nat /\ s = [k \in 1 .. left |-> <<c, at(k)>>]
      BY <2>3, <2>5, <2>7
    <3>2. s \in Seq(Block) /\ Len(s) = left
      BY <2>6, <3>1
    <3>3. \A k \in 1 .. left : s[k] = <<c, at(k)>>
      BY <3>1
    <3> QED
      BY <2>4, <2>6, <3>1, <3>2, <3>3
  <2> QED
    BY <2>2, <2>7, <2>8
<1>3. /\ ss \in Seq(Seq(Block)) /\ Len(ss) = Len(lastChunk)
      /\ \A i \in 1 .. Len(ss) : \A k \in 1 .. Len(ss[i]) :
            /\ ss[i][k] = <<lastChunk[i].chunk, NumBlocks - lastChunk[i].left + k>>
            /\ kind[ss[i][k]] = "carve" /\ lastChunk[i].left \in Nat
  <2>1. \A i \in 1 .. Len(lastChunk) :
           /\ Uncarved[i] \in Seq(Block) /\ Len(Uncarved[i]) = lastChunk[i].left
           /\ lastChunk[i].left \in Nat
           /\ \A k \in 1 .. lastChunk[i].left :
                 /\ Uncarved[i][k] = <<lastChunk[i].chunk, NumBlocks - lastChunk[i].left + k>>
                 /\ kind[Uncarved[i][k]] = "carve"
    BY <1>2 DEF Uncarved
  <2>2. Len(lastChunk) \in Nat /\ DOMAIN Uncarved = 1 .. Len(lastChunk)
        /\ Uncarved = [i \in 1 .. Len(lastChunk) |-> Uncarved[i]]
    BY <1>0 DEF Uncarved
  <2>3. ss = [i \in 1 .. Len(lastChunk) |-> ss[i]] /\ Len(lastChunk) \in Nat
    BY <1>1, <2>2
  <2>4. \A i \in 1 .. Len(lastChunk) : ss[i] \in Seq(Block)
    BY <1>1, <2>1
  <2>5. ss \in Seq(Seq(Block)) /\ Len(ss) = Len(lastChunk)
    BY <2>3, <2>4
  <2> QED
    BY <1>1, <2>1, <2>5
<1>4. ASSUME NEW i \in 1 .. Len(ss), NEW j \in 1 .. Len(ss),
             NEW k \in 1 .. Len(ss[i]), NEW l \in 1 .. Len(ss[j]), ss[i][k] = ss[j][l]
      PROVE  i = j /\ k = l
  <2>1. /\ ss[i][k] = <<lastChunk[i].chunk, NumBlocks - lastChunk[i].left + k>>
        /\ ss[j][l] = <<lastChunk[j].chunk, NumBlocks - lastChunk[j].left + l>>
        /\ lastChunk[i].left \in Nat
    BY <1>3
  <2>2. /\ lastChunk[i].chunk = lastChunk[j].chunk
        /\ NumBlocks - lastChunk[i].left + k = NumBlocks - lastChunk[j].left + l
    <3>1. <<lastChunk[i].chunk, NumBlocks - lastChunk[i].left + k>>
          = <<lastChunk[j].chunk, NumBlocks - lastChunk[j].left + l>>
      BY <1>4, <2>1
    <3>2. \A a, b, c, d : <<a, b>> = <<c, d>> => a = c /\ b = d
      OBVIOUS
    <3> QED
      BY <3>1, <3>2, Zenon
  <2>3. i = j
    BY <1>0, <1>3, <2>2 DEF NoRepeats
  <2>4. k \in Nat /\ l \in Nat
    OBVIOUS
  <2> QED
    BY <1>0, <2>1, <2>2, <2>3, <2>4
<1>5. Apart(ss)
  BY <1>4, Zenon DEF Apart
<1>6. \A b \in Joint(ss) : kind[b] \in {"carve"}
  <2> TAKE b \in Joint(ss)
  <2>1. PICK i \in 1 .. Len(ss) : \E k \in 1 .. Len(ss[i]) : b = ss[i][k]
    BY <1>3, JointPlaces
  <2> QED
    BY <1>3, <2>1
<1> QED
  BY <1>1, <1>3, <1>5, <1>6 DEF OfKinds

\* All lists of free blocks.
LEMMA ListsOfKinds ==
  ASSUME Inv, NEW kind, NEW who, Account(kind, who)
  PROVE  OfKinds(AllLists, kind, Serving \ {"app"})
<1>0. Types /\ NoRepeats
  BY DEF Inv
<1>1. OfKinds(CentralBatches, kind, {"batch"})
  BY CentralOfKinds
<1>2. OfKinds(<<ccFreeList>>, kind, {"list"})
  <2>1. ccFreeList \in Seq(Block) /\ Distinct(ccFreeList)
    BY <1>0 DEF Types, ListTypes, NoRepeats
  <2>2. \A b \in ToSet(ccFreeList) : kind[b] \in {"list"}
    BY <2>1, ToSetPlaces DEF Account, ListAcc
  <2> QED
    BY <2>1, <2>2, OneApart DEF OfKinds
<1>3. OfKinds(EachOf(freeList), kind, {"free"})
  <2>1. ASSUME NEW t \in Thread
        PROVE  /\ freeList[t] \in Seq(Block) /\ Distinct(freeList[t])
               /\ \A b \in ToSet(freeList[t]) : kind[b] \in {"free"} /\ who[b] = t
    <3>1. freeList[t] \in Seq(Block) /\ Distinct(freeList[t])
      BY <1>0 DEF Types, ListTypes, NoRepeats
    <3> QED
      BY <3>1, ToSetPlaces DEF Account, FreeAcc
  <2> QED
    BY <2>1, EachOfKinds
<1>4. OfKinds(EachOf(tempList), kind, {"temp"})
  <2>1. ASSUME NEW t \in Thread
        PROVE  /\ tempList[t] \in Seq(Block) /\ Distinct(tempList[t])
               /\ \A b \in ToSet(tempList[t]) : kind[b] \in {"temp"} /\ who[b] = t
    <3>1. tempList[t] \in Seq(Block) /\ Distinct(tempList[t])
      BY <1>0 DEF Types, ListTypes, NoRepeats
    <3> QED
      BY <3>1, ToSetPlaces DEF Account, TempAcc
  <2> QED
    BY <2>1, EachOfKinds
<1>5. PICK g : g = [t \in Thread |-> IF detached[t] = NULL THEN <<>>
                                      ELSE DetachedBlocks(detached[t])]
  OBVIOUS
<1>6. OfKinds(EachOf(g), kind, {"dbatch", "dlist"})
  <2>1. ASSUME NEW t \in Thread
        PROVE  /\ g[t] \in Seq(Block) /\ Distinct(g[t])
               /\ \A b \in ToSet(g[t]) : kind[b] \in {"dbatch", "dlist"} /\ who[b] = t
    <3>1. CASE detached[t] = NULL
      <4>1. g[t] = <<>> /\ <<>> \in Seq(Block) /\ Len(<<>>) = 0 /\ 1 .. 0 = {}
        BY <1>5, <3>1
      <4>2. ToSet(<<>>) = {} /\ Distinct(<<>>)
        BY <4>1, ToSetPlaces DEF Distinct
      <4> QED
        BY <4>1, <4>2
    <3>2. CASE detached[t] # NULL
      <4>1. g[t] = DetachedBlocks(detached[t])
        BY <1>5, <3>2
      <4> QED
        BY <3>2, <4>1, DetachedIs
    <3> QED
      BY <3>1, <3>2
  <2> QED
    BY <2>1, EachOfKinds
<1>7. OfKinds(Uncarved, kind, {"carve"})
  BY UncarvedOfKinds
<1>8. AllLists = CentralBatches \o <<ccFreeList>> \o EachOf(freeList) \o EachOf(tempList)
                 \o EachOf(g) \o Uncarved
  BY <1>5 DEF AllLists, EachOf, Uncarved
<1>9. PICK a, b, c, d, e : /\ a = CentralBatches \o <<ccFreeList>> /\ b = a \o EachOf(freeList)
                           /\ c = b \o EachOf(tempList) /\ d = c \o EachOf(g) /\ e = d \o Uncarved
  OBVIOUS
<1>10. OfKinds(a, kind, {"batch", "list"})
  <2>1. {"batch"} \cap {"list"} = {} /\ {"batch"} \cup {"list"} = {"batch", "list"}
    OBVIOUS
  <2> QED
    BY <1>1, <1>2, <1>9, <2>1, KindsApart, Zenon
<1>11. OfKinds(b, kind, {"batch", "list", "free"})
  <2>1. /\ {"batch", "list"} \cap {"free"} = {}
        /\ {"batch", "list"} \cup {"free"} = {"batch", "list", "free"}
    OBVIOUS
  <2> QED
    BY <1>3, <1>9, <1>10, <2>1, KindsApart, Zenon
<1>12. OfKinds(c, kind, {"batch", "list", "free", "temp"})
  <2>1. /\ {"batch", "list", "free"} \cap {"temp"} = {}
        /\ {"batch", "list", "free"} \cup {"temp"} = {"batch", "list", "free", "temp"}
    OBVIOUS
  <2> QED
    BY <1>4, <1>9, <1>11, <2>1, KindsApart, Zenon
<1>13. OfKinds(d, kind, {"batch", "list", "free", "temp", "dbatch", "dlist"})
  <2>1. /\ {"batch", "list", "free", "temp"} \cap {"dbatch", "dlist"} = {}
        /\ {"batch", "list", "free", "temp"} \cup {"dbatch", "dlist"}
           = {"batch", "list", "free", "temp", "dbatch", "dlist"}
    OBVIOUS
  <2> QED
    BY <1>6, <1>9, <1>12, <2>1, KindsApart, Zenon
<1>14. OfKinds(e, kind, Serving \ {"app"})
  <2>1. /\ {"batch", "list", "free", "temp", "dbatch", "dlist"} \cap {"carve"} = {}
        /\ {"batch", "list", "free", "temp", "dbatch", "dlist"} \cup {"carve"} = Serving \ {"app"}
    BY DEF Serving
  <2> QED
    BY <1>7, <1>9, <1>13, <2>1, KindsApart, Zenon
<1> QED
  BY <1>8, <1>9, <1>14

\* The lists are apart from each other and from what the application has.
LEMMA InvInOnePlace ==
  ASSUME Inv
  PROVE  InOnePlace
<1>1. PICK kind, who : Account(kind, who)
  BY DEF Inv, Accounted
<1>2. PICK all : all = AllLists
  OBVIOUS
<1>3. /\ all \in Seq(Seq(Block)) /\ Apart(all)
      /\ \A b \in Joint(all) : kind[b] \in Serving \ {"app"}
  BY <1>1, <1>2, ListsOfKinds DEF OfKinds
<1>4. PICK free : free = FlattenSeq(all)
  OBVIOUS
<1>5. free \in Seq(Block) /\ Distinct(free) /\ ToSet(free) = Joint(all)
  BY <1>3, <1>4, FlattenType, FlattenDistinct, FlattenElements
<1>6. Len(free) = Cardinality(ToSet(free))
  BY <1>5, DistinctCount
<1>7. ASSUME NEW b \in Block
      PROVE  users[b] + (IF b \in ToSet(free) THEN 1 ELSE 0) <= 1
  <2>1. users[b] \in {0, 1}
    BY DEF Inv, Types, ListTypes
  <2>2. CASE users[b] = 1
    <3>1. kind[b] = "app"
      BY <1>1, <2>2 DEF Account, AppAcc
    <3> QED
      BY <1>3, <1>5, <2>2, <3>1
  <2>3. CASE users[b] = 0
    BY <2>3
  <2> QED
    BY <2>1, <2>2, <2>3
<1> QED
  BY <1>2, <1>4, <1>6, <1>7 DEF InOnePlace, FreeBlocks

\* A block is with the application, or once on one list: what thread caches, the
\* central cache and ltsqueeze move between them is neither doubled nor cut off twice.
THEOREM InOnePlaceTheorem == Spec => []InOnePlace
BY InvTheorem, InvInOnePlace, PTL

\* The accounts of blocks in service are not those of chunks that are not.
LEMMA InvReleased ==
  ASSUME Inv
  PROVE  ReleasedWhenUnused
<1>1. PICK kind, who : Account(kind, who)
  BY DEF Inv, Accounted
<1>2. PICK all : all = AllLists
  OBVIOUS
<1>3. /\ all \in Seq(Seq(Block)) /\ \A b \in Joint(all) : kind[b] \in Serving
  BY <1>1, <1>2, ListsOfKinds DEF OfKinds
<1>4. Listed = Joint(all)
  <2>1. DOMAIN all = 1 .. Len(all)
    BY <1>3
  <2> QED
    BY <1>2, <2>1 DEF Listed, Joint
<1>5. ASSUME NEW b \in Block, kind[b] \in Serving
      PROVE  b[1] \in mapped \ Idle
  <2>1. b[1] \in Chunk /\ b[2] \in 1 .. NumBlocks /\ b = <<b[1], b[2]>>
    BY DEF Block
  <2>2. kind[b] \notin {"system", "pad", "releasing", "mem"}
    BY <1>5 DEF Serving
  <2>3. b[1] \in mapped /\ b[1] \notin pad
    BY <1>1, <2>1, <2>2 DEF Account, SystemAcc, PadAcc
  <2>4. \A t \in Thread : b[1] \notin releasing[t]
    BY <1>1, <2>1, <2>2 DEF Account, ReleasingAcc
  <2>5. \A t \in Thread : mem[t] # NULL => b[1] # mem[t]
    <3> SUFFICES ASSUME NEW t \in Thread, mem[t] # NULL, b[1] = mem[t]
                 PROVE  FALSE
      OBVIOUS
    <3>1. pc[t] = "install"
      BY DEF Inv, Types, ChunkTypes
    <3>2. kind[<<mem[t], b[2]>>] = "mem"
      BY <1>1, <2>1, <3>1 DEF Account, MemAcc
    <3> QED
      BY <2>1, <2>2, <3>2
  <2> QED
    BY <2>3, <2>4, <2>5 DEF Idle
<1>6. ASSUME NEW b \in Block, users[b] > 0
      PROVE  kind[b] \in Serving
  <2>1. users[b] = 1
    BY <1>6 DEF Inv, Types, ListTypes
  <2> QED
    BY <1>1, <2>1 DEF Account, AppAcc, Serving
<1> QED
  BY <1>3, <1>4, <1>5, <1>6 DEF ReleasedWhenUnused

\* No chunk of which a block is with the application or on a list of any thread is put
\* aside or given back by ltsqueeze, which looks through the central cache alone.
THEOREM ReleasedWhenUnusedTheorem == Spec => []ReleasedWhenUnused
BY InvTheorem, InvReleased, PTL

-----------------------------------------------------------------------------
\* A system that may refuse memory.  A thread is left with an empty cache whose counter
\* is 1, so that lists and batches may be short: the counts are lost, and the arrays of
\* a small class with them.  What a large class does with its blocks stays right.
RefusingSpec == Init /\ [][NextOrRefused]_vars

\* Every step of a large class keeps the accounts, a refusal included.
LEMMA NextInv ==
  ASSUME Inv, ~CHUNK_IS_SMALL, NEW t \in Thread,
         \/ Malloc(t) \/ Free(t) \/ FreeAndMove(t) \/ Exit(t) \/ SqueezeDetach(t) \/ Squeeze(t)
         \/ FetchFails(t)
  PROVE  Inv'
<1>0. SmallInv
  BY DEF SmallInv
<1>1. CASE MallocCached(t) \/ MallocTemp(t) \/ MallocBatch(t) \/ MallocList(t) \/ MallocCarve(t)
  BY <1>1, CachedKeeps, TempKeeps, LargeBatchKeeps, ListKeeps, CarveKeeps
<1>2. CASE MallocNew(t) \/ FetchPad(t) \/ FetchSystem(t) \/ FetchFails(t) \/ Install(t)
  BY <1>0, <1>2, NewKeeps, FetchPadKeeps, FetchSystemKeeps, FailsKeeps, InstallKeeps
<1>3. CASE Free(t) \/ FreeAndMove(t) \/ Exit(t)
  BY <1>3, FreeKeeps, FreeAndMoveKeeps, ExitKeeps
<1>4. CASE SqueezeDetach(t) \/ SqueezeReturn(t) \/ PutOff(t) \/ Unmap(t)
  BY <1>4, SqueezeDetachKeeps, SqueezeReturnKeeps, PutOffKeeps, UnmapKeeps
<1> QED
  BY <1>1, <1>2, <1>3, <1>4 DEF Malloc, Squeeze

\* The accounts stay right in a large class when memory is refused.
THEOREM InvRefusedTheorem ==
  ASSUME ~CHUNK_IS_SMALL
  PROVE  RefusingSpec => []Inv
<1>1. Init => Inv
  BY InitIInv DEF IInv
<1>2. Inv /\ [NextOrRefused]_vars => Inv'
  BY NextInv, StutterInv DEF NextOrRefused, Next
<1> QED
  BY <1>1, <1>2, PTL DEF RefusingSpec

\* And with them what was shown without refusals, the counts and arrays excepted.
THEOREM RefusedTheorem ==
  ASSUME ~CHUNK_IS_SMALL
  PROVE  RefusingSpec => [](InOnePlace /\ ReleasedWhenUnused /\ BufferFits) /\ KeepsContract
<1>1. Inv => InOnePlace /\ ReleasedWhenUnused /\ BufferFits
  BY InvInOnePlace, InvReleased, InvBuffer
<1>2. Init => Contract!HInit
  BY DEF Init, Contract!HInit
<1>3. Inv /\ Inv' /\ [NextOrRefused]_vars => [Contract!HNext]_users
  <2>1. UNCHANGED vars => UNCHANGED users
    BY DEF vars
  <2>2. \A t \in Thread : FetchFails(t) => UNCHANGED users
    BY DEF FetchFails
  <2> QED
    BY <2>1, <2>2, NextKeepsContract DEF NextOrRefused, Next
<1> QED
  BY <1>1, <1>2, <1>3, InvRefusedTheorem, PTL DEF RefusingSpec, KeepsContract, Contract!HSpec

-----------------------------------------------------------------------------
\* Where ltsqueeze does not run, nothing is lost.  A block on a list, by its place there.
On(s, b) == \E k \in 1 .. Len(s) : s[k] = b
\* The places that a block of a chunk in service has: the caches of the threads, the
\* batches of the central cache, the end of a chunk, or a chunk about to be installed.
Cached(b) == \E t \in Thread : On(freeList[t], b) \/ On(tempList[t], b)
Central(b) ==
    \/ \E j \in 1 .. Len(firstBatch) : On(firstBatch[j], b)
    \/ \E i \in 1 .. Len(chunks) : \E j \in 1 .. Len(Batches(i)) : On(Batches(i)[j], b)
ToCarve(b) ==
    \E i \in 1 .. Len(lastChunk) :
       b[1] = lastChunk[i].chunk /\ b[2] > NumBlocks - lastChunk[i].left
Coming(b) == \E t \in Thread : pc[t] = "install" /\ mem[t] = b[1]
Held(b) ==
    users[b] > 0 \/ Cached(b) \/ Central(b) \/ On(ccFreeList, b) \/ ToCarve(b) \/ Coming(b)
AllHeld == \A b \in Block : b[1] \in mapped => Held(b)
\* No thread squeezes, so that no chunk is put aside.
Unsqueezed == pad = {} /\ \A t \in Thread : pc[t] \notin InSqueeze

\* The first of a list and the others.
LEMMA OnFirst ==
  ASSUME NEW S, NEW s \in Seq(S), s # <<>>, NEW b, On(s, b)
  PROVE  b = Head(s) \/ On(Tail(s), b)
<1>1. PICK k \in 1 .. Len(s) : s[k] = b
  BY DEF On
<1>2. CASE k = 1
  BY <1>1, <1>2
<1>3. CASE k # 1
  <2>1. /\ k - 1 \in 1 .. Len(Tail(s)) /\ Tail(s)[k - 1] = s[k]
    BY <1>3
  <2> QED
    BY <1>1, <2>1 DEF On
<1> QED
  BY <1>2, <1>3

\* Two lists joined.
LEMMA OnJoined ==
  ASSUME NEW S, NEW s \in Seq(S), NEW u \in Seq(S), NEW b, On(s, b) \/ On(u, b)
  PROVE  On(s \o u, b)
<1>1. CASE On(s, b)
  <2>1. PICK k \in 1 .. Len(s) : s[k] = b
    BY <1>1 DEF On
  <2>2. k \in 1 .. Len(s \o u) /\ (s \o u)[k] = b
    BY <2>1
  <2> QED
    BY <2>2 DEF On
<1>2. CASE On(u, b)
  <2>1. PICK k \in 1 .. Len(u) : u[k] = b
    BY <1>2 DEF On
  <2>2. PICK j : j = Len(s) + k
    OBVIOUS
  <2>3. j \in 1 .. Len(s \o u) /\ (s \o u)[j] = b
    BY <2>1, <2>2
  <2> QED
    BY <2>3 DEF On
<1> QED
  BY <1>1, <1>2

\* A list cut in two.
LEMMA OnCut ==
  ASSUME NEW S, NEW s \in Seq(S), NEW n \in 0 .. Len(s), NEW b, On(s, b)
  PROVE  On(SubSeq(s, 1, n), b) \/ On(SubSeq(s, n + 1, Len(s)), b)
<1>1. PICK k \in 1 .. Len(s) : s[k] = b
  BY DEF On
<1> DEFINE left == SubSeq(s, 1, n)
           right == SubSeq(s, n + 1, Len(s))
<1>2. /\ Len(left) = n /\ \A i \in 1 .. n : left[i] = s[i]
      /\ Len(right) = Len(s) - n /\ \A i \in 1 .. Len(s) - n : right[i] = s[n + i]
  BY Split
<1> HIDE DEF left, right
<1>3. CASE k <= n
  <2>1. k \in 1 .. Len(left) /\ left[k] = b
    BY <1>1, <1>2, <1>3
  <2> QED
    BY <2>1 DEF On, left
<1>4. CASE k > n
  <2>1. PICK j : j = k - n
    OBVIOUS
  <2>2. j \in 1 .. Len(s) - n /\ n + j = k
    BY <1>1, <1>4, <2>1
  <2>3. j \in 1 .. Len(right) /\ right[j] = b
    BY <1>1, <1>2, <2>2
  <2> QED
    BY <2>3 DEF On, right
<1> QED
  BY <1>1, <1>3, <1>4

\* A thread that receives a list keeps it, the block that it hands out excepted.
LEMMA ReceivedHeld ==
  ASSUME Types, NEW t \in Thread, NEW list \in Seq(Block), list # <<>>, Receive(t, list),
         freeList[t] = <<>> \/ freeList[t] = list, NEW b \in Block,
         users[b] > 0 \/ On(list, b) \/ \E u \in Thread : On(freeList[u], b)
  PROVE  users'[b] > 0 \/ \E u \in Thread : On(freeList'[u], b)
<1>1. /\ users \in [Block -> {0, 1}] /\ freeList \in [Thread -> Seq(Block)]
      /\ Head(list) \in Block
  BY DEF Types, ListTypes
<1>2. /\ freeList'[t] = Tail(list) /\ \A u \in Thread \ {t} : freeList'[u] = freeList[u]
      /\ users'[Head(list)] = users[Head(list)] + 1
      /\ \A x \in Block \ {Head(list)} : users'[x] = users[x]
  BY <1>1 DEF Receive
<1>3. CASE users[b] > 0
  <2>1. users[b] \in {0, 1} /\ (b = Head(list) \/ users'[b] = users[b])
    BY <1>1, <1>2, Zenon
  <2>2. CASE b = Head(list)
    <3>1. users'[b] = users[b] + 1
      BY <1>2, <2>2, Zenon
    <3> QED
      BY <1>3, <2>1, <3>1
  <2> QED
    BY <1>3, <2>1, <2>2
<1>4. CASE On(list, b)
  <2>1. CASE b = Head(list)
    <3>1. users[b] \in {0, 1} /\ users'[b] = users[b] + 1
      BY <1>1, <1>2, <2>1, Zenon
    <3> QED
      BY <3>1
  <2>2. CASE On(Tail(list), b)
    BY <1>2, <2>2, Zenon
  <2> QED
    BY <1>4, <2>1, <2>2, OnFirst
<1>5. CASE \E u \in Thread : On(freeList[u], b)
  <2>1. PICK u \in Thread : On(freeList[u], b)
    BY <1>5
  <2>2. CASE u = t
    <3>1. ~On(<<>>, b)
      BY DEF On
    <3> QED
      BY <1>4, <2>1, <2>2, <3>1
  <2>3. CASE u # t
    BY <1>2, <2>1, <2>3
  <2> QED
    BY <2>2, <2>3
<1> QED
  BY <1>3, <1>4, <1>5

\* The pieces of Held, when the caller of Receive leaves the others alone.
LEMMA StillHeld ==
  ASSUME NEW b \in Block, Held(b),
         NEW t \in Thread, NEW list, \A u \in Thread : tempList'[u] = tempList[u]
                                        \/ tempList[u] = list,
         On(list, b) \/ users[b] > 0 \/ (\E u \in Thread : On(freeList[u], b))
            => users'[b] > 0 \/ (\E u \in Thread : On(freeList'[u], b)),
         Central(b) => On(list, b) \/ Central(b)',
         On(ccFreeList, b) => On(list, b) \/ On(ccFreeList', b),
         ToCarve(b) => On(list, b) \/ ToCarve(b)',
         Coming(b) => On(list, b) \/ Coming(b)'
  PROVE  Held(b)'
<1>1. CASE users[b] > 0 \/ On(list, b) \/ \E u \in Thread : On(freeList[u], b)
  BY <1>1 DEF Held, Cached
<1>2. CASE \E u \in Thread : On(tempList[u], b)
  <2>1. PICK u \in Thread : On(tempList[u], b)
    BY <1>2
  <2>2. On(list, b) \/ On(tempList'[u], b)
    BY <2>1
  <2> QED
    BY <1>1, <2>2 DEF Held, Cached
<1>3. CASE Central(b) \/ On(ccFreeList, b) \/ ToCarve(b) \/ Coming(b)
  BY <1>1, <1>3 DEF Held
<1> QED
  BY <1>1, <1>2, <1>3 DEF Held, Cached

\* A step that changes one array of batches: what it takes out of it is on the list.
LEMMA ArrayHeld ==
  ASSUME Types, NEW b, NEW list, NEW r \in 1 .. Len(chunks), NEW bs \in Seq(Seq(Block)),
         chunks' = [chunks EXCEPT ![r].batches = bs], firstBatch' = firstBatch,
         \A j \in 1 .. Len(Batches(r)) : On(Batches(r)[j], b) =>
            On(list, b) \/ \E k \in 1 .. Len(bs) : On(bs[k], b),
         Central(b)
  PROVE  On(list, b) \/ Central(b)'
<1>1. /\ Len(chunks') = Len(chunks) /\ Batches(r)' = bs
      /\ \A i \in 1 .. Len(chunks) : i # r => Batches(i)' = Batches(i)
  BY ArrayChanged
<1>2. CASE \E j \in 1 .. Len(firstBatch) : On(firstBatch[j], b)
  BY <1>2 DEF Central
<1>3. ASSUME NEW i \in 1 .. Len(chunks), NEW j \in 1 .. Len(Batches(i)), On(Batches(i)[j], b)
      PROVE  On(list, b) \/ Central(b)'
  <2>1. i \in 1 .. Len(chunks)'
    BY <1>1
  <2>2. CASE i = r
    <3>1. On(list, b) \/ \E k \in 1 .. Len(bs) : On(bs[k], b)
      BY <1>3, <2>2
    <3> QED
      BY <1>1, <2>1, <2>2, <3>1, Zenon DEF Central
  <2>3. CASE i # r
    BY <1>1, <1>3, <2>1, <2>3, Zenon DEF Central
  <2> QED
    BY <2>2, <2>3
<1> QED
  BY <1>2, <1>3 DEF Central

\* A batch added to the central cache joins those that are there.
LEMMA AddedHeld ==
  ASSUME Types, NEW batch \in Seq(Block), AddBatch(batch), NEW b,
         CHUNK_IS_SMALL /\ batch # <<>> => RoomAt \in 1 .. Len(chunks),
         Central(b) \/ On(batch, b)
  PROVE  Central(b)'
<1>1. CASE batch = <<>>
  <2>1. ~On(batch, b)
    BY <1>1 DEF On
  <2>2. UNCHANGED <<firstBatch, chunks>>
    BY <1>1 DEF AddBatch, batchVars
  <2> QED
    BY <2>1, <2>2 DEF Central, Batches
<1>2. CASE batch # <<>> /\ ~CHUNK_IS_SMALL
  <2>1. firstBatch' = <<batch>> \o firstBatch /\ chunks' = chunks
    BY <1>2 DEF AddBatch
  <2>0. PICK T : T = Seq(Block)
    OBVIOUS
  <2>2. /\ Len(firstBatch') = Len(firstBatch) + 1
        /\ firstBatch'[1] = batch /\ Len(firstBatch) \in Nat
        /\ \A j \in 1 .. Len(firstBatch) : firstBatch'[j + 1] = firstBatch[j]
    <3>1. firstBatch \in Seq(T) /\ batch \in T
      BY <2>0 DEF Types, ListTypes
    <3> QED
      BY <2>1, <3>1
  <2>3. CASE On(batch, b)
    <3>1. 1 \in 1 .. Len(firstBatch')
      BY <2>2
    <3> QED
      BY <2>2, <2>3, <3>1 DEF Central
  <2>4. CASE \E j \in 1 .. Len(firstBatch) : On(firstBatch[j], b)
    <3>1. PICK j \in 1 .. Len(firstBatch) : On(firstBatch[j], b)
      BY <2>4
    <3>2. j + 1 \in 1 .. Len(firstBatch') /\ firstBatch'[j + 1] = firstBatch[j]
      BY <2>2
    <3> QED
      BY <3>1, <3>2, Zenon DEF Central
  <2>5. CASE \E i \in 1 .. Len(chunks) : \E j \in 1 .. Len(Batches(i)) : On(Batches(i)[j], b)
    BY <2>1, <2>5 DEF Central, Batches
  <2> QED
    BY <2>3, <2>4, <2>5 DEF Central
<1>3. CASE batch # <<>> /\ CHUNK_IS_SMALL
  <2>1. PICK r : r = RoomAt
    OBVIOUS
  <2>2. PICK bs : bs = Append(Batches(r), batch)
    OBVIOUS
  <2>3. /\ r \in 1 .. Len(chunks) /\ firstBatch' = firstBatch
        /\ chunks' = [chunks EXCEPT ![r].batches = bs]
    BY <1>3, <2>1, <2>2 DEF AddBatch, Batches
  <2>4. Batches(r) \in Seq(Seq(Block))
    <3>1. chunks[r] \in ArrayEntry
      BY <2>3 DEF Types, ArrayTypes
    <3> QED
      BY <3>1 DEF ArrayEntry, Batches
  <2>5. /\ bs \in Seq(Seq(Block)) /\ Len(bs) = Len(Batches(r)) + 1 /\ Len(Batches(r)) \in Nat
        /\ bs[Len(bs)] = batch /\ \A j \in 1 .. Len(Batches(r)) : bs[j] = Batches(r)[j]
    BY <2>2, <2>4
  <2>6. \A j \in 1 .. Len(Batches(r)) : j \in 1 .. Len(bs)
    BY <2>5
  <2>7. CASE On(batch, b)
    <3>1. Len(chunks') = Len(chunks) /\ Batches(r)' = bs
      BY <2>3, <2>5, ArrayChanged, Zenon
    <3>2. Len(bs) \in 1 .. Len(bs)
      BY <2>5
    <3> QED
      BY <2>3, <2>5, <2>7, <3>1, <3>2, Zenon DEF Central
  <2>8. CASE Central(b)
    <3>1. \A j \in 1 .. Len(Batches(r)) : On(Batches(r)[j], b) =>
             On(<<>>, b) \/ \E k \in 1 .. Len(bs) : On(bs[k], b)
      BY <2>5, <2>6
    <3>2. On(<<>>, b) \/ Central(b)'
      BY <2>3, <2>5, <2>8, <3>1, ArrayHeld, Zenon
    <3> QED
      BY <3>2 DEF On
  <2> QED
    BY <2>7, <2>8
<1> QED
  BY <1>1, <1>2, <1>3

\* ltmalloc from the cache of the thread, or from the list that it has put aside.
LEMMA CacheHeld ==
  ASSUME Types, AllHeld, NEW t \in Thread, MallocCached(t) \/ MallocTemp(t)
  PROVE  AllHeld'
<1> SUFFICES ASSUME NEW b \in Block, Held(b)
             PROVE  Held(b)'
  BY DEF AllHeld, MallocCached, MallocTemp
<1>1. /\ UNCHANGED <<firstBatch, chunks, ccFreeList, lastChunk, pc, mem>>
  BY DEF MallocCached, MallocTemp, batchVars, listVars
<1>2. Central(b)' <=> Central(b)
  BY <1>1 DEF Central, Batches
<1>3. (ToCarve(b)' <=> ToCarve(b)) /\ (Coming(b)' <=> Coming(b))
  BY <1>1 DEF ToCarve, Coming
<1>4. /\ freeList[t] \in Seq(Block) /\ tempList \in [Thread -> Seq(Block)]
  BY DEF Types, ListTypes
<1>5. CASE MallocCached(t)
  <2>1. Receive(t, freeList[t]) /\ freeList[t] # <<>> /\ tempList' = tempList
    BY <1>5 DEF MallocCached
  <2> QED
    BY <1>1, <1>2, <1>3, <1>4, <2>1, ReceivedHeld, StillHeld
<1>6. CASE MallocTemp(t)
  <2>1. /\ Receive(t, tempList[t]) /\ tempList[t] # <<>> /\ freeList[t] = <<>>
        /\ \A u \in Thread : tempList'[u] = tempList[u] \/ tempList[u] = tempList[t]
    BY <1>4, <1>6 DEF MallocTemp
  <2> QED
    BY <1>1, <1>2, <1>3, <1>4, <2>1, ReceivedHeld, StillHeld
<1> QED
  BY <1>5, <1>6

\* ltmalloc from a batch of the central cache.
LEMMA BatchHeld ==
  ASSUME Types, SmallInv, AllHeld, NEW t \in Thread, MallocBatch(t)
  PROVE  AllHeld'
<1> SUFFICES ASSUME NEW b \in Block, Held(b)
             PROVE  Held(b)'
  BY DEF AllHeld, MallocBatch
<1>1. /\ UNCHANGED <<tempList, ccFreeList, lastChunk, pc, mem>>
      /\ freeList[t] = <<>> /\ ~NoBatch /\ TakeBatch(t)
  BY DEF MallocBatch, Fetching, listVars
<1>2. (ToCarve(b)' <=> ToCarve(b)) /\ (Coming(b)' <=> Coming(b))
  BY <1>1 DEF ToCarve, Coming
<1>3. CASE ~CHUNK_IS_SMALL
  <2>1. PICK list : list = Head(firstBatch)
    OBVIOUS
  <2>2. /\ firstBatch # <<>> /\ firstBatch' = Tail(firstBatch) /\ chunks' = chunks
        /\ Receive(t, list)
    BY <1>1, <1>3, <2>1 DEF NoBatch, TakeBatch
  <2>3. firstBatch \in Seq(Seq(Block)) /\ \A j \in 1 .. Len(firstBatch) : firstBatch[j] # <<>>
    BY DEF Types, ListTypes
  <2>4. /\ list \in Seq(Block) /\ list # <<>> /\ list = firstBatch[1]
        /\ \A j \in 1 .. Len(firstBatch) : j = 1 \/ (/\ j - 1 \in 1 .. Len(firstBatch')
                                                  /\ firstBatch'[j - 1] = firstBatch[j])
    BY <2>1, <2>2, <2>3
  <2>5. ASSUME NEW j \in 1 .. Len(firstBatch), On(firstBatch[j], b)
        PROVE  On(list, b) \/ Central(b)'
    <3>1. CASE j = 1
      BY <2>4, <2>5, <3>1
    <3>2. CASE j # 1
      <4>1. j - 1 \in 1 .. Len(firstBatch') /\ firstBatch'[j - 1] = firstBatch[j]
        BY <2>4, <3>2
      <4> QED
        BY <2>5, <4>1, Zenon DEF Central
    <3> QED
      BY <3>1, <3>2
  <2>6. Central(b) => On(list, b) \/ Central(b)'
    BY <2>2, <2>5 DEF Central, Batches
  <2> QED
    BY <1>1, <1>2, <2>2, <2>4, <2>6, ReceivedHeld, StillHeld
<1>4. CASE CHUNK_IS_SMALL
  <2>1. PICK r : r = BatchAt
    OBVIOUS
  <2>2. PICK bs : bs = Front(Batches(r))
    OBVIOUS
  <2>3. PICK list : list = Last(Batches(r))
    OBVIOUS
  <2>4. /\ r \in 1 .. Len(chunks) /\ Batches(r) # <<>>
        /\ firstBatch' = firstBatch /\ chunks' = [chunks EXCEPT ![r].batches = bs]
        /\ Receive(t, list)
    BY <1>1, <1>4, <2>1, <2>2, <2>3, BatchInArray DEF SmallInv, TakeBatch, Batches
  <2>5. Batches(r) \in Seq(Seq(Block)) /\ \A j \in 1 .. Len(Batches(r)) : Batches(r)[j] # <<>>
    <3>1. chunks[r] \in ArrayEntry
      BY <2>4 DEF Types, ArrayTypes
    <3> QED
      BY <2>4, <3>1 DEF Types, ArrayTypes, ArrayEntry, Batches
  <2> DEFINE B == Batches(r)
  <2>6. /\ Len(B) \in Nat /\ Len(B) \in 1 .. Len(B) /\ list = B[Len(B)]
        /\ list \in Seq(Block) /\ list # <<>>
    <3> HIDE DEF B
    <3>1. B \in Seq(Seq(Block)) /\ B # <<>> /\ \A j \in 1 .. Len(B) : B[j] # <<>>
      BY <2>4, <2>5 DEF B
    <3>2. Len(B) \in Nat /\ Len(B) \in 1 .. Len(B)
      BY <3>1
    <3>3. list = B[Len(B)]
      BY <2>3 DEF Last, B
    <3> QED
      BY <3>1, <3>2, <3>3
  <2>7. /\ bs \in Seq(Seq(Block)) /\ Len(bs) = Len(Batches(r)) - 1
        /\ \A j \in 1 .. Len(Batches(r)) - 1 : bs[j] = Batches(r)[j]
    BY <2>2, <2>5, <2>6, AllButLast DEF Front
  <2>8. ASSUME NEW j \in 1 .. Len(Batches(r)), On(Batches(r)[j], b)
        PROVE  On(list, b) \/ \E k \in 1 .. Len(bs) : On(bs[k], b)
    <3>1. j = Len(Batches(r)) \/ (j \in 1 .. Len(bs) /\ bs[j] = Batches(r)[j])
      BY <2>6, <2>7
    <3> QED
      BY <2>6, <2>8, <3>1, Zenon
  <2>9. Central(b) => On(list, b) \/ Central(b)'
    BY <2>4, <2>7, <2>8, ArrayHeld, Zenon
  <2> QED
    BY <1>1, <1>2, <2>4, <2>6, <2>9, ReceivedHeld, StillHeld
<1> QED
  BY <1>3, <1>4

\* ltmalloc from the central list, of which as much stays as is not taken.
LEMMA ListHeld ==
  ASSUME Types, AllHeld, NEW t \in Thread, MallocList(t)
  PROVE  AllHeld'
<1> SUFFICES ASSUME NEW b \in Block, Held(b)
             PROVE  Held(b)'
  BY DEF AllHeld, MallocList
<1>1. /\ UNCHANGED <<tempList, firstBatch, chunks, lastChunk, pc, mem>>
      /\ freeList[t] = <<>> /\ ccFreeList # <<>>
      /\ (IF freeListSize <= BATCH + 1 THEN Len(ccFreeList) ELSE BATCH) <= Len(ccFreeList)
  BY DEF MallocList, Fetching, batchVars
<1>2. /\ Central(b)' <=> Central(b)
      /\ ToCarve(b)' <=> ToCarve(b)
      /\ Coming(b)' <=> Coming(b)
  BY <1>1 DEF Central, Batches, ToCarve, Coming
<1>3. PICK n : n = IF freeListSize <= BATCH + 1 THEN Len(ccFreeList) ELSE BATCH
  OBVIOUS
<1>4. PICK list : list = SubSeq(ccFreeList, 1, n)
  OBVIOUS
<1>5. Receive(t, list) /\ ccFreeList' = SubSeq(ccFreeList, n + 1, Len(ccFreeList))
  BY <1>3, <1>4 DEF MallocList
<1>6. ccFreeList \in Seq(Block) /\ n \in 1 .. Len(ccFreeList)
  BY <1>1, <1>3, LtAllocAssumption DEF Types, ListTypes
<1>7. list \in Seq(Block) /\ Len(list) = n
  BY <1>4, <1>6, Split
<1>8. On(ccFreeList, b) => On(list, b) \/ On(ccFreeList', b)
  BY <1>4, <1>5, <1>6, OnCut
<1>9. list # <<>>
  BY <1>6, <1>7
<1> QED
  BY <1>1, <1>2, <1>5, <1>7, <1>8, <1>9, ReceivedHeld, StillHeld

\* The blocks of a chunk from the first of them that is carved on.
LEMMA CarvedOn ==
  ASSUME NEW c, NEW first \in Nat, NEW n \in Nat, NEW m \in first .. first + n - 1
  PROVE  On(Carved(c, first, n), <<c, m>>)
<1>1. PICK k : k = m - first + 1
  OBVIOUS
<1>2. k \in 1 .. n /\ first + k - 1 = m
  BY <1>1
<1>3. PICK s : s = Carved(c, first, n)
  OBVIOUS
<1>4. Len(s) = n /\ \A i \in 1 .. n : s[i] = <<c, first + i - 1>>
  BY <1>3 DEF Carved
<1>5. k \in 1 .. Len(s) /\ s[k] = <<c, m>>
  BY <1>2, <1>4
<1> QED
  BY <1>3, <1>5 DEF On

\* ltmalloc from the chunk that is being carved, of which the end is left.
LEMMA CarveHeld ==
  ASSUME Types, AllHeld, NEW t \in Thread, MallocCarve(t)
  PROVE  AllHeld'
<1> SUFFICES ASSUME NEW b \in Block, Held(b)
             PROVE  Held(b)'
  BY DEF AllHeld, MallocCarve
<1>1. /\ UNCHANGED <<tempList, firstBatch, chunks, ccFreeList, pc, mem>>
      /\ freeList[t] = <<>> /\ lastChunk # <<>>
  BY DEF MallocCarve, Fetching, batchVars, listVars
<1>2. /\ Central(b)' <=> Central(b)
      /\ Coming(b)' <=> Coming(b)
  BY <1>1 DEF Central, Batches, Coming
<1>3. PICK c, left, n : /\ c = lastChunk[1].chunk /\ left = lastChunk[1].left
                        /\ n = Min2(left, BATCH)
  OBVIOUS
<1>4. PICK first : first = NumBlocks - left + 1
  OBVIOUS
<1>5. PICK list : list = Carved(c, first, n)
  OBVIOUS
<1>6. Receive(t, list) /\ lastChunk' = AfterCarving(n)
  BY <1>3, <1>4, <1>5 DEF MallocCarve
<1>7. /\ lastChunk \in Seq(UncarvedEntry) /\ lastChunk[1] \in UncarvedEntry
      /\ Len(lastChunk) \in Nat /\ NumBlocks \in Nat
  BY <1>1, LtAllocAssumption DEF Types, ListTypes
<1>8. left \in 1 .. NumBlocks /\ c \in Chunk
  BY <1>3, <1>7 DEF UncarvedEntry
<1>9. /\ n \in Nat /\ n >= 1 /\ n <= left /\ first \in Nat /\ first >= 1
      /\ first + n - 1 <= NumBlocks
  BY <1>3, <1>4, <1>8, LtAllocAssumption DEF Min2
<1>10. list \in Seq(Block) /\ list # <<>>
  <2>1. list \in Seq(Block) /\ Len(list) = n
    BY <1>5, <1>8, <1>9, CarvedList
  <2> QED
    BY <1>9, <2>1
<1>11. b[2] \in 1 .. NumBlocks /\ b = <<b[1], b[2]>>
  BY DEF Block
<1>12. ASSUME NEW i \in 1 .. Len(lastChunk), b[1] = lastChunk[i].chunk,
              b[2] > NumBlocks - lastChunk[i].left
       PROVE  On(list, b) \/ ToCarve(b)'
  <2>1. CASE i = 1 /\ b[2] \in first .. first + n - 1
    <3>1. On(list, <<b[1], b[2]>>)
      BY <1>3, <1>5, <1>9, <1>12, <2>1, CarvedOn
    <3> QED
      BY <1>11, <3>1
  <2>2. CASE i = 1 /\ b[2] \notin first .. first + n - 1
    <3>0. PICK m : m = b[2]
      OBVIOUS
    <3>1. b[2] > NumBlocks - (left - n) /\ left # n
      <4>1. m > NumBlocks - left
        BY <1>3, <1>12, <2>2, <3>0
      <4>2. m \in 1 .. NumBlocks /\ m \notin first .. first + n - 1
        BY <1>11, <2>2, <3>0
      <4>3. m >= first + n
        BY <1>4, <1>7, <1>8, <1>9, <4>1, <4>2
      <4>4. m > NumBlocks - (left - n) /\ left # n
        BY <1>4, <1>7, <1>8, <1>9, <4>2, <4>3
      <4> QED
        BY <3>0, <4>4
    <3>2. lastChunk' = [lastChunk EXCEPT ![1].left = @ - n]
      BY <1>3, <1>6, <3>1 DEF AfterCarving
    <3>3. /\ 1 \in 1 .. Len(lastChunk') /\ lastChunk'[1].chunk = c
          /\ lastChunk'[1].left = left - n
      BY <1>1, <1>3, <1>7, <3>2 DEF UncarvedEntry
    <3> QED
      BY <1>3, <1>12, <2>2, <3>1, <3>3 DEF ToCarve
  <2>3. CASE i # 1
    <3>1. CASE left = n
      <4>1. lastChunk' = Tail(lastChunk)
        BY <1>3, <1>6, <3>1 DEF AfterCarving
      <4>2. i - 1 \in 1 .. Len(lastChunk') /\ lastChunk'[i - 1] = lastChunk[i]
        BY <1>1, <1>7, <2>3, <4>1
      <4> QED
        BY <1>12, <4>2 DEF ToCarve
    <3>2. CASE left # n
      <4>1. lastChunk' = [lastChunk EXCEPT ![1].left = @ - n]
        BY <1>3, <1>6, <3>2 DEF AfterCarving
      <4>2. i \in 1 .. Len(lastChunk') /\ lastChunk'[i] = lastChunk[i]
        BY <1>7, <2>3, <4>1
      <4> QED
        BY <1>12, <4>2 DEF ToCarve
    <3> QED
      BY <3>1, <3>2
  <2> QED
    BY <2>1, <2>2, <2>3
<1>13. ToCarve(b) => On(list, b) \/ ToCarve(b)'
  BY <1>12 DEF ToCarve
<1> QED
  BY <1>1, <1>2, <1>6, <1>10, <1>13, ReceivedHeld, StillHeld

\* A chunk that the system gives is one that a thread is about to install.
LEMMA NewHeld ==
  ASSUME Types, AllHeld, Unsqueezed, NEW t \in Thread,
         MallocNew(t) \/ FetchPad(t) \/ FetchSystem(t) \/ FetchFails(t)
  PROVE  AllHeld'
<1>1. UNCHANGED <<freeList, tempList, firstBatch, chunks, ccFreeList, lastChunk, users>>
  BY DEF MallocNew, FetchPad, FetchSystem, FetchFails, Prepare, cacheVars, batchVars, listVars
<1>2. \A b : /\ Cached(b)' <=> Cached(b)
             /\ Central(b)' <=> Central(b)
             /\ ToCarve(b)' <=> ToCarve(b)
  BY <1>1 DEF Cached, Central, Batches, ToCarve
<1>3. ~FetchPad(t)
  BY DEF Unsqueezed, FetchPad
<1>4. /\ pc \in [Thread -> {"idle"} \cup InFetch \cup InSqueeze]
      /\ mem \in [Thread -> mapped \cup {NULL}]
  BY DEF Types, ChunkTypes
<1>5. /\ pc[t] # "install"
      /\ \A u \in Thread \ {t} : pc'[u] = pc[u] /\ mem'[u] = mem[u]
  BY <1>3, <1>4 DEF MallocNew, Fetching, FetchSystem, FetchFails, Prepare
<1>6. \A b : Coming(b) => Coming(b)'
  BY <1>5 DEF Coming
<1>7. \A b \in Block : b[1] \in mapped' \ mapped => Coming(b)'
  <2>1. CASE FetchSystem(t)
    <3>1. PICK c \in Chunk \ mapped : Prepare(t, c) /\ mapped' = mapped \cup {c}
      BY <2>1 DEF FetchSystem
    <3>2. pc'[t] = "install" /\ mem'[t] = c
      BY <1>4, <3>1 DEF Prepare
    <3> QED
      BY <3>1, <3>2 DEF Coming
  <2>2. CASE MallocNew(t) \/ FetchFails(t)
    BY <2>2 DEF MallocNew, FetchFails
  <2> QED
    BY <1>3, <2>1, <2>2
<1> QED
  BY <1>1, <1>2, <1>6, <1>7, SMTT(30) DEF AllHeld, Held

\* In a class whose chunks are one batch no chunk is ever left to be carved.
NoneLeft == NumBlocks <= BATCH => lastChunk = <<>>

\* A chunk that is installed: its blocks are the application's, the thread's, or at its
\* end, which is hooked to what is left of others.
LEMMA InstallHeld ==
  ASSUME Types, SmallInv, NoneLeft, AllHeld, NEW t \in Thread, Install(t)
  PROVE  AllHeld'
<1> SUFFICES ASSUME NEW b \in Block, Held(b)
             PROVE  Held(b)'
  BY DEF AllHeld, Install
<1>1. PICK c, n : c = mem[t] /\ n = Min2(NumBlocks, BATCH)
  OBVIOUS
<1>2. PICK list : list = Carved(c, 1, n)
  OBVIOUS
<1>3. /\ pc[t] = "install" /\ UNCHANGED <<tempList, firstBatch, ccFreeList>>
      /\ pc' = [pc EXCEPT ![t] = "idle"] /\ mem' = [mem EXCEPT ![t] = NULL]
      /\ Receive(t, list) /\ lastChunk' = Hooked(c, NumBlocks - n)
  BY <1>1, <1>2 DEF Install, listVars
<1>4. /\ freeList[t] = <<>> /\ c \in Chunk /\ lastChunk \in Seq(UncarvedEntry)
      /\ pc \in [Thread -> {"idle"} \cup InFetch \cup InSqueeze]
      /\ mem \in [Thread -> mapped \cup {NULL}]
  BY <1>1, <1>3 DEF Types, ListTypes, ChunkTypes, InFetch
<1>5. /\ n \in Nat /\ n >= 1 /\ n <= NumBlocks /\ NumBlocks \in Nat
      /\ n = NumBlocks => NumBlocks <= BATCH
  BY <1>1, LtAllocAssumption DEF Min2
<1>6. list \in Seq(Block) /\ list # <<>>
  <2>1. list \in Seq(Block) /\ Len(list) = n
    BY <1>2, <1>4, <1>5, CarvedList
  <2> QED
    BY <1>5, <2>1
<1>7. b[2] \in 1 .. NumBlocks /\ b = <<b[1], b[2]>>
  BY DEF Block
<1>8. ToCarve(b) => ToCarve(b)'
  <2> SUFFICES ASSUME NEW i \in 1 .. Len(lastChunk), b[1] = lastChunk[i].chunk,
                      b[2] > NumBlocks - lastChunk[i].left
               PROVE  ToCarve(b)'
    BY DEF ToCarve
  <2>1. NumBlocks - n # 0
    BY <1>4, <1>5 DEF NoneLeft
  <2>2. lastChunk' = <<[chunk |-> c, left |-> NumBlocks - n]>> \o lastChunk
    BY <1>3, <2>1 DEF Hooked
  <2>3. i + 1 \in 1 .. Len(lastChunk') /\ lastChunk'[i + 1] = lastChunk[i]
    BY <1>4, <2>2
  <2> QED
    BY <2>3 DEF ToCarve
<1>9. Coming(b) => On(list, b) \/ ToCarve(b)' \/ Coming(b)'
  <2> SUFFICES ASSUME NEW u \in Thread, pc[u] = "install", mem[u] = b[1]
               PROVE  On(list, b) \/ ToCarve(b)' \/ Coming(b)'
    BY DEF Coming
  <2>1. CASE u # t
    <3>1. pc'[u] = pc[u] /\ mem'[u] = mem[u]
      BY <1>3, <1>4, <2>1
    <3> QED
      BY <3>1 DEF Coming
  <2>2. CASE u = t /\ b[2] \in 1 .. 1 + n - 1
    <3>1. On(list, <<b[1], b[2]>>)
      BY <1>1, <1>2, <1>5, <2>2, CarvedOn
    <3> QED
      BY <1>7, <3>1
  <2>3. CASE u = t /\ b[2] \notin 1 .. 1 + n - 1
    <3>1. PICK m : m = b[2]
      OBVIOUS
    <3>2. m \in 1 .. NumBlocks /\ m \notin 1 .. 1 + n - 1
      BY <1>7, <2>3, <3>1
    <3>3. NumBlocks - n # 0 /\ m > NumBlocks - (NumBlocks - n)
      BY <1>5, <3>2
    <3>4. lastChunk' = <<[chunk |-> c, left |-> NumBlocks - n]>> \o lastChunk
      BY <1>3, <3>3 DEF Hooked
    <3>5. /\ 1 \in 1 .. Len(lastChunk') /\ lastChunk'[1].chunk = c
          /\ lastChunk'[1].left = NumBlocks - n
      BY <1>4, <3>4
    <3> QED
      BY <1>1, <2>3, <3>1, <3>3, <3>5 DEF ToCarve
  <2> QED
    BY <2>1, <2>2, <2>3
<1>10. Central(b) => Central(b)'
  <2>1. CASE ~CHUNK_IS_SMALL
    <3>1. chunks' = chunks
      BY <2>1 DEF Install
    <3> QED
      BY <1>3, <3>1 DEF Central, Batches
  <2>2. CASE CHUNK_IS_SMALL
    <3>1. PICK new : new = [chunk |-> c, batches |-> <<>>]
      OBVIOUS
    <3>2. PICK p : p = chunkWithFreeBatches + 1
      OBVIOUS
    <3>3. chunks' = InsertAt(chunks, p, new)
      BY <1>1, <2>2, <3>1, <3>2 DEF Install, PlaceOfNew
    <3>4. new \in ArrayEntry /\ chunks \in Seq(ArrayEntry)
      <4>1. <<>> \in Seq(Seq(Block))
        OBVIOUS
      <4> QED
        BY <1>4, <3>1, <4>1 DEF ArrayEntry, Types, ArrayTypes
    <3>5. p \in 1 .. Len(chunks) + 1
      BY <2>2, <3>2, <3>4 DEF SmallInv, Arrays
    <3>6. /\ Len(chunks') = Len(chunks) + 1
          /\ \A i \in 1 .. p - 1 : chunks'[i] = chunks[i]
          /\ \A i \in p + 1 .. Len(chunks) + 1 : chunks'[i] = chunks[i - 1]
      BY <3>3, <3>4, <3>5, Inserted
    <3>7. ASSUME NEW i \in 1 .. Len(chunks)
          PROVE  \E j \in 1 .. Len(chunks') : chunks'[j] = chunks[i]
      <4>1. CASE i < p
        <5>1. i \in 1 .. p - 1 /\ i \in 1 .. Len(chunks')
          BY <3>4, <3>5, <3>6, <4>1
        <5> QED
          BY <3>6, <5>1
      <4>2. CASE i >= p
        <5>1. PICK j : j = i + 1
          OBVIOUS
        <5>2. j \in p + 1 .. Len(chunks) + 1 /\ j \in 1 .. Len(chunks') /\ j - 1 = i
          BY <3>4, <3>5, <3>6, <4>2, <5>1
        <5> QED
          BY <3>6, <5>2
      <4> QED
        BY <3>5, <4>1, <4>2
    <3>8. ASSUME NEW i \in 1 .. Len(chunks), NEW k \in 1 .. Len(Batches(i)), On(Batches(i)[k], b)
          PROVE  Central(b)'
      <4>1. PICK j \in 1 .. Len(chunks') : chunks'[j] = chunks[i]
        BY <3>7
      <4>2. Batches(j)' = Batches(i)
        BY <4>1 DEF Batches
      <4> QED
        BY <3>8, <4>2, Zenon DEF Central
    <3> QED
      BY <1>3, <3>8 DEF Central
  <2> QED
    BY <2>1, <2>2
<1>11. CASE ToCarve(b)'
  BY <1>11 DEF Held
<1>12. CASE ~ToCarve(b)'
  BY <1>3, <1>4, <1>6, <1>8, <1>9, <1>10, <1>12, ReceivedHeld, StillHeld
<1> QED
  BY <1>11, <1>12

\* A block that is freed is put on the cache of the thread, which moves on when it is full.
LEMMA FreeHeld ==
  ASSUME Types, AllHeld, NEW t \in Thread, Free(t) \/ FreeAndMove(t),
         CHUNK_IS_SMALL /\ tempList[t] # <<>> => RoomAt \in 1 .. Len(chunks)
  PROVE  AllHeld'
<1> SUFFICES ASSUME NEW b \in Block, Held(b)
             PROVE  Held(b)'
  BY DEF AllHeld, Free, FreeAndMove, Rest
<1>1. /\ users \in [Block -> {0, 1}] /\ freeList \in [Thread -> Seq(Block)]
      /\ tempList \in [Thread -> Seq(Block)]
  BY DEF Types, ListTypes
<1>2. UNCHANGED <<ccFreeList, lastChunk, pc, mem>>
  BY DEF Free, FreeAndMove, Rest, listVars
<1>3. /\ ToCarve(b)' <=> ToCarve(b)
      /\ Coming(b)' <=> Coming(b)
  BY <1>2 DEF ToCarve, Coming
<1>4. CASE Free(t)
  <2>1. PICK f \in Block : GiveBack(f) /\ freeList' = [freeList EXCEPT ![t] = <<f>> \o @]
    BY <1>4 DEF Free
  <2>2. /\ users' = [users EXCEPT ![f] = 0] /\ UNCHANGED <<tempList, firstBatch, chunks>>
        /\ freeList'[t] = <<f>> \o freeList[t]
        /\ \A u \in Thread \ {t} : freeList'[u] = freeList[u]
    BY <1>1, <1>4, <2>1 DEF Free, GiveBack, batchVars
  <2>3. \A x : x = f \/ On(freeList[t], x) => On(freeList'[t], x)
    <3>1. PICK one : one = <<f>>
      OBVIOUS
    <3>2. one \in Seq(Block) /\ freeList[t] \in Seq(Block)
      BY <1>1, <3>1
    <3>3. On(one, f)
      <4>1. 1 \in 1 .. Len(one) /\ one[1] = f
        BY <3>1
      <4> QED
        BY <4>1 DEF On
    <3>4. \A x : x = f \/ On(freeList[t], x) => On(one \o freeList[t], x)
      BY <3>2, <3>3, OnJoined, Zenon
    <3> QED
      BY <2>2, <3>1, <3>4
  <2>4. users[b] > 0 => users'[b] > 0 \/ b = f
    BY <1>1, <2>2
  <2>5. Cached(b) \/ b = f => Cached(b)'
    BY <2>2, <2>3 DEF Cached
  <2>6. Central(b)' <=> Central(b)
    BY <2>2 DEF Central, Batches
  <2> QED
    BY <1>2, <1>3, <2>4, <2>5, <2>6 DEF Held
<1>5. CASE FreeAndMove(t)
  <2>1. PICK f \in Block : GiveBack(f) /\ freeList' = [freeList EXCEPT ![t] = <<f>>]
    BY <1>5 DEF FreeAndMove
  <2>2. /\ users' = [users EXCEPT ![f] = 0] /\ freeList'[t] = <<f>> /\ tempList'[t] = freeList[t]
        /\ \A u \in Thread \ {t} : freeList'[u] = freeList[u] /\ tempList'[u] = tempList[u]
        /\ AddBatch(tempList[t]) /\ tempList[t] \in Seq(Block)
    BY <1>1, <1>5, <2>1 DEF FreeAndMove, GiveBack, Aside
  <2>3. On(freeList'[t], f)
    <3>1. 1 \in 1 .. Len(<<f>>) /\ <<f>>[1] = f
      OBVIOUS
    <3> QED
      BY <2>2, <3>1 DEF On
  <2>4. users[b] > 0 => users'[b] > 0 \/ b = f
    BY <1>1, <2>2
  <2>5. Central(b) \/ On(tempList[t], b) => Central(b)'
    BY <2>2, AddedHeld
  <2>6. Cached(b) \/ b = f => Cached(b)' \/ Central(b)'
    <3>1. ASSUME NEW u \in Thread, u # t, On(freeList[u], b) \/ On(tempList[u], b)
          PROVE  Cached(b)'
      BY <2>2, <3>1 DEF Cached
    <3>2. CASE On(freeList[t], b) \/ b = f
      BY <2>2, <2>3, <3>2 DEF Cached
    <3> QED
      BY <2>5, <3>1, <3>2 DEF Cached
  <2> QED
    BY <1>2, <1>3, <2>4, <2>5, <2>6 DEF Held
<1> QED
  BY <1>4, <1>5

\* A thread that ends leaves its lists to the central cache.
LEMMA ExitHeld ==
  ASSUME Types, AllHeld, NEW t \in Thread, Exit(t),
         CHUNK_IS_SMALL /\ tempList[t] # <<>> => RoomAt \in 1 .. Len(chunks)
  PROVE  AllHeld'
<1> SUFFICES ASSUME NEW b \in Block, Held(b)
             PROVE  Held(b)'
  BY DEF AllHeld, Exit, Rest
<1>1. /\ freeList \in [Thread -> Seq(Block)] /\ tempList \in [Thread -> Seq(Block)]
      /\ ccFreeList \in Seq(Block)
  BY DEF Types, ListTypes
<1>2. /\ UNCHANGED <<users, lastChunk, pc, mem>> /\ AddBatch(tempList[t])
      /\ ccFreeList' = freeList[t] \o ccFreeList
      /\ \A u \in Thread \ {t} : freeList'[u] = freeList[u] /\ tempList'[u] = tempList[u]
      /\ tempList[t] \in Seq(Block) /\ freeList[t] \in Seq(Block)
  BY <1>1 DEF Exit, Rest
<1>3. /\ ToCarve(b)' <=> ToCarve(b)
      /\ Coming(b)' <=> Coming(b)
  BY <1>2 DEF ToCarve, Coming
<1>4. Central(b) \/ On(tempList[t], b) => Central(b)'
  BY <1>2, AddedHeld
<1>5. On(ccFreeList, b) \/ On(freeList[t], b) => On(ccFreeList', b)
  BY <1>1, <1>2, OnJoined
<1>6. ASSUME NEW u \in Thread, u # t, On(freeList[u], b) \/ On(tempList[u], b)
      PROVE  Cached(b)'
  BY <1>2, <1>6 DEF Cached
<1> QED
  BY <1>2, <1>3, <1>4, <1>5, <1>6 DEF Held, Cached

\* Every step keeps each block of a chunk in service in one of its places.
LEMMA NextHeld ==
  ASSUME Inv, SmallInv, Unsqueezed, NoneLeft, AllHeld, Squeezer = {}, NEW t \in Thread,
         \/ Malloc(t) \/ Free(t) \/ FreeAndMove(t) \/ Exit(t) \/ SqueezeDetach(t) \/ Squeeze(t)
         \/ FetchFails(t)
  PROVE  Unsqueezed' /\ NoneLeft' /\ AllHeld'
<1>0. Types /\ pc[t] \notin InSqueeze /\ pc \in [Thread -> {"idle"} \cup InFetch \cup InSqueeze]
  BY DEF Inv, Types, ChunkTypes, Unsqueezed
<1>1. ~SqueezeDetach(t) /\ ~Squeeze(t)
  BY <1>0 DEF SqueezeDetach, Squeeze, SqueezeReturn, PutOff, Unmap, InSqueeze
<1>2. CHUNK_IS_SMALL /\ tempList[t] # <<>> => RoomAt \in 1 .. Len(chunks)
  BY RoomForBatch DEF SmallInv
<1>3. AllHeld'
  <2>1. CASE MallocCached(t) \/ MallocTemp(t) \/ MallocBatch(t) \/ MallocList(t)
    BY <1>0, <2>1, CacheHeld, BatchHeld, ListHeld
  <2>2. CASE MallocCarve(t) \/ MallocNew(t) \/ FetchPad(t) \/ FetchSystem(t) \/ FetchFails(t)
    BY <1>0, <2>2, CarveHeld, NewHeld
  <2>3. CASE Install(t)
    BY <1>0, <2>3, InstallHeld
  <2>4. CASE Free(t) \/ FreeAndMove(t) \/ Exit(t)
    BY <1>0, <1>2, <2>4, FreeHeld, ExitHeld
  <2> QED
    BY <1>1, <2>1, <2>2, <2>3, <2>4 DEF Malloc
<1>4. Unsqueezed'
  <2>1. CASE UNCHANGED <<pad, pc>>
    BY <2>1 DEF Unsqueezed
  <2>2. CASE /\ pad' = pad
             /\ \E where \in {"idle", "chunk", "install"} : pc' = [pc EXCEPT ![t] = where]
    BY <1>0, <2>2 DEF Unsqueezed, InSqueeze
  <2>3. ~FetchPad(t)
    BY DEF Unsqueezed, FetchPad
  <2>4. CASE MallocNew(t) \/ FetchSystem(t) \/ FetchFails(t) \/ Install(t)
    BY <2>2, <2>4 DEF MallocNew, FetchSystem, FetchFails, Install, Prepare, padVars
  <2>5. CASE MallocCached(t) \/ MallocTemp(t) \/ MallocBatch(t) \/ MallocList(t) \/ MallocCarve(t)
    BY <2>1, <2>5 DEF MallocCached, MallocTemp, MallocBatch, MallocList, MallocCarve, padVars
  <2>6. CASE Free(t) \/ FreeAndMove(t) \/ Exit(t)
    BY <2>1, <2>6 DEF Free, FreeAndMove, Exit, Rest, padVars
  <2> QED
    BY <1>1, <2>3, <2>4, <2>5, <2>6 DEF Malloc
<1>5. NoneLeft'
  <2> SUFFICES ASSUME NumBlocks <= BATCH
               PROVE  lastChunk' = <<>>
    BY DEF NoneLeft
  <2>1. lastChunk = <<>> /\ ~MallocCarve(t)
    BY DEF NoneLeft, MallocCarve
  <2>2. CASE Install(t)
    <3>1. NumBlocks - Min2(NumBlocks, BATCH) = 0
      BY LtAllocAssumption DEF Min2
    <3> QED
      BY <2>2, <3>1 DEF Install, Hooked
  <2>3. CASE UNCHANGED lastChunk
    BY <2>1, <2>3
  <2>4. CASE MallocNew(t) \/ FetchPad(t) \/ FetchSystem(t) \/ FetchFails(t)
    BY <2>3, <2>4 DEF MallocNew, FetchPad, FetchSystem, FetchFails, Prepare
  <2>5. CASE MallocCached(t) \/ MallocTemp(t) \/ MallocBatch(t) \/ MallocList(t)
    BY <2>3, <2>5 DEF MallocCached, MallocTemp, MallocBatch, MallocList
  <2>6. CASE Free(t) \/ FreeAndMove(t) \/ Exit(t)
    BY <2>3, <2>6 DEF Free, FreeAndMove, Exit, Rest
  <2> QED
    BY <1>1, <2>1, <2>2, <2>4, <2>5, <2>6 DEF Malloc
<1> QED
  BY <1>3, <1>4, <1>5

\* What all blocks have is kept when nothing happens.
LEMMA StutterHeld ==
  ASSUME Unsqueezed, NoneLeft, AllHeld, UNCHANGED vars
  PROVE  Unsqueezed' /\ NoneLeft' /\ AllHeld'
<1>1. UNCHANGED <<freeList, tempList, firstBatch, chunks, ccFreeList, lastChunk, pad, mapped,
                  pc, mem, users>>
  BY DEF vars, cacheVars, batchVars, listVars, padVars
<1>2. \A b : Held(b)' <=> Held(b)
  <2> TAKE b
  <2>1. Cached(b)' <=> Cached(b)
    BY <1>1 DEF Cached
  <2>2. Central(b)' <=> Central(b)
    BY <1>1 DEF Central, Batches
  <2>3. (ToCarve(b)' <=> ToCarve(b)) /\ (Coming(b)' <=> Coming(b))
    BY <1>1 DEF ToCarve, Coming
  <2> QED
    BY <1>1, <2>1, <2>2, <2>3 DEF Held
<1>3. AllHeld'
  BY <1>1, <1>2 DEF AllHeld
<1> QED
  BY <1>1, <1>3 DEF Unsqueezed, NoneLeft

\* At first no chunk is in service.
LEMMA InitHeld ==
  ASSUME Init
  PROVE  Unsqueezed /\ NoneLeft /\ AllHeld
BY DEF Init, Unsqueezed, NoneLeft, AllHeld, InSqueeze

\* Every thread is among the threads in their order.
LEMMA ThreadsAll ==
  \A t \in Thread : \E i \in 1 .. Len(Threads) : Threads[i] = t
<1>1. /\ Threads \in Seq(Thread) /\ Len(Threads) \in Nat /\ DOMAIN Threads = 1 .. Len(Threads)
      /\ \A i, j \in 1 .. Len(Threads) : Threads[i] = Threads[j] => i = j
  BY ThreadsOnce
<1>2. IsFiniteSet(Thread)
  BY LtAllocAssumption
<1>3. Threads \in [1 .. Cardinality(Thread) -> Thread]
  <2> DEFINE n == Cardinality(Thread)
  <2>1. n \in Nat /\ \E f : f \in Bijection(1 .. n, Thread)
    BY <1>2, FS_CardinalityType DEF ExistsBijection
  <2>2. \E g \in [1 .. n -> Thread] : IsInjective(g)
    BY <2>1 DEF Bijection, Injection, IsInjective
  <2> HIDE DEF n
  <2>3. Threads \in [1 .. n -> Thread]
    BY <2>2 DEF Threads, SetToSeq, n
  <2> QED
    BY <2>3 DEF n
<1>4. PICK n \in Nat : n = Cardinality(Thread)
  BY <1>2, FS_CardinalityType
<1>5. Threads \in [1 .. n -> Thread] /\ Len(Threads) = n
  BY <1>1, <1>3, <1>4
<1>6. PICK f : f = Threads
  OBVIOUS
<1>7. f \in Injection(1 .. n, Thread)
  BY <1>1, <1>5, <1>6 DEF Injection, IsInjective
<1>8. Cardinality(1 .. n) = n
  BY CountTo
<1>9. f \in Surjection(1 .. n, Thread)
  BY <1>2, <1>4, <1>7, <1>8, FS_Injection
<1> QED
  BY <1>5, <1>6, <1>9 DEF Surjection

\* What two sequences of lists have, their concatenation has.
LEMMA JointOfBoth ==
  ASSUME NEW S, NEW ss \in Seq(S), NEW uu \in Seq(S), NEW all, all = ss \o uu
  PROVE  all \in Seq(S) /\ Joint(ss) \subseteq Joint(all) /\ Joint(uu) \subseteq Joint(all)
<1>1. /\ all \in Seq(S) /\ Len(all) = Len(ss) + Len(uu) /\ Len(ss) \in Nat /\ Len(uu) \in Nat
      /\ \A i \in 1 .. Len(ss) : all[i] = ss[i]
      /\ \A i \in 1 .. Len(uu) : all[Len(ss) + i] = uu[i]
  OBVIOUS
<1>2. ASSUME NEW i \in 1 .. Len(ss)
      PROVE  ToSet(ss[i]) \subseteq Joint(all)
  <2>1. i \in 1 .. Len(all) /\ all[i] = ss[i]
    BY <1>1
  <2> QED
    BY <2>1, InJoint
<1>3. ASSUME NEW i \in 1 .. Len(uu)
      PROVE  ToSet(uu[i]) \subseteq Joint(all)
  <2>1. PICK j : j = Len(ss) + i
    OBVIOUS
  <2>2. j \in 1 .. Len(all) /\ all[j] = uu[i]
    BY <1>1, <2>1
  <2> QED
    BY <2>2, InJoint
<1> QED
  BY <1>1, <1>2, <1>3, JointWithin

\* What is on the list of one thread is on the lists of all.
LEMMA EachHas ==
  ASSUME NEW f, \A t \in Thread : f[t] \in Seq(Block)
  PROVE  /\ EachOf(f) \in Seq(Seq(Block))
         /\ \A t \in Thread : ToSet(f[t]) \subseteq Joint(EachOf(f))
<1>1. /\ Len(Threads) \in Nat /\ DOMAIN Threads = 1 .. Len(Threads)
      /\ \A i \in 1 .. Len(Threads) : Threads[i] \in Thread
  BY ThreadsOnce
<1>2. PICK ss : ss = EachOf(f)
  OBVIOUS
<1>3. ss = [i \in 1 .. Len(Threads) |-> f[Threads[i]]]
  BY <1>1, <1>2 DEF EachOf
<1>4. /\ ss \in Seq(Seq(Block)) /\ Len(ss) = Len(Threads)
      /\ \A i \in 1 .. Len(Threads) : ss[i] = f[Threads[i]]
  BY <1>1, <1>3
<1>5. ASSUME NEW t \in Thread
      PROVE  ToSet(f[t]) \subseteq Joint(ss)
  <2>1. PICK i \in 1 .. Len(Threads) : Threads[i] = t
    BY ThreadsAll
  <2>2. i \in 1 .. Len(ss) /\ ss[i] = f[t]
    BY <1>4, <2>1
  <2> QED
    BY <2>2, InJoint
<1> QED
  BY <1>2, <1>4, <1>5

\* A block on a list is one of its elements.
LEMMA OnToSet ==
  ASSUME NEW S, NEW s \in Seq(S), NEW b, On(s, b)
  PROVE  b \in ToSet(s)
BY ToSetPlaces DEF On

\* Those of the central cache.
LEMMA CentralListed ==
  ASSUME Types, NEW b, Central(b)
  PROVE  b \in Joint(CentralBatches)
<1>1. PICK ss : ss = ArrayBatches
  OBVIOUS
<1>2. PICK all : all = CentralBatches
  OBVIOUS
<1>3. /\ ss \in Seq(Seq(Seq(Block))) /\ Len(ss) = Len(chunks)
      /\ \A i \in 1 .. Len(chunks) : ss[i] = Batches(i)
      /\ all = firstBatch \o FlattenSeq(ss) /\ firstBatch \in Seq(Seq(Block))
  BY <1>1, <1>2, CentralElements DEF Types, ListTypes
<1>4. PICK T : T = Seq(Block)
  OBVIOUS
<1>5. FlattenSeq(ss) \in Seq(T) /\ ToSet(FlattenSeq(ss)) = Joint(ss) /\ firstBatch \in Seq(T)
  BY <1>3, <1>4, FlattenType, FlattenElements
<1>6. /\ all \in Seq(T) /\ ToSet(all) = ToSet(firstBatch) \cup Joint(ss)
  BY <1>3, <1>5, ConcatElements
<1>7. ASSUME NEW B \in ToSet(all), On(B, b)
      PROVE  b \in Joint(all)
  <2>1. PICK n \in 1 .. Len(all) : B = all[n]
    BY <1>6, ToSetPlaces
  <2>2. all[n] \in Seq(Block)
    BY <1>4, <1>6
  <2>3. b \in ToSet(all[n])
    BY <1>7, <2>1, <2>2, OnToSet
  <2> QED
    BY <2>3, InJoint
<1>8. CASE \E j \in 1 .. Len(firstBatch) : On(firstBatch[j], b)
  <2>1. PICK j \in 1 .. Len(firstBatch) : On(firstBatch[j], b)
    BY <1>8
  <2>2. firstBatch[j] \in ToSet(all)
    BY <1>5, <1>6, ToSetPlaces
  <2> QED
    BY <1>2, <1>7, <2>1, <2>2
<1>9. CASE \E i \in 1 .. Len(chunks) : \E j \in 1 .. Len(Batches(i)) : On(Batches(i)[j], b)
  <2>1. PICK i \in 1 .. Len(chunks) : \E j \in 1 .. Len(Batches(i)) : On(Batches(i)[j], b)
    BY <1>9
  <2>2. PICK j \in 1 .. Len(Batches(i)) : On(Batches(i)[j], b)
    BY <2>1
  <2>3. i \in 1 .. Len(ss) /\ ss[i] = Batches(i) /\ ss[i] \in Seq(T)
    BY <1>3, <1>4
  <2>4. Batches(i)[j] \in ToSet(ss[i])
    BY <2>3, ToSetPlaces
  <2>5. Batches(i)[j] \in Joint(ss)
    BY <2>3, <2>4, InJoint
  <2> QED
    BY <1>2, <1>6, <1>7, <2>2, <2>5
<1> QED
  BY <1>8, <1>9 DEF Central

\* Those at the end of chunks.
LEMMA UncarvedListed ==
  ASSUME Types, NEW b \in Block, ToCarve(b)
  PROVE  b \in Joint(Uncarved)
<1>1. PICK i \in 1 .. Len(lastChunk) :
         b[1] = lastChunk[i].chunk /\ b[2] > NumBlocks - lastChunk[i].left
  BY DEF ToCarve
<1>2. PICK c, left : c = lastChunk[i].chunk /\ left = lastChunk[i].left
  OBVIOUS
<1>3. /\ c \in Chunk /\ left \in 1 .. NumBlocks /\ NumBlocks \in Nat /\ Len(lastChunk) \in Nat
  <2>1. lastChunk[i] \in UncarvedEntry /\ lastChunk \in Seq(UncarvedEntry)
    BY DEF Types, ListTypes
  <2> QED
    BY <1>2, <2>1, LtAllocAssumption DEF UncarvedEntry
<1>4. PICK first : first = NumBlocks - left + 1
  OBVIOUS
<1>5. /\ first \in Nat /\ first >= 1 /\ left \in Nat /\ first + left - 1 <= NumBlocks
      /\ b[2] \in first .. first + left - 1 /\ b = <<b[1], b[2]>>
  <2>1. b[2] \in 1 .. NumBlocks /\ b = <<b[1], b[2]>>
    BY DEF Block
  <2> QED
    BY <1>1, <1>2, <1>3, <1>4, <2>1
<1>6. Carved(c, first, left) \in Seq(Block)
  BY <1>3, <1>5, CarvedList
<1>7. On(Carved(c, first, left), b)
  BY <1>1, <1>2, <1>5, CarvedOn
<1>8. b \in ToSet(Carved(c, first, left))
  BY <1>6, <1>7, OnToSet
<1>9. PICK ss : ss = Uncarved
  OBVIOUS
<1>10. i \in 1 .. Len(ss) /\ ss[i] = Carved(c, first, left)
  <2> DEFINE at(k) == Carved(lastChunk[k].chunk, NumBlocks - lastChunk[k].left + 1,
                             lastChunk[k].left)
  <2>1. ss = [k \in 1 .. Len(lastChunk) |-> at(k)] /\ at(i) = Carved(c, first, left)
    BY <1>2, <1>4, <1>9 DEF Uncarved
  <2> HIDE DEF at
  <2> QED
    BY <1>3, <2>1
<1> QED
  BY <1>8, <1>9, <1>10, InJoint

\* A block that is held is with the application or listed, unless its chunk is coming.
LEMMA HeldListed ==
  ASSUME Inv, Unsqueezed, AllHeld
  PROVE  NothingLost
<1>0. Types
  BY DEF Inv
<1>1. PICK kind, who : Account(kind, who)
  BY DEF Inv, Accounted
<1>2. PICK g : g = [t \in Thread |-> IF detached[t] = NULL THEN <<>>
                                      ELSE DetachedBlocks(detached[t])]
  OBVIOUS
<1>3. AllLists = CentralBatches \o <<ccFreeList>> \o EachOf(freeList) \o EachOf(tempList)
                 \o EachOf(g) \o Uncarved
  BY <1>2 DEF AllLists, EachOf, Uncarved
<1>4. PICK a, b, c, d, e : /\ a = CentralBatches \o <<ccFreeList>> /\ b = a \o EachOf(freeList)
                           /\ c = b \o EachOf(tempList) /\ d = c \o EachOf(g) /\ e = d \o Uncarved
  OBVIOUS
<1>5. PICK T : T = Seq(Block)
  OBVIOUS
<1>6. CentralBatches \in Seq(T) /\ Uncarved \in Seq(T)
  BY <1>1, <1>5, CentralOfKinds, UncarvedOfKinds DEF OfKinds
<1>7. /\ EachOf(freeList) \in Seq(T) /\ EachOf(tempList) \in Seq(T)
      /\ \A t \in Thread : /\ ToSet(freeList[t]) \subseteq Joint(EachOf(freeList))
                           /\ ToSet(tempList[t]) \subseteq Joint(EachOf(tempList))
      /\ \A t \in Thread : freeList[t] \in Seq(Block) /\ tempList[t] \in Seq(Block)
      /\ ccFreeList \in Seq(Block)
  <2>1. \A t \in Thread : freeList[t] \in Seq(Block) /\ tempList[t] \in Seq(Block)
    BY <1>0 DEF Types, ListTypes
  <2>2. ccFreeList \in Seq(Block)
    BY <1>0 DEF Types, ListTypes
  <2> QED
    BY <1>5, <2>1, <2>2, EachHas
<1>8. EachOf(g) \in Seq(T)
  <2>1. ASSUME NEW t \in Thread
        PROVE  g[t] \in Seq(Block)
    <3>1. detached[t] = NULL
      BY <1>0 DEF Unsqueezed, Types, ChunkTypes
    <3>2. g[t] = <<>>
      BY <1>2, <3>1
    <3> QED
      BY <3>2
  <2> QED
    BY <1>5, <2>1, EachHas
<1>9. <<ccFreeList>> \in Seq(T) /\ ToSet(ccFreeList) \subseteq Joint(<<ccFreeList>>)
  <2>1. PICK one : one = <<ccFreeList>>
    OBVIOUS
  <2>2. one \in Seq(T) /\ 1 \in 1 .. Len(one) /\ one[1] = ccFreeList
    BY <1>5, <1>7, <2>1
  <2>3. ToSet(one[1]) \subseteq Joint(one)
    BY <2>2, InJoint
  <2> QED
    BY <2>1, <2>2, <2>3
<1>10. /\ a \in Seq(T) /\ Joint(CentralBatches) \subseteq Joint(a)
       /\ ToSet(ccFreeList) \subseteq Joint(a)
  <2>1. /\ a \in Seq(T) /\ Joint(CentralBatches) \subseteq Joint(a)
        /\ Joint(<<ccFreeList>>) \subseteq Joint(a)
    BY <1>4, <1>6, <1>9, JointOfBoth, Zenon
  <2> QED
    BY <1>9, <2>1
<1>11. /\ b \in Seq(T) /\ Joint(a) \subseteq Joint(b) /\ Joint(EachOf(freeList)) \subseteq Joint(b)
  BY <1>4, <1>7, <1>10, JointOfBoth, Zenon
<1>12. /\ c \in Seq(T) /\ Joint(b) \subseteq Joint(c) /\ Joint(EachOf(tempList)) \subseteq Joint(c)
  BY <1>4, <1>7, <1>11, JointOfBoth, Zenon
<1>13. /\ d \in Seq(T) /\ Joint(c) \subseteq Joint(d)
  BY <1>4, <1>8, <1>12, JointOfBoth, Zenon
<1>14. /\ e \in Seq(T) /\ Joint(d) \subseteq Joint(e) /\ Joint(Uncarved) \subseteq Joint(e)
  BY <1>4, <1>6, <1>13, JointOfBoth, Zenon
<1>15. Listed = Joint(e)
  <2>1. e = AllLists /\ DOMAIN e = 1 .. Len(e)
    BY <1>3, <1>4, <1>14
  <2> QED
    BY <2>1 DEF Listed, Joint
<1>16. ASSUME NEW x \in Block, x[1] \in mapped \ Idle
       PROVE  users[x] > 0 \/ x \in Joint(e)
  <2>1. Held(x)
    BY <1>16 DEF AllHeld
  <2>2. ~Coming(x)
    <3>1. ASSUME NEW t \in Thread, pc[t] = "install", mem[t] = x[1]
          PROVE  FALSE
      <4>1. mem[t] # NULL
        BY <1>0, <3>1, LtAllocAssumption DEF Types, ChunkTypes
      <4> QED
        BY <1>16, <3>1, <4>1 DEF Idle
    <3> QED
      BY <3>1 DEF Coming
  <2>3. CASE Cached(x)
    <3>1. PICK t \in Thread : On(freeList[t], x) \/ On(tempList[t], x)
      BY <2>3 DEF Cached
    <3>2. x \in ToSet(freeList[t]) \/ x \in ToSet(tempList[t])
      BY <1>7, <3>1, OnToSet
    <3> QED
      BY <1>7, <1>11, <1>12, <1>13, <1>14, <3>2
  <2>4. CASE Central(x)
    <3>1. x \in Joint(CentralBatches)
      BY <1>0, <2>4, CentralListed
    <3> QED
      BY <1>10, <1>11, <1>12, <1>13, <1>14, <3>1
  <2>5. CASE On(ccFreeList, x)
    <3>1. x \in ToSet(ccFreeList)
      BY <1>7, <2>5, OnToSet
    <3> QED
      BY <1>10, <1>11, <1>12, <1>13, <1>14, <3>1
  <2>6. CASE ToCarve(x)
    <3>1. x \in Joint(Uncarved)
      BY <1>0, <2>6, UncarvedListed
    <3> QED
      BY <1>14, <3>1
  <2> QED
    BY <2>1, <2>2, <2>3, <2>4, <2>5, <2>6 DEF Held
<1> QED
  BY <1>15, <1>16 DEF NothingLost

\* Where ltsqueeze does not run, no block is lost: every block of a chunk in service is
\* with the application or on a list, whatever batches are split off, moved and fetched.
THEOREM NothingLostTheorem ==
  ASSUME Squeezer = {}
  PROVE  Spec => []NothingLost
<1> DEFINE J == Unsqueezed /\ NoneLeft /\ AllHeld
<1>1. Init => J
  BY InitHeld
<1>2. IInv /\ J /\ [Next]_vars => J'
  <2>1. IInv => Inv /\ SmallInv
    BY DEF IInv, SmallInv
  <2> QED
    BY <2>1, NextHeld, StutterHeld DEF Next
<1>3. IInv /\ J => NothingLost
  BY HeldListed DEF IInv
<1> HIDE DEF J
<1> QED
  BY <1>1, <1>2, <1>3, IInvTheorem, PTL DEF Spec

\* In a large class not even where the system refuses memory.
THEOREM NothingLostRefused ==
  ASSUME Squeezer = {}, ~CHUNK_IS_SMALL
  PROVE  RefusingSpec => []NothingLost
<1> DEFINE J == Unsqueezed /\ NoneLeft /\ AllHeld
<1>1. Init => J
  BY InitHeld
<1>2. Inv /\ J /\ [NextOrRefused]_vars => J'
  BY NextHeld, StutterHeld DEF NextOrRefused, Next, SmallInv
<1>3. Inv /\ J => NothingLost
  BY HeldListed
<1> HIDE DEF J
<1> QED
  BY <1>1, <1>2, <1>3, InvRefusedTheorem, PTL DEF RefusingSpec
=============================================================================
