--------------------------- MODULE LtAllocClasses ---------------------------
(***************************************************************************)
(* The two kinds of size classes of ltalloc, which share code but keep     *)
(* their batches in different places: those of the large classes are a     *)
(* list, threaded through the blocks; those of the small classes stand in  *)
(* arrays at the start of the chunks, since their blocks are too small for *)
(* a second link.  A behaviour runs a class of one kind.  The system may   *)
(* refuse memory to a large class; a small one is taken while it does not, *)
(* since after that there may be more batches than slots.                  *)
(***************************************************************************)
EXTENDS Integers, Sequences, FiniteSets

CONSTANTS
    Thread, NUM_OF_BATCHES, Squeezer, PadSize, NULL,
    LargeChunk, LargeNumBlocks, LargeBATCH,
    SmallChunk, SmallNumBlocks, SmallBATCH

VARIABLES
    isSmall,            \* CHUNK_IS_SMALL of the class that runs
    freeList, tempList, counter,
    firstBatch, chunks, chunkWithFreeBatches, ccFreeList, freeListSize, lastChunk,
    minChunkAddr, maxChunkAddr,
    pad, padSize, mapped, pc, mem, detached, releasing, users

\* LtAlloc, with what is proved of it.
large == INSTANCE LtAllocProofs WITH
    Chunk <- LargeChunk, NumBlocks <- LargeNumBlocks, BATCH <- LargeBATCH,
    CHUNK_IS_SMALL <- FALSE

small == INSTANCE LtAllocProofs WITH
    Chunk <- SmallChunk, NumBlocks <- SmallNumBlocks, BATCH <- SmallBATCH,
    CHUNK_IS_SMALL <- TRUE

ASSUME ClassesAssumption ==
    /\ Squeezer = {}
    /\ IsFiniteSet(Thread) /\ NUM_OF_BATCHES \in Nat
    /\ PadSize \subseteq Nat /\ IsFiniteSet(PadSize) /\ PadSize # {}
    /\ LargeChunk \subseteq Nat \ {0} /\ IsFiniteSet(LargeChunk) /\ NULL \notin LargeChunk
    /\ LargeNumBlocks \in Nat \ {0} /\ LargeBATCH \in Nat \ {0}
    /\ SmallChunk \subseteq Nat \ {0} /\ IsFiniteSet(SmallChunk) /\ NULL \notin SmallChunk
    /\ SmallNumBlocks \in Nat \ {0} /\ SmallBATCH \in Nat \ {0}
    /\ NUM_OF_BATCHES * SmallBATCH >= SmallNumBlocks

vars == <<isSmall, large!vars>>

Init == isSmall \in BOOLEAN /\ IF isSmall THEN small!Init ELSE large!Init

Next ==
    /\ UNCHANGED isSmall
    /\ \/ isSmall /\ small!Next
       \/ ~isSmall /\ large!NextOrRefused

Spec == Init /\ [][Next]_vars

-----------------------------------------------------------------------------
TypeOK == isSmall => small!TypeOK

\* A block is with the application, or once on one of the lists, whatever batches were
\* split off, moved and fetched by several threads.
InOnePlace == isSmall \/ large!InOnePlace

\* Every block of a chunk in service is with the application or on a list: no list is
\* dropped where one thread's section ends and another's begins.
NothingLost == IF isSmall THEN small!NothingLost ELSE large!NothingLost

\* The arrays of a small class fill up from the first chunk on, and with whole batches,
\* for which the counters of the caches vouch: so every batch that comes back finds a
\* place in them.
ArraysInOrder == isSmall => small!ArraysInOrder /\ small!CountersExact
=============================================================================
