------------------------------ MODULE MCLtAlloc ------------------------------
(* Instances of LtAlloc, for large classes.  Chunk addresses are numbers, as  *)
(* ltsqueeze compares them; threads are told apart only by equality.          *)
EXTENDS LtAlloc
CONSTANTS t1, t2
ThreadSymmetry == Permutations(Thread)

(* A view of the state that tells apart only what the program tells apart: a  *)
(* free block counts as one of its chunk, so that states that differ by an    *)
(* exchange of carved blocks of a chunk are one.  Every action treats such    *)
(* blocks alike, as long as each is in one place; whether it is belongs to    *)
(* the view.                                                                  *)
ChunksOf(list) == [k \in DOMAIN list |-> list[k][1]]
ChunksIn(batches) == [j \in DOMAIN batches |-> ChunksOf(batches[j])]
InUse == [c \in Chunk |-> Cardinality({i \in 1 .. NumBlocks : users[<<c, i>>] > 0})]
ByChunk ==
    <<[t \in Thread |-> <<ChunksOf(freeList[t]), ChunksOf(tempList[t])>>], counter,
      ChunksIn(firstBatch), chunks, ChunksOf(ccFreeList), freeListSize, lastChunk,
      addrVars, padVars, mapped, pc, mem, releasing,
      [t \in Thread |->
          IF detached[t] = NULL THEN NULL
          ELSE [detached[t] EXCEPT !.batches = ChunksIn(@), !.list = ChunksOf(@)]],
      InUse, InOnePlace>>
=============================================================================
