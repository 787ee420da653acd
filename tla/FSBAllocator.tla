---------------------------- MODULE FSBAllocator ----------------------------
(***************************************************************************)
(* FSBAllocator, for elements of one size: a vector of blocks, each with a *)
(* list of its own free elements; behind every element stands the index of *)
(* its block.  A call holds the mutex throughout.  A memory is what new[]  *)
(* returned; an element of it is <<memory, position>>.                     *)
(***************************************************************************)
EXTENDS Integers, Sequences, FiniteSets, SequencesExt

CONSTANTS Memory, BlockElements, NULL

FSBAssumption == BlockElements \in Nat \ {0, 1} /\ NULL \notin Memory

VARIABLES
    data,               \* blocksVector.data: the MemBlocks
    blocksWithFree,     \* a stack of indices of data
    vectorIndex,        \* what is written behind every element
    used                \* the elements of the application

vars == <<data, blocksWithFree, vectorIndex, used>>

Element == Memory \X (0 .. BlockElements - 1)
Unallocated == Memory \ {data[i].block : i \in DOMAIN data}

EmptyBlock == [block |-> NULL, free |-> <<>>, allocated |-> 0, end |-> 0]

Init ==
    /\ data = <<>> /\ blocksWithFree = <<>>
    /\ vectorIndex = [e \in Element |-> 0]
    /\ used = {}

-----------------------------------------------------------------------------
isFull(b) == b.allocated = BlockElements

\* A new block is added when no block has a free element.
Grown ==
    IF blocksWithFree = <<>>
    THEN [data |-> Append(data, EmptyBlock), withFree |-> <<Len(data) + 1>>]
    ELSE [data |-> data, withFree |-> blocksWithFree]

\* MemBlock::allocate on the block whose turn it is: from its list, or the next
\* element of its memory, which is fetched first if the block has none.
Allocate ==
    LET index == Last(Grown.withFree)
        b     == Grown.data[index]
        Take(e, after) ==
            /\ used' = used \cup {e}
            /\ data' = [Grown.data EXCEPT ![index] = after]
            /\ blocksWithFree' = IF isFull(after) THEN Front(Grown.withFree) ELSE Grown.withFree
    IN  /\ \/ /\ b.free # <<>>
              /\ Take(<<b.block, Head(b.free)>>,
                      [b EXCEPT !.free = Tail(@), !.allocated = @ + 1])
              /\ UNCHANGED vectorIndex
           \/ /\ b.free = <<>>
              /\ \E m \in IF b.block = NULL THEN Unallocated ELSE {b.block} :
                    LET i == IF b.block = NULL THEN 0 ELSE b.end
                    IN  /\ Take(<<m, i>>, [b EXCEPT !.block = m, !.end = i + 1, !.allocated = @ + 1])
                        /\ vectorIndex' = [vectorIndex EXCEPT ![<<m, i>>] = index]

\* MemBlock::clear and MemBlock::deallocate of the x-th element: the memory of a block
\* without elements is deleted, the block stays in the vector.
Cleared_ListKept(b) == [b EXCEPT !.block = NULL]
Cleared(b) == [b EXCEPT !.block = NULL, !.free = <<>>]

Returned(b, x) ==
    LET after == [b EXCEPT !.free = <<x>> \o @, !.allocated = @ - 1]
    IN  IF after.allocated = 0 THEN Cleared(after) ELSE after

\* A block that was full goes back on the stack.
WithFree_Always(index) == Append(blocksWithFree, index)
WithFree(index) ==
    IF isFull(data[index]) THEN Append(blocksWithFree, index) ELSE blocksWithFree

Deallocate ==
    /\ \E e \in used :
          LET index == vectorIndex[e]
          IN  /\ used' = used \ {e}
              /\ blocksWithFree' = WithFree(index)
              /\ data' = [data EXCEPT ![index] = Returned(@, e[2])]
    /\ UNCHANGED vectorIndex

Next == Allocate \/ Deallocate

Spec == Init /\ [][Next]_vars

-----------------------------------------------------------------------------
\* The index behind an element in use leads to the block whose memory it is in, also
\* when that memory belonged to another block before.
FreedWhereItBelongs ==
    \A e \in used : vectorIndex[e] \in DOMAIN data /\ data[vectorIndex[e]].block = e[1]

\* Every element that was ever handed out of a memory still held is in use or on the
\* list of its block, once; none is in use of a memory given up.
Tiled ==
    /\ {e[1] : e \in used} \subseteq {data[i].block : i \in DOMAIN data}
    /\ \A i \in DOMAIN data :
          LET b    == data[i]
              here == IF b.block = NULL THEN {} ELSE {b.block} \X (0 .. b.end - 1)
          IN  /\ {<<b.block, x>> : x \in Range(b.free)} = here \ used
              /\ IsInjective(b.free)

\* The counters are exact, and the stack has each block with a free element once, so
\* that no block is lost when it fills and empties in any order.
CountersExact ==
    /\ \A i \in DOMAIN data :
          data[i].allocated = Cardinality({e \in used : e[1] = data[i].block})
    /\ IsInjective(blocksWithFree)
    /\ Range(blocksWithFree) = {i \in DOMAIN data : ~isFull(data[i])}
=============================================================================
