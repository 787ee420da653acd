--------------------------- MODULE FSBAllocator2 ---------------------------
(***************************************************************************)
(* FSBAllocator2: one list of free elements for all blocks; when no        *)
(* element is in use any more, all blocks but the first are given back.    *)
(* Its cleanSweep() is not modelled.  A memory is what new[] returned; an  *)
(* element of it is <<memory, position>>.                                  *)
(***************************************************************************)
EXTENDS Integers, Sequences, FiniteSets, SequencesExt

CONSTANTS Memory, BlockElements

FSB2Assumption == BlockElements \in Nat \ {0} /\ Memory # {}

VARIABLES
    ptrs,               \* the blocks, in the order they were fetched
    headIndex,          \* what was handed out of the last one
    freeList, allocatedElementsAmount,
    used                \* the elements of the application

vars == <<ptrs, headIndex, freeList, allocatedElementsAmount, used>>

\* The first block is there from the start.
Init ==
    /\ \E m \in Memory : ptrs = <<m>>
    /\ headIndex = 0 /\ freeList = <<>> /\ allocatedElementsAmount = 0
    /\ used = {}

-----------------------------------------------------------------------------
Unallocated == Memory \ Range(ptrs)

Allocate ==
    /\ allocatedElementsAmount' = allocatedElementsAmount + 1
    /\ \/ /\ freeList # <<>>
          /\ used' = used \cup {Head(freeList)}
          /\ freeList' = Tail(freeList)
          /\ UNCHANGED <<ptrs, headIndex>>
       \/ /\ freeList = <<>> /\ headIndex < BlockElements
          /\ used' = used \cup {<<Last(ptrs), headIndex>>}
          /\ headIndex' = headIndex + 1
          /\ UNCHANGED <<ptrs, freeList>>
       \/ /\ freeList = <<>> /\ headIndex = BlockElements
          /\ \E m \in Unallocated : ptrs' = Append(ptrs, m) /\ used' = used \cup {<<m, 0>>}
          /\ headIndex' = 1
          /\ UNCHANGED freeList

\* freeAll() when the last element comes back.
NoneInUse_OneLeft == allocatedElementsAmount <= 2
NoneInUse == allocatedElementsAmount = 1

Deallocate ==
    /\ \E e \in used :
          /\ used' = used \ {e}
          /\ freeList' = IF NoneInUse THEN <<>> ELSE <<e>> \o freeList
    /\ allocatedElementsAmount' = allocatedElementsAmount - 1
    /\ IF NoneInUse THEN ptrs' = <<Head(ptrs)>> /\ headIndex' = 0
                    ELSE UNCHANGED <<ptrs, headIndex>>

Next == Allocate \/ Deallocate

Spec == Init /\ [][Next]_vars

-----------------------------------------------------------------------------
\* The elements handed out of the blocks that are held.
HandedOut ==
    UNION {{ptrs[i]} \X (0 .. (IF i = Len(ptrs) THEN headIndex ELSE BlockElements) - 1) : i \in DOMAIN ptrs}

\* They are in use or on the list, once: no block goes back while an element of it is
\* in use, and none stays on the list after its block went back.
Tiled ==
    /\ HandedOut = used \cup Range(freeList)
    /\ IsInjective(freeList) /\ used \cap Range(freeList) = {}

CountExact == allocatedElementsAmount = Cardinality(used)
=============================================================================
