------------------------------- MODULE MBAlloc -------------------------------
(***************************************************************************)
(* tav's mballoc, one context of it: megablocks, each cut into blocks of   *)
(* one size.  A megablock is on the list of the filled ones, or on that of *)
(* its size's partly free ones, or on that of the free ones; the lists go  *)
(* through prev and next of the megablocks.  A new megablock is handed out *)
(* block by block, and counted as filled until one of them is freed.       *)
(*                                                                         *)
(* A call is one step: a context belongs to one thread, or a critical      *)
(* section is held for the call.  The n-th block of m is <<m, n>>.         *)
(* Larger requests go to the C library's malloc() and are not modelled.    *)
(***************************************************************************)
EXTENDS Integers, Sequences, FiniteSets, SequencesExt

CONSTANTS
    MegaBlock,          \* the memories of the system for megablocks
    Request,            \* bound: the sizes asked for
    MEGABLOCK_SIZE, MAX_BLOCK_SIZE,
    NULL

HEADER == 8             \* sizeof(BlockHeader), 64-bit release build
MBALLOC_ALIGNMENT == 4

\* MBFree relies on two blocks or more: an emptied megablock was partly free before.
MBAssumption ==
    /\ Request \subseteq 0 .. MAX_BLOCK_SIZE - HEADER /\ NULL \notin MegaBlock
    /\ MAX_BLOCK_SIZE \in Nat /\ MEGABLOCK_SIZE >= 2 * MAX_BLOCK_SIZE

VARIABLES
    partlyFree,         \* by the index of the size: [first, justAllocated, nextFreeBlock, blocksLeft]
    filledMegaBlock, freeMegaBlock,     \* heads of lists
    link,               \* link[m]: prev and next
    firstBlock,         \* the free blocks of a megablock
    index, numOfAllocatedBlocks,
    users               \* the blocks of the application, [block, size]

lists == <<partlyFree, filledMegaBlock, freeMegaBlock, link>>
vars == <<lists, firstBlock, index, numOfAllocatedBlocks, users>>

-----------------------------------------------------------------------------
Log2(x) == CHOOSE i \in 0 .. 30 : 2^i <= x /\ x < 2^(i + 1)

\* With the header, as a multiple of the alignment.
Rounded_Down(size) == ((size + HEADER) \div MBALLOC_ALIGNMENT) * MBALLOC_ALIGNMENT
Rounded(size) == ((size + HEADER + MBALLOC_ALIGNMENT - 1) \div MBALLOC_ALIGNMENT) * MBALLOC_ALIGNMENT

\* Four sizes from one power of two to the next.
GetIndexFromSize(size) ==
    LET s == Rounded(size) - 1
        i == Log2(s)
    IN  4 * i + ((s \div 2^(i - 2)) % 4) + 1

GetSizeFromIndex(i) == 2^(i \div 4) + (i % 4) * 2^((i \div 4) - 2)

IndexFor(size) == GetIndexFromSize(IF size < 1 THEN 1 ELSE size)
Indices == {IndexFor(size) : size \in Request}
Capacity(i) == MEGABLOCK_SIZE \div GetSizeFromIndex(i)

NoPartlyFree == [first |-> NULL, justAllocated |-> NULL, nextFreeBlock |-> 0, blocksLeft |-> 0]

Init ==
    /\ partlyFree = [i \in Indices |-> NoPartlyFree]
    /\ filledMegaBlock = NULL /\ freeMegaBlock = NULL
    /\ link = [m \in MegaBlock |-> [prev |-> NULL, next |-> NULL]]
    /\ firstBlock = [m \in MegaBlock |-> <<>>]
    /\ index = [m \in MegaBlock |-> NULL]
    /\ numOfAllocatedBlocks = [m \in MegaBlock |-> 0]
    /\ users = {}

-----------------------------------------------------------------------------
\* m out of its list, and the head of that list afterwards.
Unlinked_NextOnly(m) ==
    [x \in MegaBlock |-> IF x = link[m].next THEN [link[x] EXCEPT !.prev = link[m].prev] ELSE link[x]]
Unlinked(m) ==
    [x \in MegaBlock |->
        [prev |-> IF x = link[m].next THEN link[m].prev ELSE link[x].prev,
         next |-> IF x = link[m].prev THEN link[m].next ELSE link[x].next]]
HeadWithout(m, head) == IF link[m].prev = NULL THEN link[m].next ELSE head

\* m in front of a list.
Linked(lk, m, head) ==
    [x \in MegaBlock |->
        IF x = m THEN [prev |-> NULL, next |-> head]
        ELSE IF x = head THEN [lk[x] EXCEPT !.prev = m] ELSE lk[x]]

Used(block, size) == {[block |-> block, size |-> size]}

\* 1. A free block of the first partly free megablock, which may be filled by it.
FromPartlyFree(size) ==
    LET i == IndexFor(size)
        m == partlyFree[i].first
    IN  /\ m # NULL
        /\ numOfAllocatedBlocks' = [numOfAllocatedBlocks EXCEPT ![m] = @ + 1]
        /\ users' = users \cup Used(<<m, Head(firstBlock[m])>>, size)
        /\ firstBlock' = [firstBlock EXCEPT ![m] = Tail(@)]
        /\ IF Tail(firstBlock[m]) # <<>> THEN UNCHANGED lists
           ELSE /\ partlyFree' = [partlyFree EXCEPT ![i].first = link[m].next]
                /\ link' = Linked(Unlinked(m), m, filledMegaBlock)
                /\ filledMegaBlock' = m
                /\ UNCHANGED freeMegaBlock
        /\ UNCHANGED index

\* 2. The next block of the megablock taken last.
FromJustAllocated(size) ==
    LET i  == IndexFor(size)
        pf == partlyFree[i]
    IN  /\ pf.first = NULL /\ pf.justAllocated # NULL
        /\ users' = users \cup Used(<<pf.justAllocated, pf.nextFreeBlock>>, size)
        /\ partlyFree' = [partlyFree EXCEPT ![i] =
              [pf EXCEPT !.nextFreeBlock = @ + 1, !.blocksLeft = @ - 1,
                         !.justAllocated = IF pf.blocksLeft = 1 THEN NULL ELSE @]]
        /\ UNCHANGED <<filledMegaBlock, freeMegaBlock, link, firstBlock, index, numOfAllocatedBlocks>>

\* 3. and 4. A free megablock, or a new one.
FromNewMegaBlock(size) ==
    LET i == IndexFor(size)
    IN  /\ partlyFree[i].first = NULL /\ partlyFree[i].justAllocated = NULL
        /\ \E m \in (IF freeMegaBlock # NULL THEN {freeMegaBlock}
                     ELSE {x \in MegaBlock : index[x] = NULL}) :
              /\ freeMegaBlock' = IF freeMegaBlock # NULL THEN link[m].next ELSE NULL
              /\ firstBlock' = [firstBlock EXCEPT ![m] = <<>>]
              /\ index' = [index EXCEPT ![m] = i]
              /\ numOfAllocatedBlocks' = [numOfAllocatedBlocks EXCEPT ![m] = Capacity(i)]
              /\ link' = Linked(link, m, filledMegaBlock)
              /\ filledMegaBlock' = m
              /\ partlyFree' = [partlyFree EXCEPT ![i] =
                    [@ EXCEPT !.justAllocated = m, !.blocksLeft = Capacity(i) - 1, !.nextFreeBlock = 1]]
              /\ users' = users \cup Used(<<m, 0>>, size)

MBAlloc(size) ==
    FromPartlyFree(size) \/ FromJustAllocated(size) \/ FromNewMegaBlock(size)

\* MBFree of the n-th block of m: the block goes to the megablock's list; a filled
\* megablock becomes partly free, an empty one free.
FreeBlock(m, n) ==
    LET i    == index[m]
        left == numOfAllocatedBlocks[m] - 1
    IN  /\ numOfAllocatedBlocks' = [numOfAllocatedBlocks EXCEPT ![m] = left]
        /\ \/ /\ left > 0
              /\ firstBlock' = [firstBlock EXCEPT ![m] = <<n>> \o @]
              /\ IF firstBlock[m] # <<>> THEN UNCHANGED <<partlyFree, filledMegaBlock, link>>
                 ELSE /\ filledMegaBlock' = HeadWithout(m, filledMegaBlock)
                      /\ link' = Linked(Unlinked(m), m, partlyFree[i].first)
                      /\ partlyFree' = [partlyFree EXCEPT ![i].first = m]
              /\ UNCHANGED freeMegaBlock
           \/ /\ left = 0
              /\ partlyFree' = [partlyFree EXCEPT ![i].first = HeadWithout(m, @)]
              /\ link' = [Unlinked(m) EXCEPT ![m].next = freeMegaBlock]
              /\ freeMegaBlock' = m
              /\ UNCHANGED <<filledMegaBlock, firstBlock>>
        /\ UNCHANGED index

MBFree == \E u \in users : FreeBlock(u.block[1], u.block[2]) /\ users' = users \ {u}

\* MBRealloc to what fits; else it is MBAlloc, a copy, and then MBFree.
MBReallocStays ==
    /\ \E u \in users, size \in Request :
          /\ size + HEADER <= GetSizeFromIndex(index[u.block[1]])
          /\ users' = (users \ {u}) \cup Used(u.block, size)
    /\ UNCHANGED <<lists, firstBlock, index, numOfAllocatedBlocks>>

\* All megablocks are returned to the system, whatever is in use.
MBFreeContext ==
    /\ partlyFree' = [i \in Indices |-> NoPartlyFree]
    /\ filledMegaBlock' = NULL /\ freeMegaBlock' = NULL
    /\ link' = [m \in MegaBlock |-> [prev |-> NULL, next |-> NULL]]
    /\ firstBlock' = [m \in MegaBlock |-> <<>>]
    /\ index' = [m \in MegaBlock |-> NULL]
    /\ numOfAllocatedBlocks' = [m \in MegaBlock |-> 0]
    /\ users' = {}

Next ==
    \/ \E size \in Request : MBAlloc(size)
    \/ MBFree \/ MBReallocStays \/ MBFreeContext

Spec == Init /\ [][Next]_vars

-----------------------------------------------------------------------------
\* The block has room for what was asked for, also after MBRealloc left it in place.
RequestFits ==
    \A u \in users : u.size + HEADER <= GetSizeFromIndex(index[u.block[1]])

InUse == {m \in MegaBlock : numOfAllocatedBlocks[m] > 0}

\* Blocks of m that were never handed out since it was taken.
NeverHandedOut(m) ==
    LET pf == partlyFree[index[m]]
    IN  IF pf.justAllocated = m THEN pf.nextFreeBlock .. Capacity(index[m]) - 1 ELSE {}

\* A megablock's blocks are with the application, on its list, or yet to be handed
\* out, each in one of these; the application has no block of another megablock.
Tiled ==
    /\ \A u \in users : u.block[1] \in InUse
    /\ \A m \in InUse :
          LET held == {u.block[2] : u \in {x \in users : x.block[1] = m}}
          IN  /\ held \cup Range(firstBlock[m]) \cup NeverHandedOut(m) = 0 .. Capacity(index[m]) - 1
              /\ Cardinality(held) + Len(firstBlock[m]) + Cardinality(NeverHandedOut(m))
                   = Capacity(index[m])
    /\ Cardinality({u.block : u \in users}) = Cardinality(users)

\* The megablocks met from a head on.
Walk(head) ==
    LET at[n \in 0 .. Cardinality(MegaBlock)] ==
          IF n = 0 THEN head ELSE IF at[n - 1] = NULL THEN NULL ELSE link[at[n - 1]].next
    IN  {at[n] : n \in DOMAIN at} \ {NULL}

LinkedBothWays(head) ==
    /\ head # NULL => link[head].prev = NULL
    /\ \A m \in Walk(head) : link[m].next # NULL => link[link[m].next].prev = m

\* The counter of a megablock, which has those never handed out as allocated, is exact
\* and agrees with the list the megablock is on; the lists are whole in both
\* directions, however megablocks moved between them.
CountersExact ==
    /\ \A m \in InUse : numOfAllocatedBlocks[m] = Capacity(index[m]) - Len(firstBlock[m])
    /\ \A i \in Indices : partlyFree[i].blocksLeft =
          IF partlyFree[i].justAllocated = NULL THEN 0
          ELSE Cardinality(NeverHandedOut(partlyFree[i].justAllocated))
    /\ \A i \in Indices :
          /\ Walk(partlyFree[i].first) = {m \in InUse : index[m] = i /\ firstBlock[m] # <<>>}
          /\ LinkedBothWays(partlyFree[i].first)
    /\ Walk(filledMegaBlock) = {m \in InUse : firstBlock[m] = <<>>}
    /\ LinkedBothWays(filledMegaBlock)
    /\ Walk(freeMegaBlock) = {m \in MegaBlock : index[m] # NULL} \ InUse
=============================================================================
