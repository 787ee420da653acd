------------------------------ MODULE PoolsProofs ------------------------------
(***************************************************************************)
(* What is proved of the pool allocators, for any number of threads,       *)
(* memories and blocks, of the specification in which one of them runs.    *)
(*                                                                         *)
(* MicroAllocator's invariant is that of MicroAllocatorProofs.             *)
(* FSBAllocator finds the block of an element by the index behind it, and  *)
(* its counters, lists and stack of blocks agree.                          *)
(* FSBAllocator2 keeps its elements apart and its count exact: an element  *)
(* that has been handed out is in use or on the list, and when the count   *)
(* reaches zero nothing is in use, so the blocks can go.                   *)
(* winnie3 and winnie4 lose no block and give back all chunks of a thread  *)
(* that ends.                                                              *)
(***************************************************************************)
EXTENDS Pools, SequenceLemmas

PoolsSpec == PoolsInit /\ [][PoolsNext /\ UNCHANGED part]_<<part, poolVars>>

-----------------------------------------------------------------------------
\* The invariant of MicroAllocator, while it runs.
MicroPart == part = "MicroAllocator" => micro!MicroInv

\* Only its own steps touch its variables.
LEMMA MicroPartAlways ==
  ASSUME PoolsAssumption
  PROVE  PoolsSpec => []MicroPart
<1>0. micro!MicroAssumption
  BY DEF PoolsAssumption
<1>1. PoolsInit => MicroPart
  BY <1>0, micro!MicroInvInit DEF PoolsInit, MicroPart
<1>2. MicroPart /\ [PoolsNext /\ UNCHANGED part]_<<part, poolVars>> => MicroPart'
  <2> SUFFICES ASSUME micro!MicroInv, part = "MicroAllocator",
                      [PoolsNext /\ UNCHANGED part]_<<part, poolVars>>, part' = part
               PROVE  micro!MicroInv'
    BY DEF MicroPart
  <2>1. CASE PoolsNext
    <3>1. micro!Next
      BY <2>1 DEF PoolsNext
    <3>2. [micro!Next]_micro!vars
      BY <3>1
    <3> QED
      BY <1>0, <3>2, micro!MicroInvNext
  <2>2. CASE UNCHANGED <<part, poolVars>>
    <3>1. UNCHANGED micro!vars
      BY <2>2 DEF poolVars, microVars, micro!vars, micro!chunkVars, micro!tableVars
    <3>2. [micro!Next]_micro!vars
      BY <3>1
    <3> QED
      BY <1>0, <3>2, micro!MicroInvNext
  <2> QED
    BY <2>1, <2>2
<1> QED
  BY <1>1, <1>2, PTL DEF PoolsSpec

-----------------------------------------------------------------------------
\* What HandedOut says of one element of FSBAllocator2.
Given(e, memories, head) ==
    \E i \in DOMAIN memories :
       \E k \in 0 .. (IF i = Len(memories) THEN head ELSE BlockElements) - 1 : e = <<memories[i], k>>

Fsb2Types ==
    /\ ptrs \in Seq(Page) /\ ptrs # <<>> /\ IsInjective(ptrs)
    /\ headIndex \in 0 .. BlockElements
    /\ freeList \in Seq(Page \X Nat)
    /\ users \in SUBSET (Page \X Nat) /\ IsFiniteSet(users)

\* An element has been handed out exactly if it is in use or on the list.
Fsb2Kept ==
    /\ \A e : Given(e, ptrs, headIndex) <=> e \in users \/ e \in Range(freeList)
    /\ IsInjective(freeList) /\ users \cap Range(freeList) = {}

Fsb2Inv == Fsb2Types /\ Fsb2Kept /\ fsb2!CountExact

-----------------------------------------------------------------------------
\* The operators on sequences and sets that FSBAllocator2 uses are those of the lemmas.
LEMMA SameOperators ==
  \A s : /\ fsb2!Range(s) = Range(s) /\ fsb2!Last(s) = Last(s)
         /\ fsb2!IsInjective(s) <=> IsInjective(s)
         /\ fsb2!Cardinality(s) = Cardinality(s)
BY DEF fsb2!Cardinality, Cardinality, fsb2!IsFiniteSet, IsFiniteSet, fsb2!Range, Range,
       fsb2!Last, Last, fsb2!IsInjective, IsInjective

\* An element handed out, in both ways.
LEMMA HandedOutIsGiven == \A e : e \in fsb2!HandedOut <=> Given(e, ptrs, headIndex)
  BY DEF fsb2!HandedOut, Given

-----------------------------------------------------------------------------
\* At the start one block is held, and nothing of it has been handed out.
LEMMA Fsb2InvInit ==
  ASSUME fsb2!FSB2Assumption, fsb2!Init
  PROVE  Fsb2Inv
<1>1. PICK m \in Page : ptrs = <<m>>
  BY DEF fsb2!Init
<1>2. Fsb2Types
  BY <1>1, FS_EmptySet DEF fsb2!Init, Fsb2Types, IsInjective, fsb2!FSB2Assumption
<1>3. Fsb2Kept
  BY <1>1 DEF fsb2!Init, Fsb2Kept, Given, Range, IsInjective
<1>4. fsb2!CountExact
  BY FS_EmptySet, SameOperators DEF fsb2!Init, fsb2!CountExact
<1> QED
  BY <1>2, <1>3, <1>4 DEF Fsb2Inv

\* A new element in use.
LEMMA OneMoreInUse ==
  ASSUME Fsb2Inv, NEW e \in Page \X Nat, e \notin users,
         users' = users \cup {e}, allocatedElementsAmount' = allocatedElementsAmount + 1
  PROVE  /\ users' \in SUBSET (Page \X Nat) /\ IsFiniteSet(users')
         /\ fsb2!CountExact'
  BY FS_AddElement, FS_CardinalityType, SameOperators DEF Fsb2Inv, Fsb2Types, fsb2!CountExact

\* From the list, from the last block, or from a new one.
LEMMA Fsb2AllocateKeeps ==
  ASSUME fsb2!FSB2Assumption, Fsb2Inv, fsb2!Allocate
  PROVE  Fsb2Inv'
<1> USE DEF Fsb2Inv
<1>0. BlockElements \in Nat /\ BlockElements > 0
  BY DEF fsb2!FSB2Assumption
<1>p. Len(ptrs) \in Nat /\ Len(ptrs) > 0 /\ DOMAIN ptrs = 1 .. Len(ptrs)
      /\ Last(ptrs) = ptrs[Len(ptrs)] /\ Last(ptrs) \in Page
  BY DEF Fsb2Types, Last
<1>1. CASE /\ freeList # <<>>
           /\ users' = users \cup {Head(freeList)}
           /\ freeList' = Tail(freeList)
           /\ UNCHANGED <<ptrs, headIndex>>
  <2> DEFINE e == Head(freeList)
  <2>1. /\ freeList' \in Seq(Page \X Nat) /\ IsInjective(freeList')
        /\ e \in Page \X Nat /\ e \in Range(freeList) /\ e \notin Range(freeList')
        /\ \A x : x \in Range(freeList) <=> x = e \/ x \in Range(freeList')
    BY <1>1, ListTaken DEF Fsb2Types, Fsb2Kept
  <2>2. e \notin users
    BY <2>1 DEF Fsb2Kept
  <2> HIDE DEF e
  <2>3. Fsb2Types' /\ fsb2!CountExact'
    BY <1>1, <2>1, <2>2, OneMoreInUse DEF Fsb2Types, fsb2!Allocate, e
  <2>4. Fsb2Kept'
    BY <1>1, <2>1, <2>2 DEF Fsb2Kept, Given, e
  <2> QED
    BY <2>3, <2>4
<1>2. CASE /\ freeList = <<>> /\ headIndex < BlockElements
           /\ users' = users \cup {<<Last(ptrs), headIndex>>}
           /\ headIndex' = headIndex + 1
           /\ UNCHANGED <<ptrs, freeList>>
  <2> DEFINE e == <<Last(ptrs), headIndex>>
  <2>1. ~Given(e, ptrs, headIndex)
    BY <1>p DEF Given, Fsb2Types, IsInjective
  <2>2. e \in Page \X Nat /\ e \notin users /\ e \notin Range(freeList)
    BY <1>0, <1>p, <2>1 DEF Fsb2Types, Fsb2Kept
  <2>3. \A x : Given(x, ptrs, headIndex + 1) <=> x = e \/ Given(x, ptrs, headIndex)
    <3>0. headIndex \in Nat /\ Len(ptrs) \in DOMAIN ptrs
      BY <1>0, <1>p DEF Fsb2Types
    <3>1. ASSUME NEW x, Given(x, ptrs, headIndex + 1)
          PROVE  x = e \/ Given(x, ptrs, headIndex)
      <4>1. PICK i \in DOMAIN ptrs :
               \E k \in 0 .. (IF i = Len(ptrs) THEN headIndex + 1 ELSE BlockElements) - 1 : x = <<ptrs[i], k>>
        BY <3>1 DEF Given
      <4>2. PICK k \in 0 .. (IF i = Len(ptrs) THEN headIndex + 1 ELSE BlockElements) - 1 : x = <<ptrs[i], k>>
        BY <4>1
      <4>3. CASE i = Len(ptrs) /\ k = headIndex
        BY <1>p, <4>2, <4>3
      <4>4. CASE ~(i = Len(ptrs) /\ k = headIndex)
        <5>1. k \in 0 .. (IF i = Len(ptrs) THEN headIndex ELSE BlockElements) - 1
          BY <1>0, <3>0, <4>2, <4>4
        <5> QED
          BY <4>2, <5>1 DEF Given
      <4> QED
        BY <4>3, <4>4
    <3>2. Given(e, ptrs, headIndex + 1)
      <4>1. headIndex \in 0 .. (headIndex + 1) - 1
        BY <3>0
      <4> QED
        BY <1>p, <3>0, <4>1 DEF Given
    <3>3. ASSUME NEW x, Given(x, ptrs, headIndex)
          PROVE  Given(x, ptrs, headIndex + 1)
      BY <1>0, <3>0, <3>3 DEF Given
    <3> QED
      BY <3>1, <3>2, <3>3
  <2> HIDE DEF e
  <2>4. Fsb2Types' /\ fsb2!CountExact'
    <3>1. users' \in SUBSET (Page \X Nat) /\ IsFiniteSet(users') /\ fsb2!CountExact'
      <4>1. users' = users \cup {e} /\ allocatedElementsAmount' = allocatedElementsAmount + 1
        BY <1>2 DEF fsb2!Allocate, e
      <4> QED
        BY <2>2, <4>1, OneMoreInUse
    <3>2. headIndex' \in 0 .. BlockElements
      BY <1>0, <1>2 DEF Fsb2Types
    <3> QED
      BY <1>2, <3>1, <3>2 DEF Fsb2Types
  <2>5. Fsb2Kept'
    BY <1>2, <2>2, <2>3 DEF Fsb2Kept, e
  <2> QED
    BY <2>4, <2>5
<1>3. CASE /\ freeList = <<>> /\ headIndex = BlockElements
           /\ \E m \in fsb2!Unallocated : ptrs' = Append(ptrs, m) /\ users' = users \cup {<<m, 0>>}
           /\ headIndex' = 1
           /\ UNCHANGED freeList
  <2>1. PICK m \in fsb2!Unallocated : ptrs' = Append(ptrs, m) /\ users' = users \cup {<<m, 0>>}
    BY <1>3
  <2> DEFINE e == <<m, 0>>
  <2>2. /\ m \in Page /\ \A i \in 1 .. Len(ptrs) : ptrs[i] # m
    BY <1>p, SameOperators DEF fsb2!Unallocated, Range
  <2>3. /\ ptrs' \in Seq(Page) /\ Len(ptrs') = Len(ptrs) + 1 /\ DOMAIN ptrs' = 1 .. Len(ptrs) + 1
        /\ ptrs'[Len(ptrs) + 1] = m /\ \A i \in 1 .. Len(ptrs) : ptrs'[i] = ptrs[i]
    BY <1>p, <2>1, <2>2 DEF Fsb2Types
  <2>4. IsInjective(ptrs')
    <3> SUFFICES ASSUME NEW a \in 1 .. Len(ptrs) + 1, NEW b \in 1 .. Len(ptrs) + 1,
                        ptrs'[a] = ptrs'[b]
                 PROVE  a = b
      BY <2>3 DEF IsInjective
    <3>1. Len(ptrs) \in Nat /\ DOMAIN ptrs = 1 .. Len(ptrs)
      BY <1>p DEF Fsb2Types
    <3>2. \A i \in 1 .. Len(ptrs), j \in 1 .. Len(ptrs) : ptrs[i] = ptrs[j] => i = j
      BY <1>p, <3>1 DEF Fsb2Types, IsInjective
    <3> QED
      BY <2>2, <2>3, <3>1, <3>2
  <2>5. ~Given(e, ptrs, headIndex)
    <3>1. ASSUME NEW i \in DOMAIN ptrs, NEW k, e = <<ptrs[i], k>>
          PROVE  FALSE
      <4>1. m = ptrs[i] /\ i \in 1 .. Len(ptrs)
        BY <1>p, <3>1 DEF Fsb2Types
      <4> QED
        BY <2>2, <4>1
    <3> HIDE DEF e
    <3> QED
      BY <3>1, ZenonT(30) DEF Given
  <2>6. e \in Page \X Nat /\ e \notin users /\ e \notin Range(freeList)
    BY <2>2, <2>5 DEF Fsb2Kept
  <2>7. \A x : Given(x, ptrs', 1) <=> x = e \/ Given(x, ptrs, BlockElements)
    <3>1. ASSUME NEW x, Given(x, ptrs', 1)
          PROVE  x = e \/ Given(x, ptrs, BlockElements)
      BY <1>0, <1>p, <2>3, <3>1 DEF Given
    <3>2. ASSUME NEW x, x = e
          PROVE  Given(x, ptrs', 1)
      <4>1. Len(ptrs) + 1 \in DOMAIN ptrs' /\ 0 \in 0 .. 1 - 1
        BY <1>p, <2>3
      <4> QED
        BY <2>3, <3>2, <4>1 DEF Given
    <3>3. ASSUME NEW x, Given(x, ptrs, BlockElements)
          PROVE  Given(x, ptrs', 1)
      <4>1. PICK i \in 1 .. Len(ptrs), k \in 0 .. BlockElements - 1 : x = <<ptrs[i], k>>
        BY <1>p, <3>3 DEF Given
      <4> QED
        BY <1>0, <1>p, <2>3, <4>1 DEF Given
    <3> QED
      BY <3>1, <3>2, <3>3
  <2> HIDE DEF e
  <2>8. Fsb2Types' /\ fsb2!CountExact'
    <3>1. users' = users \cup {e}
      BY <2>1 DEF e
    <3>2. users' \in SUBSET (Page \X Nat) /\ IsFiniteSet(users') /\ fsb2!CountExact'
      BY <2>6, <3>1, OneMoreInUse DEF fsb2!Allocate
    <3>3. ptrs' # <<>> /\ headIndex' \in 0 .. BlockElements
      BY <1>0, <1>3, <1>p, <2>3
    <3> QED
      BY <1>3, <2>3, <2>4, <3>2, <3>3 DEF Fsb2Types
  <2>9. Fsb2Kept'
    BY <1>3, <2>1, <2>6, <2>7 DEF Fsb2Kept, e
  <2> QED
    BY <2>8, <2>9
<1> QED
  BY <1>1, <1>2, <1>3, SameOperators DEF fsb2!Allocate

\* Onto the list, or all blocks but the first go.
LEMMA Fsb2DeallocateKeeps ==
  ASSUME fsb2!FSB2Assumption, Fsb2Inv, fsb2!Deallocate
  PROVE  Fsb2Inv'
<1> USE DEF Fsb2Inv
<1>1. PICK e \in users :
         /\ users' = users \ {e}
         /\ freeList' = IF fsb2!NoneInUse THEN <<>> ELSE <<e>> \o freeList
  BY DEF fsb2!Deallocate
<1>2. /\ users' \in SUBSET (Page \X Nat) /\ IsFiniteSet(users') /\ fsb2!CountExact'
      /\ Cardinality(users) \in Nat /\ Cardinality(users') = Cardinality(users) - 1
  <2>1. IsFiniteSet(users') /\ Cardinality(users') = Cardinality(users) - 1
    BY <1>1, FS_RemoveElement DEF Fsb2Types
  <2> QED
    BY <1>1, <2>1, FS_CardinalityType, SameOperators DEF Fsb2Types, fsb2!CountExact, fsb2!Deallocate
<1>3. CASE fsb2!NoneInUse
  <2>1. users' = {}
    <3>1. Cardinality(users) = 1
      BY <1>3, SameOperators DEF fsb2!NoneInUse, fsb2!CountExact
    <3>2. Cardinality(users') = 0
      BY <1>2, <3>1
    <3> QED
      BY <1>2, <3>2, FS_EmptySet
  <2>2. freeList' = <<>> /\ ptrs' = <<Head(ptrs)>> /\ headIndex' = 0 /\ Head(ptrs) \in Page
    BY <1>1, <1>3 DEF fsb2!Deallocate, Fsb2Types
  <2>3. Fsb2Types'
    BY <1>2, <2>2 DEF Fsb2Types, IsInjective, fsb2!FSB2Assumption
  <2>4. Fsb2Kept'
    BY <2>1, <2>2 DEF Fsb2Kept, Given, Range, IsInjective
  <2> QED
    BY <1>2, <2>3, <2>4
<1>4. CASE ~fsb2!NoneInUse
  <2>1. freeList' = <<e>> \o freeList /\ UNCHANGED <<ptrs, headIndex>>
    BY <1>1, <1>4 DEF fsb2!Deallocate
  <2>2. e \in Page \X Nat /\ e \notin Range(freeList)
    BY DEF Fsb2Types, Fsb2Kept
  <2>3. /\ freeList' \in Seq(Page \X Nat) /\ IsInjective(freeList')
        /\ \A x : x \in Range(freeList') <=> x = e \/ x \in Range(freeList)
    BY <2>1, <2>2, ListPut DEF Fsb2Types, Fsb2Kept
  <2>4. Fsb2Types'
    BY <1>2, <2>1, <2>3 DEF Fsb2Types
  <2>5. \A x : Given(x, ptrs', headIndex') <=> Given(x, ptrs, headIndex)
    BY <2>1, Zenon
  <2>6. Fsb2Kept'
    BY <1>1, <2>2, <2>3, <2>5 DEF Fsb2Kept
  <2> QED
    BY <1>2, <2>4, <2>6
<1> QED
  BY <1>3, <1>4


\* The invariant of FSBAllocator2, while it runs.
Fsb2Part == part = "FSBAllocator2" => Fsb2Inv

\* Only its own steps touch its variables.
LEMMA Fsb2PartAlways ==
  ASSUME PoolsAssumption
  PROVE  PoolsSpec => []Fsb2Part
<1>0. fsb2!FSB2Assumption
  BY DEF PoolsAssumption
<1>1. PoolsInit => Fsb2Part
  <2>1. PoolsInit /\ part = "FSBAllocator2" => fsb2!Init
    BY DEF PoolsInit
  <2> QED
    BY <1>0, <2>1, Fsb2InvInit DEF Fsb2Part
<1>2. Fsb2Part /\ [PoolsNext /\ UNCHANGED part]_<<part, poolVars>> => Fsb2Part'
  <2> SUFFICES ASSUME Fsb2Inv, part = "FSBAllocator2",
                      [PoolsNext /\ UNCHANGED part]_<<part, poolVars>>, part' = part
               PROVE  Fsb2Inv'
    BY DEF Fsb2Part
  <2>1. CASE PoolsNext
    <3>1. fsb2!Next
      BY <2>1 DEF PoolsNext
    <3> QED
      BY <1>0, <3>1, Fsb2AllocateKeeps, Fsb2DeallocateKeeps DEF fsb2!Next
  <2>2. CASE UNCHANGED <<part, poolVars>>
    <3>1. UNCHANGED <<ptrs, headIndex, freeList, allocatedElementsAmount, users>>
      BY <2>2 DEF poolVars, fsb2Vars
    <3> QED
      BY <3>1 DEF Fsb2Inv, Fsb2Types, Fsb2Kept, fsb2!CountExact, Given
  <2> QED
    BY <2>1, <2>2
<1> QED
  BY <1>1, <1>2, PTL DEF PoolsSpec

-----------------------------------------------------------------------------
\* FSBAllocator.  A block of it, its counter and its list, when the elements of u are in
\* use.  What it hands out next has not been handed out before if its list is empty.
MemBlock == [block : Page \cup {NULL}, free : Seq(Nat), allocated : Nat, end : Nat]

BlockOK(b, u) ==
    /\ b.block = NULL => b.free = <<>> /\ b.allocated = 0
    /\ b.block # NULL =>
          /\ b.end \in 0 .. BlockElements /\ b.allocated + Len(b.free) = b.end
          /\ \A x : x \in Range(b.free) <=> x \in 0 .. b.end - 1 /\ <<b.block, x>> \notin u
    /\ IsInjective(b.free)
    /\ b.allocated = Cardinality({e \in u : e[1] = b.block})

\* Blocks d, of which those that are not full are on the stack w, and indices v.  An
\* index leads to the block also from an element that is not in use: when that is taken
\* from the list, it is not written again.
FsbKept(d, w, u, v) ==
    /\ d \in Seq(MemBlock) /\ w \in Seq(Nat)
    /\ u \in SUBSET fsb!Element /\ IsFiniteSet(u) /\ v \in [fsb!Element -> Nat]
    /\ \A i, j \in DOMAIN d : d[i].block = d[j].block /\ d[i].block # NULL => i = j
    /\ \A i \in DOMAIN d :
          /\ BlockOK(d[i], u)
          /\ d[i].block # NULL => \A x \in 0 .. d[i].end - 1 : v[<<d[i].block, x>>] = i
    /\ \A e \in u : \E i \in DOMAIN d : d[i].block = e[1] /\ e[2] < d[i].end
    /\ IsInjective(w)
    /\ \A i : i \in Range(w) <=> i \in DOMAIN d /\ d[i].allocated # BlockElements

FsbInv == FsbKept(data, blocksWithFree, users, vectorIndex)

\* The operators on sequences and sets that FSBAllocator uses are those of the lemmas.
LEMMA FsbOperators ==
  /\ \A s : /\ fsb!Range(s) = Range(s) /\ fsb!Last(s) = Last(s) /\ fsb!Front(s) = Front(s)
            /\ fsb!IsInjective(s) <=> IsInjective(s)
            /\ fsb!Cardinality(s) = Cardinality(s)
BY DEF fsb!Cardinality, Cardinality, fsb!IsFiniteSet, IsFiniteSet, fsb!Range, Range, fsb!Last,
       Last, fsb!Front, Front, fsb!IsInjective, IsInjective

\* What the assumption says.
LEMMA FsbNumbers ==
  ASSUME fsb!FSBAssumption
  PROVE  /\ BlockElements \in Nat /\ BlockElements > 1 /\ NULL \notin Page
         /\ fsb!Element = Page \X (0 .. BlockElements - 1)
BY DEF fsb!FSBAssumption, fsb!Element

\* The block at place at gives way to a, and only elements of its memory m are taken or
\* given back.
Replaces(d, w, u, v, at, a, m, u2, v2, w2) ==
    /\ m \in Page /\ at \in DOMAIN d /\ a \in MemBlock
    /\ u2 \in SUBSET fsb!Element /\ IsFiniteSet(u2) /\ v2 \in [fsb!Element -> Nat]
    /\ \A j \in DOMAIN d : j # at => d[j].block # m
    /\ a.block \in {m, NULL} /\ BlockOK(a, u2)
    /\ \A e \in fsb!Element : e[1] # m => (e \in u2 <=> e \in u) /\ v2[e] = v[e]
    /\ a.block # NULL => \A x \in 0 .. a.end - 1 : v2[<<a.block, x>>] = at
    /\ \A e \in u2 : e[1] = m => a.block = m /\ e[2] < a.end
    /\ \A e \in u : e[1] # m => e[1] # d[at].block
    /\ w2 \in Seq(Nat) /\ IsInjective(w2)
    /\ \A i : i # at => (i \in Range(w2) <=> i \in Range(w))
    /\ at \in Range(w2) <=> a.allocated # BlockElements

\* Then the blocks are in order still.
LEMMA BlockReplaced ==
  ASSUME fsb!FSBAssumption, NEW d, NEW w, NEW u, NEW v, FsbKept(d, w, u, v),
         NEW at, NEW a, NEW m, NEW u2, NEW v2, NEW w2,
         Replaces(d, w, u, v, at, a, m, u2, v2, w2)
  PROVE  FsbKept([d EXCEPT ![at] = a], w2, u2, v2)
<1> USE DEF Replaces
<1>0. /\ BlockElements \in Nat /\ NULL \notin Page
      /\ fsb!Element = Page \X (0 .. BlockElements - 1)
  BY FsbNumbers
<1>1. PICK d2 : d2 = [d EXCEPT ![at] = a]
  OBVIOUS
<1>2. /\ d2 \in Seq(MemBlock) /\ DOMAIN d2 = DOMAIN d /\ d2[at] = a
      /\ \A j \in DOMAIN d : j # at => d2[j] = d[j]
  BY <1>1 DEF FsbKept
<1>3. \A i, j \in DOMAIN d2 : d2[i].block = d2[j].block /\ d2[i].block # NULL => i = j
  BY <1>2 DEF FsbKept
<1>4. ASSUME NEW j \in DOMAIN d, j # at
      PROVE  /\ BlockOK(d[j], u2)
             /\ d[j].block # NULL => \A x \in 0 .. d[j].end - 1 : v2[<<d[j].block, x>>] = j
  <2>1. /\ d[j] \in MemBlock /\ d[j].block # m /\ BlockOK(d[j], u)
        /\ d[j].block # NULL => \A x \in 0 .. d[j].end - 1 : v[<<d[j].block, x>>] = j
    BY <1>4 DEF FsbKept
  <2>2. ASSUME d[j].block # NULL, NEW x \in 0 .. d[j].end - 1
        PROVE  /\ <<d[j].block, x>> \in fsb!Element /\ v2[<<d[j].block, x>>] = j
               /\ <<d[j].block, x>> \in u2 <=> <<d[j].block, x>> \in u
    <3>1. d[j].block \in Page /\ d[j].end \in 0 .. BlockElements
      BY <2>1, <2>2 DEF BlockOK, MemBlock
    <3>2. <<d[j].block, x>> \in fsb!Element /\ <<d[j].block, x>>[1] # m
      BY <1>0, <2>1, <2>2, <3>1
    <3> QED
      BY <2>1, <2>2, <3>2
  <2>3. {e \in u2 : e[1] = d[j].block} = {e \in u : e[1] = d[j].block}
    <3>1. u \in SUBSET fsb!Element
      BY DEF FsbKept
    <3> QED
      BY <2>1, <3>1
  <2>4. BlockOK(d[j], u2)
    BY <2>1, <2>2, <2>3 DEF BlockOK
  <2> QED
    BY <2>2, <2>4
<1>5. \A i \in DOMAIN d2 :
         /\ BlockOK(d2[i], u2)
         /\ d2[i].block # NULL => \A x \in 0 .. d2[i].end - 1 : v2[<<d2[i].block, x>>] = i
  BY <1>2, <1>4
<1>6. ASSUME NEW e \in u2
      PROVE  \E i \in DOMAIN d2 : d2[i].block = e[1] /\ e[2] < d2[i].end
  <2>1. CASE e[1] = m
    BY <1>2, <2>1
  <2>2. CASE e[1] # m
    <3>1. e \in u /\ e[1] # d[at].block
      BY <2>2
    <3>2. PICK i \in DOMAIN d : d[i].block = e[1] /\ e[2] < d[i].end
      BY <3>1 DEF FsbKept
    <3>3. i # at
      BY <3>1, <3>2
    <3> QED
      BY <1>2, <3>2, <3>3
  <2> QED
    BY <2>1, <2>2
<1>7. \A i : i \in Range(w2) <=> i \in DOMAIN d2 /\ d2[i].allocated # BlockElements
  BY <1>2 DEF FsbKept
<1>8. FsbKept(d2, w2, u2, v2)
  BY <1>2, <1>3, <1>5, <1>6, <1>7 DEF FsbKept
<1> QED
  BY <1>1, <1>8

\* The vector grows by a block without memory, which is the only one on the stack.
LEMMA GrownKeeps ==
  ASSUME fsb!FSBAssumption, FsbInv
  PROVE  /\ FsbKept(fsb!Grown.data, fsb!Grown.withFree, users, vectorIndex)
         /\ fsb!Grown.withFree # <<>>
<1>0. /\ BlockElements \in Nat /\ BlockElements > 1 /\ NULL \notin Page
      /\ fsb!Element = Page \X (0 .. BlockElements - 1)
  BY FsbNumbers
<1>1. CASE blocksWithFree # <<>>
  BY <1>1 DEF fsb!Grown, FsbInv
<1>2. CASE blocksWithFree = <<>>
  <2>1. PICK d, n : d = Append(data, fsb!EmptyBlock) /\ n = Len(data)
    OBVIOUS
  <2>2. fsb!Grown.data = d /\ fsb!Grown.withFree = <<n + 1>>
    BY <1>2, <2>1 DEF fsb!Grown
  <2>3. /\ fsb!EmptyBlock \in MemBlock /\ fsb!EmptyBlock.block = NULL
        /\ fsb!EmptyBlock.free = <<>> /\ fsb!EmptyBlock.allocated = 0
    BY DEF fsb!EmptyBlock, MemBlock
  <2>4. /\ n \in Nat /\ DOMAIN data = 1 .. n /\ d \in Seq(MemBlock) /\ DOMAIN d = 1 .. n + 1
        /\ d[n + 1] = fsb!EmptyBlock /\ \A i \in 1 .. n : d[i] = data[i]
    BY <2>1, <2>3 DEF FsbInv, FsbKept
  <2>5. BlockOK(fsb!EmptyBlock, users)
    <3>1. {e \in users : e[1] = NULL} = {}
      BY <1>0 DEF FsbInv, FsbKept
    <3>2. IsInjective(<<>>)
      BY DEF IsInjective
    <3> QED
      BY <2>3, <3>1, <3>2, FS_EmptySet DEF BlockOK
  <2>6. \A i \in 1 .. n + 1 : i = n + 1 \/ i \in 1 .. n
    BY <2>4
  <2>7. \A i, j \in DOMAIN d : d[i].block = d[j].block /\ d[i].block # NULL => i = j
    <3>1. \A i, j \in 1 .. n : data[i].block = data[j].block /\ data[i].block # NULL => i = j
      BY <2>1 DEF FsbInv, FsbKept
    <3>2. d[n + 1].block = NULL
      BY <2>3, <2>4
    <3>3. SUFFICES ASSUME NEW i \in DOMAIN d, NEW j \in DOMAIN d,
                          d[i].block = d[j].block, d[i].block # NULL
                   PROVE  i = j
      OBVIOUS
    <3>4. i \in 1 .. n /\ j \in 1 .. n
      BY <2>4, <2>6, <3>2, <3>3
    <3>5. d[i] = data[i] /\ d[j] = data[j]
      BY <2>4, <3>4
    <3> QED
      BY <3>1, <3>3, <3>4, <3>5
  <2>8. \A i \in DOMAIN d :
           /\ BlockOK(d[i], users)
           /\ d[i].block # NULL => \A x \in 0 .. d[i].end - 1 : vectorIndex[<<d[i].block, x>>] = i
    BY <2>3, <2>4, <2>5, <2>6 DEF FsbInv, FsbKept
  <2>9. \A e \in users : \E i \in DOMAIN d : d[i].block = e[1] /\ e[2] < d[i].end
    <3> SUFFICES ASSUME NEW e \in users
                 PROVE  \E i \in DOMAIN d : d[i].block = e[1] /\ e[2] < d[i].end
      OBVIOUS
    <3>1. PICK i \in DOMAIN data : data[i].block = e[1] /\ e[2] < data[i].end
      BY DEF FsbInv, FsbKept
    <3>2. i \in DOMAIN d /\ d[i] = data[i]
      BY <2>4
    <3> QED
      BY <3>1, <3>2
  <2>10. /\ <<n + 1>> \in Seq(Nat) /\ IsInjective(<<n + 1>>)
         /\ \A i : i \in Range(<<n + 1>>) <=> i = n + 1
    BY <2>4 DEF IsInjective, Range
  <2>11. \A i \in 1 .. n : data[i].allocated = BlockElements
    <3>1. Range(<<>>) = {}
      BY DEF Range
    <3> QED
      BY <1>2, <2>4, <3>1 DEF FsbInv, FsbKept
  <2>12. \A i : i \in Range(<<n + 1>>) <=> i \in DOMAIN d /\ d[i].allocated # BlockElements
    <3>1. d[n + 1].allocated # BlockElements /\ n + 1 \in DOMAIN d /\ n + 1 \notin 1 .. n
      BY <1>0, <2>3, <2>4
    <3> QED
      BY <2>4, <2>6, <2>10, <2>11, <3>1
  <2>13. FsbKept(d, <<n + 1>>, users, vectorIndex)
    BY <2>4, <2>7, <2>8, <2>9, <2>10, <2>12 DEF FsbInv, FsbKept
  <2> QED
    BY <2>2, <2>13
<1> QED
  BY <1>1, <1>2

\* The block at index becomes a when element x of memory m, its own or its new one, is
\* taken from it.
Taken(d, u, v, at, m, x, a, v2) ==
    /\ m \in Page /\ x \in 0 .. BlockElements - 1 /\ <<m, x>> \notin u
    /\ d[at].block \in {m, NULL} /\ \A j \in DOMAIN d : j # at => d[j].block # m
    /\ a \in MemBlock /\ a.block = m /\ a.allocated = d[at].allocated + 1
    /\ a.end \in 0 .. BlockElements /\ a.allocated + Len(a.free) = a.end /\ x < a.end
    /\ IsInjective(a.free)
    /\ \A y : y \in Range(a.free) <=> y \in 0 .. a.end - 1 /\ y # x /\ <<m, y>> \notin u
    /\ \A e \in u : e[1] = m => e[2] < a.end
    /\ v2 \in [fsb!Element -> Nat]
    /\ \A e \in fsb!Element : e[1] # m => v2[e] = v[e]
    /\ \A y \in 0 .. a.end - 1 : v2[<<m, y>>] = at

\* It is the one on top of the stack, where it stays unless it is full.
LEMMA ElementTaken ==
  ASSUME fsb!FSBAssumption, NEW d, NEW w, NEW u, NEW v, FsbKept(d, w, u, v), w # <<>>,
         NEW at, at = Last(w), NEW m, NEW x, NEW a, NEW v2,
         Taken(d, u, v, at, m, x, a, v2)
  PROVE  FsbKept([d EXCEPT ![at] = a], IF a.allocated = BlockElements THEN Front(w) ELSE w,
                 u \cup {<<m, x>>}, v2)
<1> USE DEF Taken
<1>0. /\ BlockElements \in Nat /\ NULL \notin Page
      /\ fsb!Element = Page \X (0 .. BlockElements - 1)
  BY FsbNumbers
<1>1. /\ w \in Seq(Nat) /\ IsInjective(w) /\ u \in SUBSET fsb!Element /\ IsFiniteSet(u)
      /\ \A i : i \in Range(w) <=> i \in DOMAIN d /\ d[i].allocated # BlockElements
  BY DEF FsbKept
<1>2. /\ Front(w) \in Seq(Nat) /\ IsInjective(Front(w))
      /\ at \in Range(w) /\ at \notin Range(Front(w))
      /\ \A i : i \in Range(w) <=> i = at \/ i \in Range(Front(w))
  BY <1>1, ListFront
<1>3. at \in DOMAIN d /\ BlockOK(d[at], u)
  BY <1>1, <1>2 DEF FsbKept
<1>4. PICK u2, e0 : u2 = u \cup {e0} /\ e0 = <<m, x>>
  OBVIOUS
<1>5. u2 \in SUBSET fsb!Element /\ IsFiniteSet(u2) /\ e0[1] = m /\ e0[2] = x /\ e0 \notin u
  <2>1. e0 \in fsb!Element /\ e0[1] = m /\ e0[2] = x /\ e0 \notin u
    BY <1>0, <1>4
  <2>2. IsFiniteSet(u2)
    BY <1>1, <1>4, FS_AddElement
  <2> QED
    BY <1>1, <1>4, <2>1, <2>2
<1>6. PICK w2 : w2 = IF a.allocated = BlockElements THEN Front(w) ELSE w
  OBVIOUS
<1>7. /\ w2 \in Seq(Nat) /\ IsInjective(w2)
      /\ \A i : i # at => (i \in Range(w2) <=> i \in Range(w))
      /\ at \in Range(w2) <=> a.allocated # BlockElements
  BY <1>1, <1>2, <1>6
<1>8. a.allocated = Cardinality({e \in u2 : e[1] = m})
  <2>1. PICK S : S = {e \in u : e[1] = m}
    OBVIOUS
  <2>2. IsFiniteSet(S)
    BY <1>1, <2>1, FS_Subset
  <2>3. d[at].allocated = Cardinality(S)
    <3>1. CASE d[at].block = m
      BY <1>3, <2>1, <3>1 DEF BlockOK
    <3>2. CASE d[at].block = NULL
      <4>1. \A i \in DOMAIN d : d[i].block = m => i = at
        OBVIOUS
      <4>2. \A e \in u : e[1] # m
        <5> SUFFICES ASSUME NEW e \in u, e[1] = m
                     PROVE  FALSE
          OBVIOUS
        <5>1. PICK i \in DOMAIN d : d[i].block = e[1]
          BY DEF FsbKept
        <5>2. d[at].block = m /\ m # NULL
          BY <1>0, <4>1, <5>1
        <5> QED
          BY <3>2, <5>2
      <4>3. S = {}
        BY <2>1, <4>2
      <4> QED
        BY <1>3, <3>2, <4>3, FS_EmptySet DEF BlockOK
    <3> QED
      BY <3>1, <3>2
  <2>4. {e \in u2 : e[1] = m} = S \cup {e0} /\ e0 \notin S
    BY <1>4, <1>5, <2>1
  <2>5. Cardinality(S \cup {e0}) = Cardinality(S) + 1
    BY <2>2, <2>4, FS_AddElement
  <2> QED
    BY <2>3, <2>4, <2>5
<1>9. BlockOK(a, u2)
  <2>1. \A y : <<m, y>> \in u2 <=> <<m, y>> \in u \/ y = x
    BY <1>4
  <2> QED
    BY <1>0, <1>8, <2>1 DEF BlockOK
<1>10. /\ \A e \in fsb!Element : e[1] # m => (e \in u2 <=> e \in u) /\ v2[e] = v[e]
       /\ \A e \in u2 : e[1] = m => a.block = m /\ e[2] < a.end
       /\ \A e \in u : e[1] # m => e[1] # d[at].block
  BY <1>0, <1>1, <1>4, <1>5
<1>11. FsbKept([d EXCEPT ![at] = a], w2, u2, v2)
  <2>1. Replaces(d, w, u, v, at, a, m, u2, v2, w2)
    BY <1>3, <1>5, <1>7, <1>9, <1>10 DEF Replaces
  <2> QED
    BY <2>1, BlockReplaced
<1> QED
  BY <1>4, <1>6, <1>11

\* From the list of the block, or the next element of its memory.
LEMMA FsbAllocateKeeps ==
  ASSUME fsb!FSBAssumption, FsbInv, fsb!Allocate
  PROVE  FsbInv'
<1>0. /\ BlockElements \in Nat /\ BlockElements > 1 /\ NULL \notin Page
      /\ fsb!Element = Page \X (0 .. BlockElements - 1)
  BY FsbNumbers
<1>1. PICK d, w : d = fsb!Grown.data /\ w = fsb!Grown.withFree
  OBVIOUS
<1>2. FsbKept(d, w, users, vectorIndex) /\ w # <<>>
  BY <1>1, GrownKeeps
<1>3. PICK at : at = Last(w)
  OBVIOUS
<1>4. PICK b : b = d[at]
  OBVIOUS
<1>5. /\ at \in DOMAIN d /\ b \in MemBlock /\ BlockOK(b, users)
      /\ b.allocated # BlockElements
      /\ b.block # NULL => \A x \in 0 .. b.end - 1 : vectorIndex[<<b.block, x>>] = at
  <2>1. w \in Seq(Nat) /\ IsInjective(w)
    BY <1>2 DEF FsbKept
  <2>2. at \in Range(w)
    BY <1>2, <1>3, <2>1, ListFront
  <2> QED
    BY <1>2, <1>4, <2>2 DEF FsbKept
<1>6. /\ b.block \in Page \cup {NULL} /\ b.free \in Seq(Nat) /\ b.allocated \in Nat /\ b.end \in Nat
  BY <1>5 DEF MemBlock
<1>7. ASSUME b.block # NULL
      PROVE  /\ \A j \in DOMAIN d : j # at => d[j].block # b.block
             /\ \A e \in users : e[1] = b.block => e[2] < b.end
  <2>1. \A j \in DOMAIN d : j # at => d[j].block # b.block
    BY <1>2, <1>4, <1>5, <1>7 DEF FsbKept
  <2>2. ASSUME NEW e \in users, e[1] = b.block
        PROVE  e[2] < b.end
    <3>1. PICK i \in DOMAIN d : d[i].block = e[1] /\ e[2] < d[i].end
      BY <1>2 DEF FsbKept
    <3> QED
      BY <1>4, <2>1, <2>2, <3>1
  <2> QED
    BY <2>1, <2>2
<1>8. CASE /\ b.free # <<>>
           /\ users' = users \cup {<<b.block, Head(b.free)>>}
           /\ data' = [d EXCEPT ![at] =
                 [b EXCEPT !.free = Tail(@), !.allocated = @ + 1]]
           /\ blocksWithFree' =
                IF [b EXCEPT !.free = Tail(@), !.allocated = @ + 1].allocated = BlockElements
                THEN Front(w) ELSE w
           /\ vectorIndex' = vectorIndex
  <2>1. PICK a, m, x : /\ a = [b EXCEPT !.free = Tail(@), !.allocated = @ + 1]
                       /\ m = b.block /\ x = Head(b.free)
    OBVIOUS
  <2>2. m # NULL /\ m \in Page
    BY <1>5, <1>6, <1>8, <2>1 DEF BlockOK
  <2>3. /\ b.end \in 0 .. BlockElements /\ b.allocated + Len(b.free) = b.end
        /\ \A y : y \in Range(b.free) <=> y \in 0 .. b.end - 1 /\ <<m, y>> \notin users
        /\ IsInjective(b.free)
    BY <1>5, <2>1, <2>2 DEF BlockOK
  <2>4. /\ Tail(b.free) \in Seq(Nat) /\ IsInjective(Tail(b.free))
        /\ x \in Range(b.free) /\ x \notin Range(Tail(b.free))
        /\ \A y : y \in Range(b.free) <=> y = x \/ y \in Range(Tail(b.free))
    BY <1>6, <1>8, <2>1, <2>3, ListTaken
  <2>5. Len(Tail(b.free)) = Len(b.free) - 1 /\ Len(b.free) \in Nat
    BY <1>6, <1>8
  <2>6. /\ a \in MemBlock /\ a.block = m /\ a.allocated = b.allocated + 1 /\ a.end = b.end
        /\ a.free = Tail(b.free)
    <3>1. PICK f : f = Tail(b.free)
      OBVIOUS
    <3>2. a = [b EXCEPT !.free = f, !.allocated = b.allocated + 1] /\ f \in Seq(Nat)
      BY <1>5, <2>1, <2>4, <3>1 DEF MemBlock
    <3>3. /\ a.block = m /\ a.allocated = b.allocated + 1 /\ a.end = b.end /\ a.free = f
          /\ a = [block |-> m, free |-> f, allocated |-> b.allocated + 1, end |-> b.end]
      BY <1>5, <2>1, <3>2 DEF MemBlock
    <3>4. m \in Page \cup {NULL} /\ b.allocated + 1 \in Nat /\ b.end \in Nat
      BY <1>6, <2>1
    <3>5. a \in MemBlock
      BY <3>2, <3>3, <3>4 DEF MemBlock
    <3> QED
      BY <3>1, <3>3, <3>5
  <2>7. x \in 0 .. BlockElements - 1 /\ <<m, x>> \notin users /\ x < a.end
    BY <1>0, <2>3, <2>4, <2>6
  <2>8. a.end \in 0 .. BlockElements /\ a.allocated + Len(a.free) = a.end
    <3>1. Len(a.free) = Len(b.free) - 1
      BY <2>5, <2>6
    <3>2. PICK k, n \in Nat : k = b.allocated /\ n = Len(b.free)
      BY <1>6, <2>5
    <3>3. (k + 1) + (n - 1) = k + n
      OBVIOUS
    <3>4. a.allocated = k + 1 /\ Len(a.free) = n - 1 /\ k + n = a.end
      BY <2>3, <2>6, <3>1, <3>2
    <3> QED
      BY <2>3, <2>6, <3>3, <3>4
  <2>9. \A y : y \in Range(a.free) <=> y \in 0 .. a.end - 1 /\ y # x /\ <<m, y>> \notin users
    BY <2>3, <2>4, <2>6
  <2>10. FsbKept([d EXCEPT ![at] = a], IF a.allocated = BlockElements THEN Front(w) ELSE w,
                 users \cup {<<m, x>>}, vectorIndex)
    <3>1. vectorIndex \in [fsb!Element -> Nat]
      BY <1>2 DEF FsbKept
    <3>2. \A e \in users : e[1] = m => e[2] < a.end
      BY <1>7, <2>1, <2>2, <2>6
    <3>3. \A j \in DOMAIN d : j # at => d[j].block # m
      BY <1>7, <2>1, <2>2
    <3>4. \A y \in 0 .. a.end - 1 : vectorIndex[<<m, y>>] = at
      BY <1>5, <2>1, <2>2, <2>6
    <3>5. d[at].block \in {m, NULL} /\ a.allocated = d[at].allocated + 1
      BY <1>4, <2>1, <2>6
    <3>6. IsInjective(a.free)
      BY <2>4, <2>6
    <3> QED
      <4>1. Taken(d, users, vectorIndex, at, m, x, a, vectorIndex)
        BY <2>2, <2>6, <2>7, <2>8, <2>9, <3>1, <3>2, <3>3, <3>4, <3>5, <3>6 DEF Taken
      <4> QED
        BY <1>2, <1>3, <4>1, ElementTaken
  <2> QED
    BY <1>8, <2>1, <2>10 DEF FsbInv
<1>9. CASE /\ b.free = <<>>
           /\ \E m \in IF b.block = NULL THEN fsb!Unallocated ELSE {b.block} :
                LET i == IF b.block = NULL THEN 0 ELSE b.end
                    a == [b EXCEPT !.block = m, !.end = i + 1, !.allocated = @ + 1]
                IN  /\ users' = users \cup {<<m, i>>}
                    /\ data' = [d EXCEPT ![at] = a]
                    /\ blocksWithFree' = IF a.allocated = BlockElements THEN Front(w) ELSE w
                    /\ vectorIndex' = [vectorIndex EXCEPT ![<<m, i>>] = at]
  <2>1. PICK x : x = IF b.block = NULL THEN 0 ELSE b.end
    OBVIOUS
  <2>2. PICK m, a :
           /\ m \in IF b.block = NULL THEN fsb!Unallocated ELSE {b.block}
           /\ a = [b EXCEPT !.block = m, !.end = x + 1, !.allocated = @ + 1]
           /\ users' = users \cup {<<m, x>>} /\ data' = [d EXCEPT ![at] = a]
           /\ blocksWithFree' = IF a.allocated = BlockElements THEN Front(w) ELSE w
           /\ vectorIndex' = [vectorIndex EXCEPT ![<<m, x>>] = at]
    BY <1>9, <2>1
  <2>3. Len(b.free) = 0 /\ Range(b.free) = {}
    BY <1>9 DEF Range
  <2>4. /\ m \in Page /\ \A j \in DOMAIN d : j # at => d[j].block # m
        /\ d[at].block \in {m, NULL}
    <3>1. CASE b.block # NULL
      BY <1>4, <1>6, <1>7, <2>2, <3>1
    <3>2. CASE b.block = NULL
      <4>1. m \in Page /\ \A j \in DOMAIN data : data[j].block # m
        BY <2>2, <3>2 DEF fsb!Unallocated
      <4>2. \A j \in DOMAIN d : d[j].block # m
        <5>1. CASE blocksWithFree # <<>>
          BY <1>1, <4>1, <5>1 DEF fsb!Grown
        <5>2. CASE blocksWithFree = <<>>
          <6>1. d = Append(data, fsb!EmptyBlock) /\ data \in Seq(MemBlock)
            BY <1>1, <5>2 DEF fsb!Grown, FsbInv, FsbKept
          <6>2. fsb!EmptyBlock.block # m
            BY <1>0, <4>1 DEF fsb!EmptyBlock
          <6>3. \A j \in DOMAIN d : (j \in DOMAIN data /\ d[j] = data[j]) \/ d[j] = fsb!EmptyBlock
            BY <6>1
          <6> QED
            BY <4>1, <6>2, <6>3
        <5> QED
          BY <5>1, <5>2
      <4> QED
        BY <1>4, <3>2, <4>1, <4>2
    <3> QED
      BY <3>1, <3>2
  <2>5. /\ x \in Nat /\ b.allocated = x /\ x \in 0 .. BlockElements - 1
        /\ \A y \in 0 .. x - 1 : <<m, y>> \in users /\ vectorIndex[<<m, y>>] = at
        /\ \A e \in users : e[1] = m => e[2] < x
    <3>1. CASE b.block # NULL
      <4>1. m = b.block /\ x = b.end
        BY <2>1, <2>2, <3>1
      <4>2. b.allocated + 0 = b.end /\ b.end \in 0 .. BlockElements
        BY <1>5, <2>3, <3>1 DEF BlockOK
      <4>3. \A y \in 0 .. b.end - 1 : <<m, y>> \in users
        BY <1>5, <2>3, <3>1, <4>1 DEF BlockOK
      <4> QED
        BY <1>0, <1>5, <1>6, <1>7, <3>1, <4>1, <4>2, <4>3
    <3>2. CASE b.block = NULL
      <4>1. x = 0 /\ b.allocated = 0
        BY <1>5, <2>1, <3>2 DEF BlockOK
      <4>2. \A e \in users : e[1] # m
        BY <1>0, <1>2, <1>4, <2>4, <3>2 DEF FsbKept
      <4> QED
        BY <1>0, <4>1, <4>2
    <3> QED
      BY <3>1, <3>2
  <2>6. /\ a \in MemBlock /\ a.block = m /\ a.allocated = b.allocated + 1 /\ a.end = x + 1
        /\ a.free = b.free
    <3>1. PICK n : n = x + 1
      OBVIOUS
    <3>2. a = [b EXCEPT !.block = m, !.end = n, !.allocated = b.allocated + 1] /\ n \in Nat
      BY <1>5, <2>2, <2>5, <3>1 DEF MemBlock
    <3>3. /\ a.block = m /\ a.allocated = b.allocated + 1 /\ a.end = n /\ a.free = b.free
          /\ a = [block |-> m, free |-> b.free, allocated |-> b.allocated + 1, end |-> n]
      BY <1>5, <3>2 DEF MemBlock
    <3> QED
      BY <1>6, <2>4, <3>1, <3>2, <3>3 DEF MemBlock
  <2>7. <<m, x>> \notin users
    BY <2>5
  <2>8. /\ a.end \in 0 .. BlockElements /\ a.allocated + Len(a.free) = a.end /\ x < a.end
        /\ IsInjective(a.free)
    <3>1. Len(a.free) = 0 /\ IsInjective(a.free)
      BY <1>5, <2>3, <2>6 DEF BlockOK
    <3> QED
      BY <1>0, <2>5, <2>6, <3>1
  <2>9. \A y : y \in Range(a.free) <=> y \in 0 .. a.end - 1 /\ y # x /\ <<m, y>> \notin users
    <3>1. \A y \in 0 .. a.end - 1 : y # x => y \in 0 .. x - 1
      BY <2>5, <2>6
    <3> QED
      BY <2>3, <2>5, <2>6, <3>1
  <2>10. /\ vectorIndex' \in [fsb!Element -> Nat]
         /\ \A e \in fsb!Element : e[1] # m => vectorIndex'[e] = vectorIndex[e]
         /\ \A y \in 0 .. a.end - 1 : vectorIndex'[<<m, y>>] = at
    <3>1. vectorIndex \in [fsb!Element -> Nat] /\ d \in Seq(MemBlock) /\ at \in Nat
      <4>1. vectorIndex \in [fsb!Element -> Nat] /\ d \in Seq(MemBlock)
        BY <1>2 DEF FsbKept
      <4> QED
        BY <1>5, <4>1
    <3>2. <<m, x>> \in fsb!Element
      BY <1>0, <2>4, <2>5
    <3>3. vectorIndex' \in [fsb!Element -> Nat] /\ vectorIndex'[<<m, x>>] = at
      BY <2>2, <3>1, <3>2
    <3>4. \A e \in fsb!Element : e # <<m, x>> => vectorIndex'[e] = vectorIndex[e]
      BY <2>2, <3>1
    <3>5. \A y \in 0 .. x - 1 : vectorIndex'[<<m, y>>] = at
      <4> TAKE y \in 0 .. x - 1
      <4>1. <<m, y>> \in fsb!Element /\ <<m, y>> # <<m, x>>
        BY <1>0, <2>4, <2>5
      <4> QED
        BY <2>5, <3>4, <4>1
    <3>6. \A y \in 0 .. a.end - 1 : y = x \/ y \in 0 .. x - 1
      BY <2>5, <2>6
    <3> QED
      BY <3>3, <3>4, <3>5, <3>6
  <2>11. \A e \in users : e[1] = m => e[2] < a.end
    <3>1. users \in SUBSET fsb!Element
      BY <1>2 DEF FsbKept
    <3>2. \A e \in users : e[2] \in Nat
      BY <1>0, <3>1
    <3> QED
      BY <2>5, <2>6, <3>2
  <2>12. a.allocated = d[at].allocated + 1
    BY <1>4, <2>6
  <2>13. PICK v2 : v2 = vectorIndex'
    OBVIOUS
  <2>14. FsbKept([d EXCEPT ![at] = a], IF a.allocated = BlockElements THEN Front(w) ELSE w,
                 users \cup {<<m, x>>}, v2)
    <3>1. Taken(d, users, vectorIndex, at, m, x, a, v2)
      BY <2>4, <2>5, <2>6, <2>7, <2>8, <2>9, <2>10, <2>11, <2>12, <2>13 DEF Taken
    <3> QED
      BY <1>2, <1>3, <3>1, ElementTaken
  <2> QED
    BY <2>2, <2>13, <2>14 DEF FsbInv
<1>10. \A s : fsb!Last(s) = Last(s) /\ fsb!Front(s) = Front(s)
  BY FsbOperators
<1> QED
  BY <1>1, <1>3, <1>4, <1>8, <1>9, <1>10 DEF fsb!Allocate, fsb!isFull

\* Element x of a block comes back to its list; a block without elements in use keeps its
\* place and has neither memory nor list.
LEMMA BlockReturned ==
  ASSUME fsb!FSBAssumption, NEW b \in MemBlock, NEW u \in SUBSET fsb!Element, IsFiniteSet(u),
         BlockOK(b, u), NEW e \in u, e[1] = b.block, e[2] < b.end
  PROVE  /\ fsb!Returned(b, e[2]) \in MemBlock /\ BlockOK(fsb!Returned(b, e[2]), u \ {e})
         /\ fsb!Returned(b, e[2]).block \in {b.block, NULL}
         /\ fsb!Returned(b, e[2]).end = b.end
         /\ fsb!Returned(b, e[2]).allocated # BlockElements
         /\ fsb!Returned(b, e[2]).block = NULL => \A y \in u \ {e} : y[1] # b.block
<1>0. /\ BlockElements \in Nat /\ BlockElements > 1 /\ NULL \notin Page
      /\ fsb!Element = Page \X (0 .. BlockElements - 1)
  BY FsbNumbers
<1>1. PICK m, x : m = e[1] /\ x = e[2]
  OBVIOUS
<1>2. e = <<m, x>> /\ m \in Page /\ m # NULL /\ x \in Nat /\ b.block = m
  BY <1>0, <1>1
<1>3. /\ b.block \in Page \cup {NULL} /\ b.free \in Seq(Nat) /\ b.allocated \in Nat /\ b.end \in Nat
  BY DEF MemBlock
<1>4. /\ b.end \in 0 .. BlockElements /\ b.allocated + Len(b.free) = b.end
      /\ \A y : y \in Range(b.free) <=> y \in 0 .. b.end - 1 /\ <<m, y>> \notin u
      /\ IsInjective(b.free)
  BY <1>2 DEF BlockOK
<1>5. PICK S : S = {y \in u : y[1] = m}
  OBVIOUS
<1>6. IsFiniteSet(S) /\ e \in S /\ b.allocated = Cardinality(S)
  BY <1>1, <1>2, <1>5, FS_Subset DEF BlockOK
<1>7. {y \in u \ {e} : y[1] = m} = S \ {e} /\ IsFiniteSet(S \ {e})
  BY <1>5, <1>6, FS_RemoveElement
<1>8. PICK k, n \in Nat : k = b.allocated - 1 /\ n = Len(b.free) /\ k = Cardinality(S \ {e})
  <2>1. Cardinality(S \ {e}) = Cardinality(S) - 1 /\ Cardinality(S \ {e}) \in Nat
    BY <1>6, <1>7, FS_RemoveElement, FS_CardinalityType
  <2> QED
    BY <1>3, <1>6, <2>1
<1>9. k + 1 = b.allocated /\ k + 1 + n = b.end /\ k # BlockElements
  BY <1>0, <1>3, <1>4, <1>8
<1>10. PICK f : f = <<x>> \o b.free
  OBVIOUS
<1>11. /\ f \in Seq(Nat) /\ IsInjective(f) /\ Len(f) = n + 1
       /\ \A y : y \in Range(f) <=> y = x \/ y \in Range(b.free)
  <2>1. x \notin Range(b.free)
    BY <1>2, <1>4
  <2>2. Len(f) = n + 1
    BY <1>2, <1>3, <1>8, <1>10
  <2> QED
    BY <1>2, <1>3, <1>4, <1>10, <2>1, <2>2, ListPut
<1>12. PICK r : r = fsb!Returned(b, e[2])
  OBVIOUS
<1>13. b = [block |-> m, free |-> b.free, allocated |-> b.allocated, end |-> b.end]
  BY <1>2 DEF MemBlock
<1>14. [b EXCEPT !.free = <<e[2]>> \o @, !.allocated = @ - 1]
          = [block |-> m, free |-> f, allocated |-> k, end |-> b.end]
  <2>1. f = <<e[2]>> \o b.free /\ k = b.allocated - 1
    BY <1>1, <1>8, <1>10
  <2>2. [b EXCEPT !.free = <<e[2]>> \o @, !.allocated = @ - 1]
           = [b EXCEPT !.free = f, !.allocated = k]
    BY <2>1 DEF MemBlock
  <2>3. PICK z : z = [b EXCEPT !.free = f, !.allocated = k]
    OBVIOUS
  <2>4. z = [block |-> m, free |-> f, allocated |-> k, end |-> b.end]
    BY <1>2, <2>3 DEF MemBlock
  <2> QED
    BY <2>2, <2>3, <2>4
<1>15. CASE k = 0
  <2>1. r = [block |-> NULL, free |-> <<>>, allocated |-> k, end |-> b.end]
    BY <1>12, <1>14, <1>15 DEF fsb!Returned, fsb!Cleared
  <2>2. r \in MemBlock
    BY <1>3, <2>1 DEF MemBlock
  <2>3. \A y \in u \ {e} : y[1] # m
    <3>1. S \ {e} = {}
      BY <1>7, <1>8, <1>15, FS_EmptySet
    <3> QED
      BY <1>7, <3>1
  <2>4. BlockOK(r, u \ {e})
    <3>1. {y \in u \ {e} : y[1] = NULL} = {}
      BY <1>0
    <3>2. IsInjective(<<>>)
      BY DEF IsInjective
    <3> QED
      BY <1>15, <2>1, <3>1, <3>2, FS_EmptySet DEF BlockOK
  <2> QED
    BY <1>2, <1>9, <1>12, <2>1, <2>2, <2>3, <2>4
<1>16. CASE k # 0
  <2>1. r = [block |-> m, free |-> f, allocated |-> k, end |-> b.end]
    BY <1>12, <1>14, <1>16 DEF fsb!Returned
  <2>2. r \in MemBlock
    BY <1>2, <1>3, <1>11, <2>1 DEF MemBlock
  <2>3. \A y : y \in Range(f) <=> y \in 0 .. b.end - 1 /\ <<m, y>> \notin u \ {e}
    <3>1. x \in 0 .. b.end - 1
      BY <1>1, <1>2, <1>3
    <3>2. \A y : <<m, y>> \in u \ {e} <=> <<m, y>> \in u /\ y # x
      BY <1>2
    <3> QED
      BY <1>4, <1>11, <3>1, <3>2
  <2>4. k + Len(f) = b.end
    BY <1>9, <1>11
  <2>5. BlockOK(r, u \ {e})
    BY <1>2, <1>4, <1>7, <1>8, <1>11, <2>1, <2>3, <2>4 DEF BlockOK
  <2> QED
    BY <1>2, <1>9, <1>12, <2>1, <2>2, <2>5
<1> QED
  BY <1>15, <1>16

\* The block to which the index behind an element leads is the one whose element it is.
LEMMA FsbFinds ==
  ASSUME fsb!FSBAssumption, FsbInv, NEW e \in users
  PROVE  /\ e = <<e[1], e[2]>> /\ e[1] \in Page
         /\ vectorIndex[e] \in DOMAIN data /\ data[vectorIndex[e]].block = e[1]
         /\ data[vectorIndex[e]].end \in Nat /\ e[2] \in 0 .. data[vectorIndex[e]].end - 1
<1>1. PICK i \in DOMAIN data : data[i].block = e[1] /\ e[2] < data[i].end
  BY DEF FsbInv, FsbKept
<1>2. NULL \notin Page /\ users \in SUBSET (Page \X (0 .. BlockElements - 1))
  BY FsbNumbers DEF FsbInv, FsbKept
<1>3. e = <<e[1], e[2]>> /\ e[1] \in Page /\ e[1] # NULL /\ e[2] \in Nat
  BY <1>2
<1>4. data[i].end \in Nat
  <2>1. data \in Seq(MemBlock)
    BY DEF FsbInv, FsbKept
  <2>2. data[i] \in MemBlock
    BY <1>1, <2>1
  <2> QED
    BY <2>2 DEF MemBlock
<1>5. e[2] \in 0 .. data[i].end - 1
  BY <1>1, <1>3, <1>4
<1>6. \A x \in 0 .. data[i].end - 1 : vectorIndex[<<data[i].block, x>>] = i
  BY <1>1, <1>3 DEF FsbInv, FsbKept
<1>7. vectorIndex[e] = i
  BY <1>1, <1>3, <1>5, <1>6
<1> QED
  BY <1>1, <1>3, <1>4, <1>5, <1>7

\* The index behind an element leads to its block, and a block that was full goes back on
\* the stack, where it was not.
LEMMA FsbDeallocateKeeps ==
  ASSUME fsb!FSBAssumption, FsbInv, fsb!Deallocate
  PROVE  FsbInv'
<1>0. /\ BlockElements \in Nat /\ BlockElements > 1 /\ NULL \notin Page
      /\ fsb!Element = Page \X (0 .. BlockElements - 1)
  BY FsbNumbers
<1>1. PICK e \in users :
         /\ users' = users \ {e} /\ blocksWithFree' = fsb!WithFree(vectorIndex[e])
         /\ data' = [data EXCEPT ![vectorIndex[e]] = fsb!Returned(@, e[2])]
         /\ vectorIndex' = vectorIndex
  BY DEF fsb!Deallocate
<1>2. PICK at : at = vectorIndex[e]
  OBVIOUS
<1>3. PICK b, d, w, u : b = data[at] /\ d = data /\ w = blocksWithFree /\ u = users
  OBVIOUS
<1>4. /\ FsbKept(d, w, u, vectorIndex) /\ at \in DOMAIN d /\ d[at] = b /\ b.block = e[1]
      /\ e = <<e[1], e[2]>> /\ e[1] \in Page /\ b.end \in Nat /\ e[2] \in 0 .. b.end - 1
  BY <1>2, <1>3, FsbFinds DEF FsbInv
<1>5. /\ at \in Nat /\ b \in MemBlock /\ BlockOK(b, u)
      /\ u \in SUBSET fsb!Element /\ IsFiniteSet(u)
      /\ w \in Seq(Nat) /\ IsInjective(w)
      /\ \A i : i \in Range(w) <=> i \in DOMAIN d /\ d[i].allocated # BlockElements
  <2>1. d \in Seq(MemBlock)
    BY <1>4 DEF FsbKept
  <2>2. at \in Nat /\ b \in MemBlock
    BY <1>4, <2>1
  <2> QED
    BY <1>4, <2>2 DEF FsbKept
<1>6. /\ \A j \in DOMAIN d : j # at => d[j].block # e[1]
      /\ \A x \in 0 .. b.end - 1 : vectorIndex[<<e[1], x>>] = at
  BY <1>0, <1>4 DEF FsbKept
<1>7. PICK r, u2, m : r = fsb!Returned(b, e[2]) /\ u2 = u \ {e} /\ m = e[1]
  OBVIOUS
<1>8. /\ r \in MemBlock /\ BlockOK(r, u2) /\ r.block \in {m, NULL} /\ r.end = b.end
      /\ r.allocated # BlockElements
      /\ r.block = NULL => \A y \in u2 : y[1] # m
  <2>1. e \in u /\ e[2] < b.end
    BY <1>3, <1>4
  <2>2. /\ fsb!Returned(b, e[2]) \in MemBlock /\ BlockOK(fsb!Returned(b, e[2]), u \ {e})
        /\ fsb!Returned(b, e[2]).block \in {b.block, NULL}
        /\ fsb!Returned(b, e[2]).end = b.end
        /\ fsb!Returned(b, e[2]).allocated # BlockElements
        /\ fsb!Returned(b, e[2]).block = NULL => \A y \in u \ {e} : y[1] # b.block
    BY <1>4, <1>5, <2>1, BlockReturned
  <2> QED
    BY <1>4, <1>7, <2>2
<1>9. PICK w2 : w2 = IF b.allocated = BlockElements THEN Append(w, at) ELSE w
  OBVIOUS
<1>10. /\ w2 \in Seq(Nat) /\ IsInjective(w2) /\ at \in Range(w2)
       /\ \A i : i # at => (i \in Range(w2) <=> i \in Range(w))
  <2>1. CASE b.allocated = BlockElements
    <3>1. at \notin Range(w)
      BY <1>4, <1>5, <2>1
    <3> QED
      BY <1>5, <1>9, <2>1, <3>1, ListAppend
  <2>2. CASE b.allocated # BlockElements
    BY <1>4, <1>5, <1>9, <2>2
  <2> QED
    BY <2>1, <2>2
<1>11. u2 \in SUBSET fsb!Element /\ IsFiniteSet(u2)
  BY <1>5, <1>7, FS_RemoveElement
<1>12. ASSUME NEW y \in u2, y[1] = m
       PROVE  r.block = m /\ y[2] < r.end
  <2>1. PICK i \in DOMAIN d : d[i].block = y[1] /\ y[2] < d[i].end
    BY <1>4, <1>7 DEF FsbKept
  <2>2. i = at
    BY <1>6, <1>7, <1>12, <2>1
  <2> QED
    BY <1>4, <1>8, <1>12, <2>1, <2>2
<1>13. FsbKept([d EXCEPT ![at] = r], w2, u2, vectorIndex)
  <2>1. m \in Page /\ (at \in Range(w2) <=> r.allocated # BlockElements)
    BY <1>4, <1>7, <1>8, <1>10
  <2>2. /\ \A j \in DOMAIN d : j # at => d[j].block # m
        /\ \A y \in u : y[1] # m => y[1] # d[at].block
        /\ vectorIndex \in [fsb!Element -> Nat]
    BY <1>4, <1>6, <1>7 DEF FsbKept
  <2>3. /\ \A y \in fsb!Element : y[1] # m => (y \in u2 <=> y \in u)
        /\ r.block # NULL => \A x \in 0 .. r.end - 1 : vectorIndex[<<r.block, x>>] = at
    BY <1>6, <1>7, <1>8
  <2> QED
    <3>1. Replaces(d, w, u, vectorIndex, at, r, m, u2, vectorIndex, w2)
      BY <1>4, <1>8, <1>10, <1>11, <1>12, <2>1, <2>2, <2>3 DEF Replaces
    <3> QED
      BY <1>4, <3>1, BlockReplaced
<1>14. data' = [d EXCEPT ![at] = r] /\ blocksWithFree' = w2 /\ users' = u2
  BY <1>1, <1>2, <1>3, <1>7, <1>9 DEF fsb!WithFree, fsb!isFull
<1> QED
  BY <1>1, <1>13, <1>14 DEF FsbInv

\* The invariant of FSBAllocator, while it runs.
FsbPart == part = "FSBAllocator" => FsbInv

\* Only its own steps touch its variables.
LEMMA FsbPartAlways ==
  ASSUME PoolsAssumption
  PROVE  PoolsSpec => []FsbPart
<1>0. fsb!FSBAssumption
  BY DEF PoolsAssumption
<1>1. PoolsInit => FsbPart
  <2> SUFFICES ASSUME fsb!Init
               PROVE  FsbInv
    BY DEF PoolsInit, FsbPart
  <2>1. data = <<>> /\ blocksWithFree = <<>> /\ users = {} /\ vectorIndex \in [fsb!Element -> Nat]
    BY DEF fsb!Init
  <2>2. Range(<<>>) = {} /\ IsInjective(<<>>) /\ IsFiniteSet({}) /\ DOMAIN <<>> = {}
    BY FS_EmptySet DEF Range, IsInjective
  <2> QED
    BY <2>1, <2>2 DEF FsbInv, FsbKept
<1>2. FsbPart /\ [PoolsNext /\ UNCHANGED part]_<<part, poolVars>> => FsbPart'
  <2> SUFFICES ASSUME FsbInv, part = "FSBAllocator",
                      [PoolsNext /\ UNCHANGED part]_<<part, poolVars>>, part' = part
               PROVE  FsbInv'
    BY DEF FsbPart
  <2>1. CASE PoolsNext
    <3>1. fsb!Next
      BY <2>1 DEF PoolsNext
    <3> QED
      BY <1>0, <3>1, FsbAllocateKeeps, FsbDeallocateKeeps DEF fsb!Next
  <2>2. CASE UNCHANGED <<part, poolVars>>
    <3>1. UNCHANGED <<data, blocksWithFree, users, vectorIndex>>
      BY <2>2 DEF poolVars, fsbVars
    <3> QED
      BY <3>1 DEF FsbInv
  <2> QED
    BY <2>1, <2>2
<1> QED
  BY <1>1, <1>2, PTL DEF PoolsSpec

-----------------------------------------------------------------------------
\* winnie3 and winnie4.  Chunks c and free lists f, by thread and size, of the memories n,
\* when the blocks of u are in use.
WinnieTypes(c, f, n, u) ==
    /\ c \in [Thread -> [WinnieSize -> Seq(Page)]]
    /\ f \in [Thread -> [WinnieSize -> Seq(Page \X Nat)]]
    /\ n \in SUBSET Page /\ u \in SUBSET (Page \X Nat)

\* A memory is a chunk of one thread and one size.
News(c, n) == \A m : m \in n <=> \E t \in Thread, s \in WinnieSize : m \in Range(c[t][s])

\* What is on lists, chunks or blocks, is on one of them.
ListedOnce(c) ==
    \A t, r \in Thread, s, z \in WinnieSize : \A x :
       x \in Range(c[t][s]) /\ x \in Range(c[r][z]) => t = r /\ s = z
EachOnce(f) == \A t \in Thread, s \in WinnieSize : IsInjective(f[t][s])

\* A block on a list is not in use, and of the list's size.
OfSize(b, c, s) == b[2] \in 1 .. WinnieBlocks[s] /\ \E r \in Thread : b[1] \in Range(c[r][s])
FreeOnes(c, f, u) ==
    \A t \in Thread, s \in WinnieSize : \A b \in Range(f[t][s]) : b \notin u /\ OfSize(b, c, s)

\* A block of a chunk is in use or on a list.
NoneMissing(c, f, u) ==
    \A t \in Thread, s \in WinnieSize : \A m \in Range(c[t][s]), i \in 1 .. WinnieBlocks[s] :
       <<m, i>> \in u \/ \E r \in Thread : <<m, i>> \in Range(f[r][s])

UsedOnes(c, u) == \A b \in u : \E s \in WinnieSize : OfSize(b, c, s)

WinnieKept(c, f, n, u) ==
    /\ WinnieTypes(c, f, n, u) /\ News(c, n) /\ ListedOnce(c) /\ ListedOnce(f) /\ EachOnce(f)
    /\ FreeOnes(c, f, u) /\ NoneMissing(c, f, u) /\ UsedOnes(c, u)

\* The sizes registered are those that have chunks.
RegisteredIs(c, sizes) ==
    /\ sizes \in [Thread -> Seq(WinnieSize)]
    /\ \A t \in Thread : \A s : s \in Range(sizes[t]) <=> s \in WinnieSize /\ c[t][s] # <<>>

WinnieInv ==
    /\ WinnieKept(pChunksHead, pFirstFree, news, users)
    /\ RegisteredIs(pChunksHead, pThreadAllocatorStates)

\* The operators on sequences that WinniePool uses are those of the lemmas.
LEMMA WinnieOperators ==
  \A s : states!ToSet(s) = Range(s) /\ (states!IsInjective(s) <=> IsInjective(s))
BY DEF states!ToSet, Range, states!IsInjective, IsInjective

\* What is at a thread and a size, when one entry changes.
LEMMA EntryChanged ==
  ASSUME NEW S, NEW f \in [Thread -> [WinnieSize -> S]], NEW t \in Thread,
         NEW s \in WinnieSize, NEW x \in S
  PROVE  /\ [f EXCEPT ![t][s] = x] \in [Thread -> [WinnieSize -> S]]
         /\ [f EXCEPT ![t][s] = x][t][s] = x
         /\ \A r \in Thread, z \in WinnieSize :
               r # t \/ z # s => [f EXCEPT ![t][s] = x][r][z] = f[r][z]
OBVIOUS

\* The first block of a list is handed out.
LEMMA WinnieTaken ==
  ASSUME NEW c, NEW f, NEW n, NEW u, WinnieKept(c, f, n, u),
         NEW t \in Thread, NEW s \in WinnieSize, f[t][s] # <<>>
  PROVE  WinnieKept(c, [f EXCEPT ![t][s] = Tail(f[t][s])], n, u \cup {Head(f[t][s])})
<1>0. /\ WinnieTypes(c, f, n, u) /\ News(c, n) /\ ListedOnce(c) /\ ListedOnce(f) /\ EachOnce(f)
      /\ FreeOnes(c, f, u) /\ NoneMissing(c, f, u) /\ UsedOnes(c, u)
  BY DEF WinnieKept
<1>1. PICK l, e : l = f[t][s] /\ e = Head(l)
  OBVIOUS
<1>2. /\ l \in Seq(Page \X Nat) /\ l # <<>> /\ IsInjective(l)
      /\ f \in [Thread -> [WinnieSize -> Seq(Page \X Nat)]]
  BY <1>0, <1>1 DEF WinnieTypes, EachOnce
<1>3. /\ Tail(l) \in Seq(Page \X Nat) /\ IsInjective(Tail(l)) /\ e \in Page \X Nat
      /\ e \in Range(l) /\ e \notin Range(Tail(l))
      /\ \A x : x \in Range(l) <=> x = e \/ x \in Range(Tail(l))
  BY <1>1, <1>2, ListTaken
<1>4. PICK g, v : g = [f EXCEPT ![t][s] = Tail(l)] /\ v = u \cup {e}
  OBVIOUS
<1>5. /\ g \in [Thread -> [WinnieSize -> Seq(Page \X Nat)]] /\ g[t][s] = Tail(l)
      /\ \A r \in Thread, z \in WinnieSize : r # t \/ z # s => g[r][z] = f[r][z]
  BY <1>2, <1>3, <1>4, EntryChanged
<1>6. \A r \in Thread, z \in WinnieSize : \A b :
         b \in Range(g[r][z]) <=> b \in Range(f[r][z]) /\ b # e
  <2> TAKE r \in Thread, z \in WinnieSize
  <2>1. CASE r = t /\ z = s
    BY <1>1, <1>3, <1>5, <2>1
  <2>2. CASE r # t \/ z # s
    <3>1. e \notin Range(f[r][z])
      BY <1>0, <1>1, <1>3, <2>2 DEF ListedOnce
    <3> QED
      BY <1>5, <2>2, <3>1
  <2> QED
    BY <2>1, <2>2
<1>7. EachOnce(g)
  BY <1>0, <1>3, <1>5 DEF EachOnce
<1>8. OfSize(e, c, s)
  BY <1>0, <1>1, <1>3 DEF FreeOnes
<1>9. v \in SUBSET (Page \X Nat) /\ \A b : b \in v <=> b \in u \/ b = e
  BY <1>0, <1>3, <1>4 DEF WinnieTypes
<1>10. ListedOnce(g)
  <2> SUFFICES ASSUME NEW r \in Thread, NEW q \in Thread, NEW z \in WinnieSize, NEW y \in WinnieSize,
                      NEW x, x \in Range(g[r][z]), x \in Range(g[q][y])
               PROVE  r = q /\ z = y
    BY DEF ListedOnce
  <2>1. x \in Range(f[r][z]) /\ x \in Range(f[q][y])
    BY <1>6
  <2> QED
    BY <1>0, <2>1 DEF ListedOnce
<1>11. FreeOnes(c, g, v)
  BY <1>0, <1>6, <1>9 DEF FreeOnes
<1>12. NoneMissing(c, g, v)
  BY <1>0, <1>6, <1>9 DEF NoneMissing
<1>13. UsedOnes(c, v)
  BY <1>0, <1>8, <1>9 DEF UsedOnes
<1>14. WinnieKept(c, g, n, v)
  BY <1>0, <1>5, <1>7, <1>9, <1>10, <1>11, <1>12, <1>13 DEF WinnieKept, WinnieTypes
<1> QED
  BY <1>1, <1>4, <1>14

\* A block goes back, to the list of whichever thread frees it.
LEMMA WinnieReturned ==
  ASSUME NEW c, NEW f, NEW n, NEW u, WinnieKept(c, f, n, u),
         NEW t \in Thread, NEW s \in WinnieSize, NEW e \in u,
         \E r \in Thread : e[1] \in Range(c[r][s])
  PROVE  WinnieKept(c, [f EXCEPT ![t][s] = <<e>> \o f[t][s]], n, u \ {e})
<1>0. /\ WinnieTypes(c, f, n, u) /\ News(c, n) /\ ListedOnce(c) /\ ListedOnce(f) /\ EachOnce(f)
      /\ FreeOnes(c, f, u) /\ NoneMissing(c, f, u) /\ UsedOnes(c, u)
  BY DEF WinnieKept
<1>1. PICK l, k : l = f[t][s] /\ k = <<e>> \o l
  OBVIOUS
<1>2. \A r \in Thread, z \in WinnieSize : e \notin Range(f[r][z])
  BY <1>0 DEF FreeOnes
<1>3. /\ l \in Seq(Page \X Nat) /\ IsInjective(l) /\ e \in Page \X Nat /\ e \notin Range(l)
      /\ f \in [Thread -> [WinnieSize -> Seq(Page \X Nat)]]
  BY <1>0, <1>1, <1>2 DEF WinnieTypes, EachOnce
<1>4. /\ k \in Seq(Page \X Nat) /\ IsInjective(k)
      /\ \A x : x \in Range(k) <=> x = e \/ x \in Range(l)
  BY <1>1, <1>3, ListPut
<1>5. PICK g, v : g = [f EXCEPT ![t][s] = k] /\ v = u \ {e}
  OBVIOUS
<1>6. /\ g \in [Thread -> [WinnieSize -> Seq(Page \X Nat)]] /\ g[t][s] = k
      /\ \A r \in Thread, z \in WinnieSize : r # t \/ z # s => g[r][z] = f[r][z]
  BY <1>3, <1>4, <1>5, EntryChanged
<1>7. \A r \in Thread, z \in WinnieSize : \A b :
         b \in Range(g[r][z]) <=> b \in Range(f[r][z]) \/ (b = e /\ r = t /\ z = s)
  <2> TAKE r \in Thread, z \in WinnieSize
  <2>1. CASE r = t /\ z = s
    BY <1>1, <1>4, <1>6, <2>1
  <2>2. CASE r # t \/ z # s
    BY <1>6, <2>2
  <2> QED
    BY <2>1, <2>2
<1>8. EachOnce(g)
  BY <1>0, <1>4, <1>6 DEF EachOnce
\* Its size is the one it goes back to.
<1>9. OfSize(e, c, s) /\ \A z \in WinnieSize, r \in Thread : e[1] \in Range(c[r][z]) => z = s
  <2>1. \A z \in WinnieSize, r \in Thread : e[1] \in Range(c[r][z]) => z = s
    BY <1>0 DEF ListedOnce
  <2>2. PICK z \in WinnieSize : OfSize(e, c, z)
    BY <1>0 DEF UsedOnes
  <2>3. z = s
    BY <2>1, <2>2 DEF OfSize
  <2> QED
    BY <2>1, <2>2, <2>3
<1>10. v \in SUBSET (Page \X Nat) /\ \A b : b \in v <=> b \in u /\ b # e
  BY <1>0, <1>5 DEF WinnieTypes
<1>11. ListedOnce(g)
  BY <1>0, <1>2, <1>7 DEF ListedOnce
<1>12. FreeOnes(c, g, v)
  BY <1>0, <1>7, <1>9, <1>10 DEF FreeOnes
<1>13. NoneMissing(c, g, v)
  <2> SUFFICES ASSUME NEW r \in Thread, NEW z \in WinnieSize, NEW m \in Range(c[r][z]),
                      NEW i \in 1 .. WinnieBlocks[z]
               PROVE  <<m, i>> \in v \/ \E q \in Thread : <<m, i>> \in Range(g[q][z])
    BY DEF NoneMissing
  <2>1. CASE <<m, i>> = e
    <3>1. z = s
      BY <1>9, <2>1
    <3> QED
      BY <1>7, <2>1, <3>1
  <2>2. CASE <<m, i>> # e
    <3>1. <<m, i>> \in u \/ \E q \in Thread : <<m, i>> \in Range(f[q][z])
      BY <1>0 DEF NoneMissing
    <3> QED
      BY <1>7, <1>10, <2>2, <3>1
  <2> QED
    BY <2>1, <2>2
<1>14. UsedOnes(c, v)
  BY <1>0, <1>10 DEF UsedOnes
<1>15. WinnieKept(c, g, n, v)
  BY <1>0, <1>6, <1>8, <1>10, <1>11, <1>12, <1>13, <1>14 DEF WinnieKept, WinnieTypes
<1> QED
  BY <1>1, <1>5, <1>15

\* A memory from new[] becomes a chunk, cut into blocks, when the list is empty.
LEMMA WinnieGrown ==
  ASSUME states!WinniePoolAssumption, NEW c, NEW f, NEW n, NEW u, WinnieKept(c, f, n, u),
         NEW t \in Thread, NEW s \in WinnieSize, f[t][s] = <<>>, NEW m \in Page, m \notin n
  PROVE  /\ WinnieKept([c EXCEPT ![t][s] = <<m>> \o c[t][s]],
                       [f EXCEPT ![t][s] = states!Cut(m, s)], n \cup {m}, u)
         /\ states!Cut(m, s) # <<>> /\ states!Cut(m, s) \in Seq(Page \X Nat)
<1>1. PICK k, l, x : k = states!Cut(m, s) /\ l = <<m>> \o c[t][s] /\ x = WinnieBlocks[s]
  OBVIOUS
<1>2. x \in Nat /\ x > 0
  BY <1>1 DEF states!WinniePoolAssumption
<1>3. /\ k \in Seq(Page \X Nat) /\ IsInjective(k) /\ k # <<>>
      /\ \A b : b \in Range(k) <=> \E i \in 1 .. x : b = <<m, i>>
  <2>1. k = [i \in 1 .. x |-> <<m, i>>]
    BY <1>1 DEF states!Cut
  <2>2. k \in Seq(Page \X Nat) /\ Len(k) = x /\ DOMAIN k = 1 .. x
    BY <1>2, <2>1
  <2>3. IsInjective(k)
    BY <2>1 DEF IsInjective
  <2> QED
    BY <1>2, <2>1, <2>2, <2>3 DEF Range
<1>0. /\ WinnieTypes(c, f, n, u) /\ News(c, n) /\ ListedOnce(c) /\ ListedOnce(f) /\ EachOnce(f)
      /\ FreeOnes(c, f, u) /\ NoneMissing(c, f, u) /\ UsedOnes(c, u)
  BY DEF WinnieKept
<1>4. /\ c \in [Thread -> [WinnieSize -> Seq(Page)]] /\ c[t][s] \in Seq(Page)
      /\ f \in [Thread -> [WinnieSize -> Seq(Page \X Nat)]]
      /\ n \in SUBSET Page /\ u \in SUBSET (Page \X Nat)
  BY <1>0 DEF WinnieTypes
<1>5. l \in Seq(Page) /\ \A y : y \in Range(l) <=> y = m \/ y \in Range(c[t][s])
  <2>1. PICK q : q = c[t][s]
    OBVIOUS
  <2>2. q \in Seq(Page) /\ l = <<m>> \o q
    BY <1>1, <1>4, <2>1
  <2>3. l \in Seq(Page) /\ \A y : y \in Range(l) <=> y = m \/ y \in Range(q)
    BY <2>2, PutInFront
  <2> QED
    BY <2>1, <2>3
<1>6. PICK d, g : d = [c EXCEPT ![t][s] = l] /\ g = [f EXCEPT ![t][s] = k]
  OBVIOUS
<1>7. /\ d \in [Thread -> [WinnieSize -> Seq(Page)]] /\ d[t][s] = l
      /\ \A r \in Thread, z \in WinnieSize : r # t \/ z # s => d[r][z] = c[r][z]
  BY <1>4, <1>5, <1>6, EntryChanged
<1>8. /\ g \in [Thread -> [WinnieSize -> Seq(Page \X Nat)]] /\ g[t][s] = k
      /\ \A r \in Thread, z \in WinnieSize : r # t \/ z # s => g[r][z] = f[r][z]
  BY <1>3, <1>4, <1>6, EntryChanged
<1>9. \A r \in Thread, z \in WinnieSize : \A y :
         y \in Range(d[r][z]) <=> y \in Range(c[r][z]) \/ (y = m /\ r = t /\ z = s)
  <2> TAKE r \in Thread, z \in WinnieSize
  <2>1. CASE r = t /\ z = s
    BY <1>5, <1>7, <2>1
  <2>2. CASE r # t \/ z # s
    BY <1>7, <2>2
  <2> QED
    BY <2>1, <2>2
<1>10. \A r \in Thread, z \in WinnieSize : \A b :
          b \in Range(g[r][z]) <=>
             b \in Range(f[r][z]) \/ (r = t /\ z = s /\ \E i \in 1 .. x : b = <<m, i>>)
  <2> TAKE r \in Thread, z \in WinnieSize
  <2>1. CASE r = t /\ z = s
    <3>1. Range(f[r][z]) = {}
      BY <2>1 DEF Range
    <3> QED
      BY <1>3, <1>8, <2>1, <3>1
  <2>2. CASE r # t \/ z # s
    BY <1>8, <2>2
  <2> QED
    BY <2>1, <2>2
\* None of it has been seen before.
<1>11. /\ \A r \in Thread, z \in WinnieSize : m \notin Range(c[r][z])
       /\ \A r \in Thread, z \in WinnieSize : \A i \in 1 .. x : <<m, i>> \notin Range(f[r][z])
       /\ \A i \in 1 .. x : <<m, i>> \notin u
  <2>1. \A r \in Thread, z \in WinnieSize : m \notin Range(c[r][z])
    BY <1>0 DEF News
  <2>2. \A i, z : z \in WinnieSize => ~OfSize(<<m, i>>, c, z)
    BY <2>1 DEF OfSize
  <2> QED
    BY <1>0, <2>1, <2>2 DEF FreeOnes, UsedOnes
<1>12. n \cup {m} \in SUBSET Page /\ News(d, n \cup {m})
  BY <1>0, <1>4, <1>9 DEF News
<1>13. ListedOnce(d)
  <2> SUFFICES ASSUME NEW r \in Thread, NEW q \in Thread, NEW z \in WinnieSize, NEW y \in WinnieSize,
                      NEW p, p \in Range(d[r][z]), p \in Range(d[q][y])
               PROVE  r = q /\ z = y
    BY DEF ListedOnce
  <2>1. CASE p = m
    BY <1>9, <1>11, <2>1
  <2>2. CASE p # m
    <3>1. p \in Range(c[r][z]) /\ p \in Range(c[q][y])
      BY <1>9, <2>2
    <3> QED
      BY <1>0, <3>1 DEF ListedOnce
  <2> QED
    BY <2>1, <2>2
<1>14. EachOnce(g)
  BY <1>0, <1>3, <1>8 DEF EachOnce
<1>15. ListedOnce(g)
  <2> SUFFICES ASSUME NEW r \in Thread, NEW q \in Thread, NEW z \in WinnieSize, NEW y \in WinnieSize,
                      NEW p, p \in Range(g[r][z]), p \in Range(g[q][y])
               PROVE  r = q /\ z = y
    BY DEF ListedOnce
  <2>1. CASE \E i \in 1 .. x : p = <<m, i>>
    <3>1. p \notin Range(f[r][z]) /\ p \notin Range(f[q][y])
      BY <1>11, <2>1
    <3> QED
      BY <1>10, <3>1
  <2>2. CASE ~\E i \in 1 .. x : p = <<m, i>>
    <3>1. p \in Range(f[r][z]) /\ p \in Range(f[q][y])
      BY <1>10, <2>2
    <3> QED
      BY <1>0, <3>1 DEF ListedOnce
  <2> QED
    BY <2>1, <2>2
<1>16. \A b, z : OfSize(b, c, z) /\ z \in WinnieSize => OfSize(b, d, z)
  BY <1>9 DEF OfSize
<1>17. \A i \in 1 .. x : OfSize(<<m, i>>, d, s)
  BY <1>1, <1>9 DEF OfSize
<1>18. FreeOnes(d, g, u)
  BY <1>0, <1>10, <1>11, <1>16, <1>17 DEF FreeOnes
<1>19. NoneMissing(d, g, u)
  <2> SUFFICES ASSUME NEW r \in Thread, NEW z \in WinnieSize, NEW p \in Range(d[r][z]),
                      NEW i \in 1 .. WinnieBlocks[z]
               PROVE  <<p, i>> \in u \/ \E q \in Thread : <<p, i>> \in Range(g[q][z])
    BY DEF NoneMissing
  <2>1. CASE p \in Range(c[r][z])
    <3>1. <<p, i>> \in u \/ \E q \in Thread : <<p, i>> \in Range(f[q][z])
      BY <1>0, <2>1 DEF NoneMissing
    <3> QED
      BY <1>10, <3>1
  <2>2. CASE p = m /\ r = t /\ z = s
    BY <1>1, <1>10, <2>2
  <2> QED
    BY <1>9, <2>1, <2>2
<1>20. UsedOnes(d, u)
  BY <1>0, <1>16 DEF UsedOnes
<1>21. WinnieKept(d, g, n \cup {m}, u)
  BY <1>4, <1>7, <1>8, <1>12, <1>13, <1>14, <1>15, <1>18, <1>19, <1>20 DEF WinnieKept, WinnieTypes
<1> QED
  BY <1>1, <1>3, <1>6, <1>21

\* A thread ends, and no block has gone from it to another or the other way.
LEMMA WinnieCleaned ==
  ASSUME NEW c, NEW f, NEW n, NEW u, WinnieKept(c, f, n, u), NEW t \in Thread,
         NEW k, \A m : m \in k <=> \E s \in WinnieSize : m \in Range(c[t][s]),
         \A b \in u : b[1] \notin k,
         \A r \in Thread, s \in WinnieSize : \A b \in Range(f[r][s]) : r = t <=> b[1] \in k
  PROVE  WinnieKept([c EXCEPT ![t] = states!Nothing], [f EXCEPT ![t] = states!Nothing], n \ k, u)
<1>0. /\ WinnieTypes(c, f, n, u) /\ News(c, n) /\ ListedOnce(c) /\ ListedOnce(f) /\ EachOnce(f)
      /\ FreeOnes(c, f, u) /\ NoneMissing(c, f, u) /\ UsedOnes(c, u)
  BY DEF WinnieKept
<1>1. PICK d, g : d = [c EXCEPT ![t] = states!Nothing] /\ g = [f EXCEPT ![t] = states!Nothing]
  OBVIOUS
<1>2. /\ c \in [Thread -> [WinnieSize -> Seq(Page)]]
      /\ f \in [Thread -> [WinnieSize -> Seq(Page \X Nat)]]
      /\ n \in SUBSET Page /\ u \in SUBSET (Page \X Nat)
  BY <1>0 DEF WinnieTypes
<1>3. /\ \A s \in WinnieSize : states!Nothing[s] = <<>>
      /\ states!Nothing \in [WinnieSize -> Seq(Page)]
      /\ states!Nothing \in [WinnieSize -> Seq(Page \X Nat)]
  BY DEF states!Nothing
<1>4. /\ d \in [Thread -> [WinnieSize -> Seq(Page)]]
      /\ g \in [Thread -> [WinnieSize -> Seq(Page \X Nat)]]
      /\ \A s \in WinnieSize : d[t][s] = <<>> /\ g[t][s] = <<>>
      /\ \A r \in Thread : r # t => d[r] = c[r] /\ g[r] = f[r]
  BY <1>1, <1>2, <1>3
<1>5. Range(<<>>) = {} /\ IsInjective(<<>>)
  BY DEF Range, IsInjective
<1>6. \A r \in Thread, z \in WinnieSize :
         /\ \A m : m \in Range(d[r][z]) <=> r # t /\ m \in Range(c[r][z])
         /\ \A b : b \in Range(g[r][z]) <=> r # t /\ b \in Range(f[r][z])
  BY <1>4, <1>5
<1>7. EachOnce(g)
  BY <1>0, <1>4, <1>5 DEF EachOnce
\* What the thread has is in its own chunks.
<1>8. ASSUME NEW r \in Thread, NEW z \in WinnieSize, NEW m \in Range(c[r][z])
      PROVE  r = t <=> m \in k
  BY <1>0, <1>8 DEF ListedOnce
<1>9. n \ k \in SUBSET Page /\ News(d, n \ k)
  BY <1>0, <1>2, <1>6, <1>8 DEF News
<1>10. ListedOnce(d) /\ ListedOnce(g)
  <2>1. ASSUME NEW r \in Thread, NEW q \in Thread, NEW z \in WinnieSize, NEW y \in WinnieSize, NEW x
        PROVE  /\ x \in Range(d[r][z]) /\ x \in Range(d[q][y]) => r = q /\ z = y
               /\ x \in Range(g[r][z]) /\ x \in Range(g[q][y]) => r = q /\ z = y
    <3>1. /\ x \in Range(c[r][z]) /\ x \in Range(c[q][y]) => r = q /\ z = y
          /\ x \in Range(f[r][z]) /\ x \in Range(f[q][y]) => r = q /\ z = y
      BY <1>0 DEF ListedOnce
    <3> QED
      BY <1>6, <3>1
  <2> QED
    BY <2>1 DEF ListedOnce
<1>11. \A b, z : OfSize(b, c, z) /\ z \in WinnieSize /\ b[1] \notin k => OfSize(b, d, z)
  BY <1>6, <1>8 DEF OfSize
<1>12. FreeOnes(d, g, u)
  BY <1>0, <1>6, <1>11 DEF FreeOnes
<1>13. NoneMissing(d, g, u)
  <2> SUFFICES ASSUME NEW r \in Thread, NEW z \in WinnieSize, NEW p \in Range(d[r][z]),
                      NEW i \in 1 .. WinnieBlocks[z], <<p, i>> \notin u
               PROVE  \E q \in Thread : <<p, i>> \in Range(g[q][z])
    BY DEF NoneMissing
  <2>1. p \in Range(c[r][z]) /\ p \notin k
    BY <1>6, <1>8
  <2>2. PICK q \in Thread : <<p, i>> \in Range(f[q][z])
    BY <1>0, <2>1 DEF NoneMissing
  <2>3. q # t
    BY <2>1, <2>2
  <2> QED
    BY <1>6, <2>2, <2>3
<1>14. UsedOnes(d, u)
  BY <1>0, <1>11 DEF UsedOnes
<1>15. WinnieKept(d, g, n \ k, u)
  BY <1>2, <1>4, <1>7, <1>9, <1>10, <1>12, <1>13, <1>14 DEF WinnieKept, WinnieTypes
<1> QED
  BY <1>1, <1>15

\* The four things a call may do.
LEMMA WinnieAllocateKeeps ==
  ASSUME states!WinniePoolAssumption, WinnieInv, NEW t \in Thread, NEW s \in WinnieSize,
         states!Allocate(t, s)
  PROVE  WinnieInv'
<1>1. PICK c, f, n, u, r : /\ c = pChunksHead /\ f = pFirstFree /\ n = news /\ u = users
                           /\ r = pThreadAllocatorStates
  OBVIOUS
<1>2. WinnieKept(c, f, n, u) /\ RegisteredIs(c, r)
  BY <1>1 DEF WinnieInv
<1>3. CASE f[t][s] # <<>>
  <2>1. /\ users' = u \cup {Head(f[t][s])} /\ pFirstFree' = [f EXCEPT ![t][s] = Tail(f[t][s])]
        /\ pChunksHead' = c /\ news' = n /\ pThreadAllocatorStates' = r
    BY <1>1, <1>3 DEF states!Allocate, states!HandOut
  <2>2. WinnieKept(c, [f EXCEPT ![t][s] = Tail(f[t][s])], n, u \cup {Head(f[t][s])})
    BY <1>2, <1>3, WinnieTaken
  <2> QED
    BY <1>2, <2>1, <2>2 DEF WinnieInv
<1>4. CASE f[t][s] = <<>>
  <2>1. PICK m, l : /\ m \in Page /\ m \notin n /\ l = states!Cut(m, s) /\ news' = n \cup {m}
              /\ pChunksHead' = [c EXCEPT ![t][s] = <<m>> \o c[t][s]]
              /\ users' = u \cup {Head(l)} /\ pFirstFree' = [f EXCEPT ![t][s] = Tail(l)]
              /\ pThreadAllocatorStates' = [r EXCEPT ![t] = states!Registered(t, s)]
    BY <1>1, <1>4 DEF states!Allocate, states!HandOut
  <2>2. PICK d, g : d = [c EXCEPT ![t][s] = <<m>> \o c[t][s]] /\ g = [f EXCEPT ![t][s] = l]
    OBVIOUS
  <2>3. /\ WinnieKept(d, g, n \cup {m}, u) /\ l # <<>> /\ l \in Seq(Page \X Nat)
    BY <1>2, <1>4, <2>1, <2>2, WinnieGrown
  <2>4. f \in [Thread -> [WinnieSize -> Seq(Page \X Nat)]] /\ Tail(l) \in Seq(Page \X Nat)
    BY <1>2, <2>3 DEF WinnieKept, WinnieTypes
  <2>5. g[t][s] = l /\ [g EXCEPT ![t][s] = Tail(l)] = [f EXCEPT ![t][s] = Tail(l)]
    BY <2>2, <2>4
  <2>6. WinnieKept(d, [f EXCEPT ![t][s] = Tail(l)], n \cup {m}, u \cup {Head(l)})
    BY <2>3, <2>5, WinnieTaken
  <2>7. RegisteredIs(d, pThreadAllocatorStates')
    <3>1. /\ c \in [Thread -> [WinnieSize -> Seq(Page)]] /\ c[t][s] \in Seq(Page)
          /\ r \in [Thread -> Seq(WinnieSize)] /\ r[t] \in Seq(WinnieSize)
          /\ \A z : z \in Range(r[t]) <=> z \in WinnieSize /\ c[t][z] # <<>>
      BY <1>2 DEF WinnieKept, WinnieTypes, RegisteredIs
    <3>2. <<m>> \o c[t][s] \in Seq(Page) /\ <<m>> \o c[t][s] # <<>>
      <4>1. PICK q : q = c[t][s]
        OBVIOUS
      <4>2. <<m>> \o q \in Seq(Page) /\ <<m>> \o q # <<>>
        BY <2>1, <3>1, <4>1, PutInFront
      <4> QED
        BY <4>1, <4>2
    <3>3. /\ d[t][s] # <<>>
          /\ \A q \in Thread, z \in WinnieSize : q # t \/ z # s => d[q][z] = c[q][z]
      BY <2>2, <3>1, <3>2, EntryChanged
    <3>4. PICK q : q = states!Registered(t, s)
      OBVIOUS
    <3>5. q = IF c[t][s] = <<>> THEN <<s>> \o r[t] ELSE r[t]
      BY <1>1, <3>4 DEF states!Registered, states!IsFirstChunk
    <3>6. /\ <<s>> \o r[t] \in Seq(WinnieSize)
          /\ \A z : z \in Range(<<s>> \o r[t]) <=> z = s \/ z \in Range(r[t])
      BY <3>1, PutInFront
    <3>7. q \in Seq(WinnieSize) /\ \A z : z \in Range(q) <=> z \in WinnieSize /\ d[t][z] # <<>>
      <4>1. CASE c[t][s] = <<>>
        BY <3>1, <3>3, <3>5, <3>6, <4>1
      <4>2. CASE c[t][s] # <<>>
        BY <3>1, <3>3, <3>5, <4>2
      <4> QED
        BY <4>1, <4>2
    <3>8. pThreadAllocatorStates' = [r EXCEPT ![t] = q]
      BY <2>1, <3>4
    <3> QED
      BY <1>2, <3>1, <3>3, <3>7, <3>8 DEF RegisteredIs
  <2> QED
    BY <2>1, <2>2, <2>6, <2>7 DEF WinnieInv
<1> QED
  BY <1>3, <1>4

\* A thread frees a block.
LEMMA WinnieDeallocateKeeps ==
  ASSUME WinnieInv, NEW t \in Thread, states!Deallocate(t)
  PROVE  WinnieInv'
<1>1. PICK c, f, n, u, r : /\ c = pChunksHead /\ f = pFirstFree /\ n = news /\ u = users
                           /\ r = pThreadAllocatorStates
  OBVIOUS
<1>2. WinnieKept(c, f, n, u) /\ RegisteredIs(c, r)
  BY <1>1 DEF WinnieInv
<1>3. PICK s \in WinnieSize, b \in u :
         /\ b[1] \in states!ChunksOf(s) /\ users' = u \ {b}
         /\ pFirstFree' = [f EXCEPT ![t][s] = <<b>> \o f[t][s]]
         /\ pChunksHead' = c /\ news' = n /\ pThreadAllocatorStates' = r
  BY <1>1 DEF states!Deallocate
<1>4. \E q \in Thread : b[1] \in Range(c[q][s])
  BY <1>1, <1>3, WinnieOperators DEF states!ChunksOf
<1>5. WinnieKept(c, [f EXCEPT ![t][s] = <<b>> \o f[t][s]], n, u \ {b})
  BY <1>2, <1>3, <1>4, WinnieReturned
<1> QED
  BY <1>2, <1>3, <1>5 DEF WinnieInv

\* A thread cleans up: what is registered is all it has.
LEMMA WinnieCleanKeeps ==
  ASSUME WinnieInv, NEW t \in Thread, states!CleanThreadAllocatorState(t)
  PROVE  WinnieInv'
<1>1. PICK c, f, n, u, r : /\ c = pChunksHead /\ f = pFirstFree /\ n = news /\ u = users
                           /\ r = pThreadAllocatorStates
  OBVIOUS
<1>2. WinnieKept(c, f, n, u) /\ RegisteredIs(c, r)
  BY <1>1 DEF WinnieInv
<1>3. PICK k : k = states!Chunks(t)
  OBVIOUS
<1>4. \A m : m \in k <=> \E s \in WinnieSize : m \in Range(c[t][s])
  BY <1>1, <1>3, WinnieOperators DEF states!Chunks
<1>5. UNION {states!ToSet(pChunksHead[t][s]) : s \in states!ToSet(pThreadAllocatorStates[t])} = k
  <2>1. \A s : s \in Range(r[t]) <=> s \in WinnieSize /\ c[t][s] # <<>>
    BY <1>2 DEF RegisteredIs
  <2>2. Range(<<>>) = {}
    BY DEF Range
  <2> QED
    BY <1>1, <1>4, <2>1, <2>2, WinnieOperators
<1>6. /\ \A b \in u : b[1] \notin k
      /\ \A q \in Thread, s \in WinnieSize : \A b \in Range(f[q][s]) : q = t <=> b[1] \in k
  BY <1>1, <1>3, WinnieOperators
     DEF states!CleanThreadAllocatorState, states!KeptApart, states!OnList
<1>7. /\ news' = n \ k /\ users' = u
      /\ pChunksHead' = [c EXCEPT ![t] = states!Nothing]
      /\ pFirstFree' = [f EXCEPT ![t] = states!Nothing]
      /\ pThreadAllocatorStates' = [r EXCEPT ![t] = <<>>]
  BY <1>1, <1>5 DEF states!CleanThreadAllocatorState
<1>8. WinnieKept([c EXCEPT ![t] = states!Nothing], [f EXCEPT ![t] = states!Nothing], n \ k, u)
  BY <1>2, <1>4, <1>6, WinnieCleaned
<1>9. RegisteredIs([c EXCEPT ![t] = states!Nothing], [r EXCEPT ![t] = <<>>])
  <2>1. Range(<<>>) = {} /\ \A s \in WinnieSize : states!Nothing[s] = <<>>
    BY DEF Range, states!Nothing
  <2>2. c \in [Thread -> [WinnieSize -> Seq(Page)]] /\ r \in [Thread -> Seq(WinnieSize)]
    BY <1>2 DEF WinnieKept, WinnieTypes, RegisteredIs
  <2> QED
    BY <1>2, <2>1, <2>2 DEF RegisteredIs
<1> QED
  BY <1>7, <1>8, <1>9 DEF WinnieInv

\* The invariant of winnie3 and winnie4, while they run.
WinniePart == part = "winnie3" => WinnieInv

\* Only their own steps touch their variables.
LEMMA WinniePartAlways ==
  ASSUME PoolsAssumption
  PROVE  PoolsSpec => []WinniePart
<1>0. states!WinniePoolAssumption
  BY DEF PoolsAssumption
<1>1. PoolsInit => WinniePart
  <2> SUFFICES ASSUME states!Init
               PROVE  WinnieInv
    BY DEF PoolsInit, WinniePart
  <2>1. /\ pChunksHead \in [Thread -> [WinnieSize -> Seq(Page)]]
        /\ pFirstFree \in [Thread -> [WinnieSize -> Seq(Page \X Nat)]]
        /\ pThreadAllocatorStates \in [Thread -> Seq(WinnieSize)]
        /\ \A t \in Thread, s \in WinnieSize : pChunksHead[t][s] = <<>> /\ pFirstFree[t][s] = <<>>
        /\ \A t \in Thread : pThreadAllocatorStates[t] = <<>>
        /\ news = {} /\ users = {}
    BY DEF states!Init, states!Nothing
  <2>2. Range(<<>>) = {} /\ IsInjective(<<>>)
    BY DEF Range, IsInjective
  <2> QED
    BY <2>1, <2>2 DEF WinnieInv, WinnieKept, WinnieTypes, News, ListedOnce, EachOnce, FreeOnes,
                      NoneMissing, UsedOnes, RegisteredIs
<1>2. WinniePart /\ [PoolsNext /\ UNCHANGED part]_<<part, poolVars>> => WinniePart'
  <2> SUFFICES ASSUME WinnieInv, part = "winnie3",
                      [PoolsNext /\ UNCHANGED part]_<<part, poolVars>>, part' = part
               PROVE  WinnieInv'
    BY DEF WinniePart
  <2>1. CASE PoolsNext
    <3>1. states!Next
      BY <2>1 DEF PoolsNext
    <3> QED
      BY <1>0, <3>1, WinnieAllocateKeeps, WinnieDeallocateKeeps, WinnieCleanKeeps DEF states!Next
  <2>2. CASE UNCHANGED <<part, poolVars>>
    <3>1. UNCHANGED <<pChunksHead, pFirstFree, pThreadAllocatorStates, news, users>>
      BY <2>2 DEF poolVars, statesVars
    <3> QED
      BY <3>1 DEF WinnieInv
  <2> QED
    BY <2>1, <2>2
<1> QED
  BY <1>1, <1>2, PTL DEF PoolsSpec

-----------------------------------------------------------------------------
\* Freeing finds the chunk or block of memory that an address belongs to: MicroAllocator
\* by the table of chunks, whichever thread frees, and FSBAllocator by the index behind
\* the element, also when its memory belonged to another block before.
THEOREM FoundAgainTheorem ==
  ASSUME PoolsAssumption
  PROVE  PoolsSpec => []FoundAgain
<1>0. fsb!FSBAssumption
  BY DEF PoolsAssumption
<1>1. MicroPart /\ FsbPart => FoundAgain
  <2>1. MicroPart => (part = "MicroAllocator" => micro!FreedWhereItBelongs)
    BY DEF MicroPart, micro!MicroInv
  <2>2. FsbInv => fsb!FreedWhereItBelongs
    BY <1>0, FsbFinds DEF fsb!FreedWhereItBelongs
  <2> QED
    BY <2>1, <2>2 DEF FsbPart, FoundAgain
<1> QED
  BY <1>1, MicroPartAlways, FsbPartAlways, PTL

\* FSBAllocator: every element ever handed out of a memory still held is in use or on the
\* list of its block, once, and the memory of no element in use has been given up.
THEOREM FSBTiledTheorem ==
  ASSUME PoolsAssumption
  PROVE  PoolsSpec => [](part = "FSBAllocator" => fsb!Tiled)
<1>0. fsb!FSBAssumption
  BY DEF PoolsAssumption
<1>1. FsbPart => (part = "FSBAllocator" => fsb!Tiled)
  <2> SUFFICES ASSUME FsbInv
               PROVE  fsb!Tiled
    BY DEF FsbPart
  <2>1. {e[1] : e \in users} \subseteq {data[i].block : i \in DOMAIN data}
    BY <1>0, FsbFinds
  <2>2. ASSUME NEW i \in DOMAIN data
        PROVE  LET b    == data[i]
                   here == IF b.block = NULL THEN {} ELSE {b.block} \X (0 .. b.end - 1)
               IN  {<<b.block, x>> : x \in Range(b.free)} = here \ users /\ IsInjective(b.free)
    <3>1. PICK b : b = data[i]
      OBVIOUS
    <3>2. BlockOK(b, users)
      BY <3>1 DEF FsbInv, FsbKept
    <3>3. CASE b.block = NULL
      <4>1. Range(b.free) = {}
        BY <3>2, <3>3 DEF BlockOK, Range
      <4> QED
        BY <3>1, <3>2, <3>3, <4>1 DEF BlockOK
    <3>4. CASE b.block # NULL
      <4>1. \A x : x \in Range(b.free) <=> x \in 0 .. b.end - 1 /\ <<b.block, x>> \notin users
        BY <3>2, <3>4 DEF BlockOK
      <4>2. {<<b.block, x>> : x \in Range(b.free)} = ({b.block} \X (0 .. b.end - 1)) \ users
        BY <4>1
      <4> QED
        BY <3>1, <3>2, <3>4, <4>2 DEF BlockOK
    <3> QED
      BY <3>3, <3>4
  <2> QED
    BY <2>1, <2>2, FsbOperators DEF fsb!Tiled
<1> QED
  BY <1>1, FsbPartAlways, PTL

\* FSBAllocator: the counters are exact, and a block that is not full is on the stack once.
THEOREM FSBCountersExactTheorem ==
  ASSUME PoolsAssumption
  PROVE  PoolsSpec => [](part = "FSBAllocator" => fsb!CountersExact)
<1>1. FsbPart => (part = "FSBAllocator" => fsb!CountersExact)
  <2> SUFFICES ASSUME FsbInv
               PROVE  fsb!CountersExact
    BY DEF FsbPart
  <2>1. \A i \in DOMAIN data :
           data[i].allocated = Cardinality({e \in users : e[1] = data[i].block})
    BY DEF FsbInv, FsbKept, BlockOK
  <2>2. IsInjective(blocksWithFree)
    BY DEF FsbInv, FsbKept
  <2>3. Range(blocksWithFree) = {i \in DOMAIN data : data[i].allocated # BlockElements}
    BY DEF FsbInv, FsbKept
  <2> QED
    BY <2>1, <2>2, <2>3, FsbOperators DEF fsb!CountersExact, fsb!isFull
<1> QED
  BY <1>1, FsbPartAlways, PTL

\* MicroAllocator's addMicroChunk() and removeMicroChunk(): the table by which addresses
\* are looked up has the chunks in memory of the heap and no others, in the order of their
\* addresses, and the place of the last hit is in it.
THEOREM TableExactTheorem ==
  ASSUME PoolsAssumption
  PROVE  PoolsSpec => []TableExact
<1>1. MicroPart => TableExact
  BY DEF MicroPart, TableExact, micro!MicroInv
<1> QED
  BY <1>1, MicroPartAlways, PTL

\* FSBAllocator2: the elements handed out of the blocks held are in use or on the list,
\* once; in particular no block goes back in deallocate() while an element of it is in use.
THEOREM FSB2TiledTheorem ==
  ASSUME PoolsAssumption
  PROVE  PoolsSpec => [](part = "FSBAllocator2" => fsb2!Tiled)
<1>1. Fsb2Part => (part = "FSBAllocator2" => fsb2!Tiled)
  BY SameOperators, HandedOutIsGiven DEF Fsb2Part, Fsb2Inv, Fsb2Kept, fsb2!Tiled
<1> QED
  BY <1>1, Fsb2PartAlways, PTL

\* FSBAllocator2: the count that decides when all blocks go is that of the elements in use.
THEOREM FSB2CountTheorem ==
  ASSUME PoolsAssumption
  PROVE  PoolsSpec => [](part = "FSBAllocator2" => fsb2!CountExact)
<1>1. Fsb2Part => (part = "FSBAllocator2" => fsb2!CountExact)
  BY DEF Fsb2Part, Fsb2Inv
<1> QED
  BY <1>1, Fsb2PartAlways, PTL

\* winnie3 and winnie4: chunks belong to one thread and one size, and none is left when its
\* thread has ended, though the size was registered only with the first; their blocks are
\* in use or on a list of that size, once, whichever threads freed them.
THEOREM WinnieTiledTheorem ==
  ASSUME PoolsAssumption
  PROVE  PoolsSpec => [](part = "winnie3" => states!Tiled)
<1>1. WinniePart => (part = "winnie3" => states!Tiled)
  <2> SUFFICES ASSUME WinnieInv
               PROVE  states!Tiled
    BY DEF WinniePart
  <2>0. /\ WinnieTypes(pChunksHead, pFirstFree, news, users) /\ News(pChunksHead, news)
        /\ ListedOnce(pChunksHead) /\ ListedOnce(pFirstFree) /\ EachOnce(pFirstFree)
        /\ FreeOnes(pChunksHead, pFirstFree, users)
        /\ NoneMissing(pChunksHead, pFirstFree, users) /\ UsedOnes(pChunksHead, users)
    BY DEF WinnieInv, WinnieKept
  <2>1. news = UNION {states!Chunks(t) : t \in Thread}
    <3>1. \A m : m \in news <=> \E t \in Thread, s \in WinnieSize : m \in Range(pChunksHead[t][s])
      BY <2>0 DEF News
    <3> QED
      BY <3>1, WinnieOperators DEF states!Chunks
  <2>2. ASSUME NEW k \in states!Lists, NEW l \in states!Lists, k # l
        PROVE  /\ states!ToSet(states!Free(k)) \cap states!ToSet(states!Free(l)) = {}
               /\ states!ToSet(pChunksHead[k[1]][k[2]])
                    \cap states!ToSet(pChunksHead[l[1]][l[2]]) = {}
    <3>1. PICK r, q \in Thread, z, y \in WinnieSize :
             r = k[1] /\ z = k[2] /\ q = l[1] /\ y = l[2] /\ ~(r = q /\ z = y)
      BY <2>2 DEF states!Lists
    <3>2. r # q \/ z # y
      BY <3>1
    <3>3. PICK c, f : c = pChunksHead /\ f = pFirstFree
      OBVIOUS
    <3>4. ListedOnce(c) /\ ListedOnce(f)
      BY <2>0, <3>3
    <3>5. ASSUME NEW x
          PROVE  ~(x \in Range(f[r][z]) /\ x \in Range(f[q][y]))
      BY <3>2, <3>4 DEF ListedOnce
    <3>6. ASSUME NEW x
          PROVE  ~(x \in Range(c[r][z]) /\ x \in Range(c[q][y]))
      BY <3>2, <3>4 DEF ListedOnce
    <3> QED
      BY <3>1, <3>3, <3>5, <3>6, WinnieOperators DEF states!Free
  <2>3. ASSUME NEW l \in states!Lists
        PROVE  states!IsInjective(states!Free(l)) /\ states!ToSet(states!Free(l)) \cap users = {}
    <3>1. l[1] \in Thread /\ l[2] \in WinnieSize
      BY DEF states!Lists
    <3> QED
      BY <2>0, <3>1, WinnieOperators DEF EachOnce, FreeOnes, states!Free
  <2>4. ASSUME NEW s \in WinnieSize
        PROVE  (states!ChunksOf(s) \X (1 .. WinnieBlocks[s])) \ users
                  = UNION {states!ToSet(pFirstFree[t][s]) : t \in Thread}
    <3>1. \A m : m \in states!ChunksOf(s) <=> \E t \in Thread : m \in Range(pChunksHead[t][s])
      BY WinnieOperators DEF states!ChunksOf
    <3>2. ASSUME NEW b, b \in states!ChunksOf(s) \X (1 .. WinnieBlocks[s]), b \notin users
          PROVE  \E t \in Thread : b \in Range(pFirstFree[t][s])
      <4>1. b = <<b[1], b[2]>> /\ b[2] \in 1 .. WinnieBlocks[s]
        BY <3>2
      <4>2. PICK t \in Thread : b[1] \in Range(pChunksHead[t][s])
        BY <3>1, <3>2
      <4> QED
        BY <2>0, <3>2, <4>1, <4>2 DEF NoneMissing
    <3>3. ASSUME NEW t \in Thread, NEW b \in Range(pFirstFree[t][s])
          PROVE  b \in states!ChunksOf(s) \X (1 .. WinnieBlocks[s]) /\ b \notin users
      <4>1. pFirstFree[t][s] \in Seq(Page \X Nat)
        BY <2>0 DEF WinnieTypes
      <4>2. b \in Page \X Nat
        BY <3>3, <4>1 DEF Range
      <4>3. b \notin users /\ b[2] \in 1 .. WinnieBlocks[s] /\ b[1] \in states!ChunksOf(s)
        BY <2>0, <3>1, <3>3 DEF FreeOnes, OfSize
      <4> QED
        BY <4>2, <4>3
    <3> QED
      BY <3>2, <3>3, WinnieOperators
  <2>5. \A b \in users : b[1] \in news
    BY <2>0 DEF UsedOnes, OfSize, News
  <2> QED
    BY <2>1, <2>2, <2>3, <2>4, <2>5 DEF states!Tiled
<1> QED
  BY <1>1, WinniePartAlways, PTL
=============================================================================
