------------------------- MODULE ReaderWriterQueue --------------------------
(***************************************************************************)
(* The single-producer single-consumer queue of readerwriterqueue.h: a     *)
(* ring of blocks, each a ring buffer.  The producer owns tailBlock, every *)
(* tail and every next; the consumer owns frontBlock and every front; each *)
(* reads what the other owns without a lock.                               *)
(*                                                                         *)
(* Atomicity.  A step reads or writes at most one location that the other  *)
(* thread writes, and an element is constructed or moved in a step of its  *)
(* own.  Loads and stores take effect in program order: that is what the   *)
(* acquire and release fences around them ask for, and the effects of      *)
(* weaker memory are not modelled.                                         *)
(***************************************************************************)
EXTENDS Integers, Sequences, FiniteSets, SequencesExt

CONSTANTS
    Block,          \* addresses of blocks; as many as memory for the ring
    maxSize,        \* the argument of the constructor
    LABELS,         \* the producer numbers its elements modulo LABELS
    MaxLength,      \* bound: the application enqueues below that length only
    NULL

ASSUME QueueAssumption ==
    /\ IsFiniteSet(Block) /\ Block # {} /\ NULL \notin Block \cup (0 .. LABELS - 1)
    /\ maxSize \in Nat \ {0} /\ LABELS \in Nat \ {0}
    /\ MaxLength \in Nat

VARIABLES
    frontBlock, tailBlock, largestBlockSize,
    blocks,         \* the blocks that exist
    size, front, tail, next, data,
    \* inner_enqueue
    pp, element, canAlloc,
    \* try_dequeue
    cp, tailBlockAtStart, moved,
    \* the application: the number of its next element, the last result
    sent, result,
    freed,          \* what the destructor gave back
    present         \* (for FalseMeansEmpty) there was an element when try_dequeue began

ringVars     == <<frontBlock, tailBlock, largestBlockSize, blocks, size, front, tail, next, data>>
producerVars == <<pp, element, canAlloc>>
consumerVars == <<cp, tailBlockAtStart, moved, present>>
vars == <<ringVars, producerVars, consumerVars, sent, result, freed>>

\* The smallest power of two that is not less than x: the block has a spare slot.
ceilToPow2(x) ==
    LET double[p \in Nat] == IF p >= x THEN p ELSE double[2 * p] IN double[1]

FirstSize_NoSpare == ceilToPow2(maxSize)
FirstSize == ceilToPow2(maxSize + 1)

Empty(n) == [i \in 0 .. n - 1 |-> NULL]

\* Blocks are not freed before the end, and addresses only compared for equality: it
\* does not matter which one malloc() returns.
Fresh(taken) == CHOOSE b \in Block : b \notin taken

Init ==
    /\ LET b == Fresh({}) IN
          /\ frontBlock = b /\ tailBlock = b /\ blocks = {b}
          /\ next = [x \in Block |-> b]
    /\ largestBlockSize = FirstSize
    /\ size = [b \in Block |-> FirstSize]
    /\ front = [b \in Block |-> 0]
    /\ tail = [b \in Block |-> 0]
    /\ data = [b \in Block |-> Empty(FirstSize)]
    /\ pp = "idle" /\ element = NULL /\ canAlloc = FALSE
    /\ cp = "idle" /\ tailBlockAtStart = NULL /\ moved = NULL
    /\ sent = 0 /\ result = -1 /\ freed = {} /\ present = FALSE

\* (i + 1) & sizeMask(), the size being a power of two
After_NoMask(b, i) == IF i + 1 > size[b] THEN 0 ELSE i + 1
After(b, i) == (i + 1) % size[b]

\* The blocks met from frontBlock along next.
Walk ==
    LET walk[i \in 0 .. Cardinality(blocks)] ==
            IF i = 0 THEN frontBlock ELSE next[walk[i - 1]]
    IN  walk

\* The slot the consumer moves an element from.
ReadSlot == <<frontBlock, front[frontBlock]>>

\* The elements of block b; the one being moved out is in the queue until its
\* slot is released.
Elements(b) ==
    [k \in 1 .. (tail[b] - front[b]) % size[b] |->
        LET i == (front[b] + k - 1) % size[b]
        IN  IF cp = "release" /\ <<b, i>> = ReadSlot THEN moved ELSE data[b][i]]

\* The elements from frontBlock to tailBlock.
Queue ==
    LET last == CHOOSE i \in 0 .. Cardinality(blocks) - 1 :
                   Walk[i] = tailBlock /\ \A j \in 0 .. i - 1 : Walk[j] # tailBlock
    IN  FlattenSeq([i \in 1 .. last + 1 |-> Elements(Walk[i - 1])])

-----------------------------------------------------------------------------
(* inner_enqueue: enqueue and try_enqueue *)

HasRoom_OffByOne(b) == After(b, After(b, tail[b])) # front[b]
HasRoom(b) == After(b, tail[b]) # front[b]

\* tailBlock and its tail are the producer's own, front may change at once.
Enqueue(alloc) ==
    /\ pp = "idle" /\ Len(Queue) < MaxLength
    /\ pp' = IF HasRoom(tailBlock) THEN "room" ELSE "full"
    /\ element' = sent
    /\ canAlloc' = alloc
    /\ UNCHANGED <<ringVars, consumerVars, sent, result, freed>>

Construct(b, i) == data' = [data EXCEPT ![b][i] = element]

\* The element is in the queue: the call returns.
Published ==
    /\ sent' = (sent + 1) % LABELS
    /\ element' = NULL /\ canAlloc' = FALSE
    /\ UNCHANGED <<consumerVars, result, freed>>

Keep == UNCHANGED <<element, canAlloc, consumerVars, sent, result, freed>>

RoomConstruct ==
    /\ pp = "room" /\ pp' = "publish"
    /\ Construct(tailBlock, tail[tailBlock])
    /\ UNCHANGED <<frontBlock, tailBlock, largestBlockSize, blocks, size, front, tail, next>>
    /\ Keep

RoomPublish ==
    /\ pp = "publish" /\ pp' = "idle"
    /\ tail' = [tail EXCEPT ![tailBlock] = After(tailBlock, tail[tailBlock])]
    /\ UNCHANGED <<frontBlock, tailBlock, largestBlockSize, blocks, size, front, next, data>>
    /\ Published

NextIsFree_Always == next[tailBlock] # tailBlock
NextIsFree == next[tailBlock] # frontBlock

\* tailBlock_->next.load() != frontBlock
NextFree ==
    /\ pp = "full" /\ NextIsFree
    /\ pp' = "reuse"
    /\ UNCHANGED ringVars
    /\ Keep

\* There is no free block ahead: a new one, or failure.
NoNextFree ==
    /\ pp = "full" /\ ~NextIsFree
    /\ UNCHANGED <<ringVars, consumerVars, sent, result, freed>>
    /\ IF canAlloc
       THEN pp' = "new" /\ UNCHANGED <<element, canAlloc>>
       ELSE pp' = "idle" /\ element' = NULL /\ canAlloc' = FALSE

ReuseConstruct ==
    /\ pp = "reuse" /\ pp' = "reusePublish"
    /\ Construct(next[tailBlock], tail[next[tailBlock]])
    /\ UNCHANGED <<frontBlock, tailBlock, largestBlockSize, blocks, size, front, tail, next>>
    /\ Keep

ReusePublish ==
    /\ pp = "reusePublish" /\ pp' = "advance"
    /\ tail' = [tail EXCEPT ![next[tailBlock]] = After(next[tailBlock], @)]
    /\ UNCHANGED <<frontBlock, tailBlock, largestBlockSize, blocks, size, front, next, data>>
    /\ Keep

\* The new block holds the element before anyone can reach it.
NewBlock ==
    /\ pp = "new" /\ pp' = "link"
    /\ blocks # Block
    /\ LET b == Fresh(blocks) IN
          /\ largestBlockSize' = 2 * largestBlockSize
          /\ blocks' = blocks \cup {b}
          /\ size' = [size EXCEPT ![b] = largestBlockSize']
          /\ data' = [data EXCEPT ![b] = [Empty(largestBlockSize') EXCEPT ![0] = element]]
          /\ front' = [front EXCEPT ![b] = 0]
          /\ tail' = [tail EXCEPT ![b] = 1]
          /\ next' = [next EXCEPT ![b] = next[tailBlock]]
    /\ UNCHANGED <<frontBlock, tailBlock>>
    /\ Keep

\* tailBlock_->next = newBlock: the block whose next is where tailBlock_'s was.
Link ==
    /\ pp = "link" /\ pp' = "advance"
    /\ \E b \in blocks \ {tailBlock} :
          /\ largestBlockSize = size[b]
          /\ next' = [next EXCEPT ![tailBlock] = b]
    /\ UNCHANGED <<frontBlock, tailBlock, largestBlockSize, blocks, size, front, tail, data>>
    /\ Keep

\* tailBlock = tailBlockNext, tailBlock = newBlock
Advance ==
    /\ pp = "advance" /\ pp' = "idle"
    /\ tailBlock' = next[tailBlock]
    /\ UNCHANGED <<frontBlock, largestBlockSize, blocks, size, front, tail, next, data>>
    /\ Published

Producer ==
    \/ RoomConstruct \/ RoomPublish \/ NextFree \/ NoNextFree
    \/ ReuseConstruct \/ ReusePublish \/ NewBlock \/ Link \/ Advance

-----------------------------------------------------------------------------
(* try_dequeue *)

Idle == UNCHANGED <<producerVars, sent, freed>>
TailFrame == UNCHANGED <<tailBlock, largestBlockSize, blocks, size, tail, next>>

Dequeue ==
    /\ cp = "idle" /\ cp' = "look"
    /\ tailBlockAtStart' = tailBlock
    /\ present' = (Queue # <<>>)
    /\ UNCHANGED <<ringVars, moved, result>>
    /\ Idle

\* frontBlock and its front are the consumer's own, tail may change at once.
Look ==
    /\ cp = "look"
    /\ cp' = IF front[frontBlock] # tail[frontBlock] THEN "move" ELSE "empty"
    /\ UNCHANGED <<ringVars, tailBlockAtStart, moved, present, result>>
    /\ Idle

LastBlock_Now == frontBlock = tailBlock
LastBlock_Assumed == TRUE
LastBlock == frontBlock = tailBlockAtStart

\* return false
NoElement ==
    /\ cp = "empty" /\ LastBlock
    /\ cp' = "idle" /\ tailBlockAtStart' = NULL /\ present' = FALSE
    /\ UNCHANGED <<ringVars, moved, result>>
    /\ Idle

\* frontBlock = nextBlock, which is known to hold an element: from here on the
\* producer may reuse the old block.
EnterNext ==
    /\ cp = "empty" /\ ~LastBlock
    /\ cp' = "move"
    /\ frontBlock' = next[frontBlock]
    /\ UNCHANGED <<front, data, tailBlockAtStart, moved, present, result>>
    /\ TailFrame /\ Idle

\* result = std::move(*element); element->~T()
MoveOut ==
    /\ cp = "move" /\ cp' = "release"
    /\ moved' = data[frontBlock][front[frontBlock]]
    /\ data' = [data EXCEPT ![frontBlock][front[frontBlock]] = NULL]
    /\ UNCHANGED <<frontBlock, front, tailBlockAtStart, present, result>>
    /\ TailFrame /\ Idle

Release ==
    /\ cp = "release" /\ cp' = "idle"
    /\ front' = [front EXCEPT ![frontBlock] = After(frontBlock, @)]
    /\ result' = moved
    /\ moved' = NULL /\ tailBlockAtStart' = NULL /\ present' = FALSE
    /\ UNCHANGED <<frontBlock, data>>
    /\ TailFrame /\ Idle

Consumer == Look \/ NoElement \/ EnterNext \/ MoveOut \/ Release

-----------------------------------------------------------------------------
\* ~ReaderWriterQueue, once both threads are done with the queue: the loop stops
\* when it meets tailBlock after its first step.
Destroy ==
    /\ pp = "idle" /\ cp = "idle"
    /\ pp' = "gone" /\ cp' = "gone"
    /\ freed' = {Walk[i] : i \in {j \in 0 .. Cardinality(blocks) - 1 :
                                     \A k \in 1 .. j : Walk[k] # tailBlock}}
    /\ UNCHANGED <<ringVars, element, canAlloc, tailBlockAtStart, moved, present, sent, result>>

Next ==
    \/ \E alloc \in BOOLEAN : Enqueue(alloc)
    \/ Dequeue \/ Producer \/ Consumer \/ Destroy

Spec == Init /\ [][Next]_vars

\* A call that was begun is finished, and the consumer keeps calling.
FairSpec == Spec /\ WF_vars(Producer) /\ WF_vars(Consumer) /\ WF_vars(Dequeue)

-----------------------------------------------------------------------------
\* Every variable has its type; indices stay inside their block.
TypeOK ==
    /\ blocks \subseteq Block /\ freed \subseteq blocks
    /\ frontBlock \in blocks /\ tailBlock \in blocks
    /\ largestBlockSize \in Nat
    /\ size \in [Block -> Nat] /\ next \in [Block -> blocks]
    /\ \A b \in blocks :
          /\ front[b] \in 0 .. size[b] - 1 /\ tail[b] \in 0 .. size[b] - 1
          /\ data[b] \in [0 .. size[b] - 1 -> 0 .. LABELS - 1 \cup {NULL}]
    /\ pp \in {"idle", "room", "publish", "full", "reuse", "reusePublish", "new", "link",
               "advance", "gone"}
    /\ cp \in {"idle", "look", "empty", "move", "release", "gone"}
    /\ element \in 0 .. LABELS - 1 \cup {NULL} /\ moved \in 0 .. LABELS - 1 \cup {NULL}
    /\ canAlloc \in BOOLEAN /\ tailBlockAtStart \in blocks \cup {NULL}
    /\ sent \in 0 .. LABELS - 1 /\ result \in -1 .. LABELS - 1
    /\ present \in BOOLEAN

\* The slot the producer constructs in next.
WriteSlot ==
    IF pp = "room" THEN <<tailBlock, tail[tailBlock]>>
    ELSE <<next[tailBlock], tail[next[tailBlock]]>>

\* Without a lock, the threads keep out of each other's slots: an element is
\* constructed where there is none and where the consumer is not at work, and
\* an element is moved out of a slot only if there is one.
SlotsKeptApart ==
    /\ pp \in {"room", "reuse"} =>
          /\ data[WriteSlot[1]][WriteSlot[2]] = NULL
          /\ cp \in {"move", "release"} => WriteSlot # ReadSlot
    /\ cp = "move" => data[ReadSlot[1]][ReadSlot[2]] # NULL

\* What the code asserts: the block the consumer goes on to holds an element, and
\* the block the producer takes into use again is empty and is not the front one.
AssertionsHold ==
    /\ cp = "empty" /\ ~LastBlock => front[next[frontBlock]] # tail[next[frontBlock]]
    /\ pp = "reuse" => /\ front[next[tailBlock]] = tail[next[tailBlock]]
                       /\ next[tailBlock] # frontBlock

\* What is put in comes out once, in order, across every change of blocks.
Contract == INSTANCE Fifo WITH queue <- Queue
KeepsOrder == Contract!FSpec

\* A try_dequeue that returns false found nothing because there was nothing when it
\* began, though the producer may have gone on to other blocks since: "if the queue
\* is empty, returns false instead".
FalseMeansEmpty == cp = "empty" /\ LastBlock => ~present

\* try_enqueue fails, and enqueue allocates, only when the queue holds at least the
\* maxSize elements it was made for.
RoomForMaxSize == [][pp = "idle" /\ pp' = "full" => Len(Queue) >= maxSize]_vars

\* A consumer that keeps calling gets every element, wherever the producer put it.
Delivered ==
    \A v \in 0 .. LABELS - 1 :
        (\E i \in 1 .. Len(Queue) : Queue[i] = v) ~> (result = v \/ pp = "gone")

\* "Destroy any remaining objects in queue and free memory": the destructor frees
\* every block.
DestructorFreesAll == pp = "gone" => freed = blocks
=============================================================================
