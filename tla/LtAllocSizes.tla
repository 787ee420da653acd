---------------------------- MODULE LtAllocSizes ----------------------------
(***************************************************************************)
(* The arithmetic of ltalloc that LtAlloc takes for granted: how a request *)
(* becomes a size class, how a chunk is cut into blocks of a class, what   *)
(* an address tells about its block, and what ltmemalign and ltrealloc may *)
(* rely on.  One block goes through the interface.  64-bit pointers,       *)
(* LTALLOC_SIZE_CLASSES_SUBPOWER_OF_TWO = 2.                               *)
(***************************************************************************)
EXTENDS Integers, FiniteSets, FiniteSetsExt

CONSTANTS
    Request,        \* bound: the sizes asked for
    Alignment       \* bound: the alignments asked for, powers of two

POINTER    == 8
SUBPOWER   == 2
CHUNK_SIZE == 65536
CACHE_LINE == 64
MAX_BATCH_SIZE == 65536
MAX_NUM_OF_BLOCKS_IN_BATCH == 256
MAX_BLOCK_SIZE == Min({CHUNK_SIZE, CHUNK_SIZE - CHUNK_SIZE \div 2^(1 + SUBPOWER)})
NUM_OF_BATCHES_IN_CHUNK_SM == CHUNK_SIZE \div (POINTER * MAX_NUM_OF_BLOCKS_IN_BATCH)

SizesAssumption ==
    /\ Request \subseteq Nat
    /\ \A a \in Alignment : a <= CHUNK_SIZE /\ \E k \in 0 .. 16 : a = 2^k

Up(x, a) == ((x + a - 1) \div a) * a

\* The index of the highest bit that is set.
BSR(v) == CHOOSE i \in 0 .. 29 : 2^i <= v /\ v < 2^(i + 1)

\* size > 0: fetch_from_central_cache makes 0 a 1.
get_size_class(size) ==
    LET last == Up(size, POINTER) - 1
        index == BSR(last)
    IN  index * 2^SUBPOWER + last \div 2^(index - SUBPOWER)

class_to_size(c) ==
    LET k == c - (2^SUBPOWER - 1)
    IN  ((k % 2^SUBPOWER) + 2^SUBPOWER) * 2^(k \div 2^SUBPOWER - SUBPOWER)

batch_size(c) == ((MAX_BATCH_SIZE - 1) \div 2^(c \div 2^SUBPOWER)) % MAX_NUM_OF_BLOCKS_IN_BATCH

CHUNK_IS_SMALL(c) == c < get_size_class(2 * POINTER)

\* sizeof(ChunkSm) or sizeof(Chunk), both aligned to a cache line.
HeaderSize(c) ==
    IF CHUNK_IS_SMALL(c) THEN Up(4 * POINTER + NUM_OF_BATCHES_IN_CHUNK_SM * POINTER, CACHE_LINE)
    ELSE CACHE_LINE

numBlocksInChunk(c) == (CHUNK_SIZE - HeaderSize(c)) \div class_to_size(c)

\* Blocks lie at the end of their chunk; offset of block i, from 0 on.
Offset(c, i) == CHUNK_SIZE - (numBlocksInChunk(c) - i) * class_to_size(c)

-----------------------------------------------------------------------------
VARIABLES
    asked, align,   \* what the application last asked for
    sizeClass,      \* of the block, -1 for one of the system
    room,           \* bytes of the block
    copied          \* bytes that ltrealloc copied into it

vars == <<asked, align, sizeClass, room, copied>>

\* ltmalloc(n)
IsCached(n) == n <= MAX_BLOCK_SIZE
ClassOf(n) == IF IsCached(n) THEN get_size_class(n) ELSE -1
RoomOf(n) == IF IsCached(n) THEN class_to_size(get_size_class(n)) ELSE Up(n, CHUNK_SIZE)
NonZero(n) == IF n = 0 THEN 1 ELSE n

Served(n) == sizeClass' = ClassOf(NonZero(n)) /\ room' = RoomOf(NonZero(n))

Init == asked = 1 /\ align = 1 /\ sizeClass = ClassOf(1) /\ room = RoomOf(1) /\ copied = 0

ltmalloc == \E n \in Request : asked' = n /\ align' = 1 /\ copied' = 0 /\ Served(n)

\* The size is rounded, and the class it falls in has the alignment (not so for 0
\* bytes, which end up in the smallest class).
Padded_Not(n, a) == n
Padded(n, a) == Up(n, a)

ltmemalign ==
    \E n \in Request \ {0}, a \in Alignment :
       asked' = n /\ align' = a /\ copied' = 0 /\ Served(Padded(n, a))

\* ltmsize
Usable == room

\* The block stays if it is large enough, else all of it is copied.
Enough_ByClass(n) == ClassOf(n) <= sizeClass
Enough(n) == n <= Usable

ltrealloc ==
    \E n \in Request \ {0} :
       /\ asked' = n
       /\ IF Enough(n) THEN copied' = 0 /\ UNCHANGED <<align, sizeClass, room>>
          ELSE align' = 1 /\ copied' = Usable /\ Served(n)

Next == ltmalloc \/ ltmemalign \/ ltrealloc

Spec == Init /\ [][Next]_vars

-----------------------------------------------------------------------------
\* After any sequence of calls the block has room for every byte asked for, and had
\* room for what ltrealloc copied.
RequestFits == asked <= room /\ copied <= room

\* Blocks 0, 1, .. of a chunk of the block's class.
Indices == 0 .. numBlocksInChunk(sizeClass) - 1

\* ltmemalign never looks at addresses: that it rounds the size up is enough, since
\* every block of the class that then serves it lies at a multiple of the alignment.
Aligned ==
    IF sizeClass = -1 THEN CHUNK_SIZE % align = 0
    ELSE \A i \in Indices : Offset(sizeClass, i) % align = 0

\* An address is all that ltfree, ltmsize and the carving of chunks have to go by:
\* no block lies at a multiple of CHUNK_SIZE, as those of the system do, over the
\* header or across the end of the chunk, and how many blocks are left to carve
\* follows from where the next one lies, as the code asserts.
AddressTells ==
    sizeClass # -1 => \A i \in Indices :
       /\ Offset(sizeClass, i) >= HeaderSize(sizeClass)
       /\ Offset(sizeClass, i) + class_to_size(sizeClass) <= CHUNK_SIZE
       /\ (CHUNK_SIZE - Offset(sizeClass, i)) \div class_to_size(sizeClass)
             = numBlocksInChunk(sizeClass) - i

\* A chunk's whole batches have room in the array of a chunk of smallest blocks, and
\* its blocks can be counted in an unsigned short.
CountsFit ==
    sizeClass # -1 =>
       /\ CHUNK_IS_SMALL(sizeClass) =>
             numBlocksInChunk(sizeClass) <= NUM_OF_BATCHES_IN_CHUNK_SM * (batch_size(sizeClass) + 1)
       /\ ~CHUNK_IS_SMALL(sizeClass) => numBlocksInChunk(sizeClass) < 65536
       /\ numBlocksInChunk(sizeClass) > 0
=============================================================================
