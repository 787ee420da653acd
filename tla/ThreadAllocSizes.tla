-------------------------- MODULE ThreadAllocSizes --------------------------
(***************************************************************************)
(* The arithmetic of threadalloc that ThreadAlloc takes for granted: how a *)
(* request becomes a chain, how a page is cut into the blocks of a chain,  *)
(* and that thread_free() finds the chain a block came from, though all it *)
(* has is blk->size.  One block goes through thread_alloc and              *)
(* thread_realloc; a size_t holds WIDTH values.                            *)
(***************************************************************************)
EXTENDS Integers, Sequences, FiniteSets

CONSTANTS
    SmallRequest,   \* bound: the requests made
    WIDTH           \* 2^(bits of a size_t)

MAX_BLOCK_SIZE  == 256
BLOCK_ALIGNMENT == 8
PAGE_SIZE       == 4096
HEADER          == 16       \* sizeof(alloc_block_header), 64-bit

SizesAssumption ==
    /\ SmallRequest \subseteq Nat /\ WIDTH \in Nat
    /\ \A n \in SmallRequest : n + BLOCK_ALIGNMENT + HEADER < WIDTH

Times(n, x) == [i \in 1 .. n |-> x]

block_chain == Times(5, 0) \o Times(4, 1) \o Times(4, 2) \o Times(4, 3) \o Times(16, 4)
ChainOf(size) == block_chain[1 + size \div BLOCK_ALIGNMENT]

chain_block_size == <<32, 64, 96, 128, 256>>
BlockSize(i) == chain_block_size[1 + i]

\* ((size + BLOCK_ALIGNMENT-1) & ~(BLOCK_ALIGNMENT-1)) + sizeof(alloc_block_header)
Rounded(n) ==
    ((((n + BLOCK_ALIGNMENT - 1) % WIDTH) \div BLOCK_ALIGNMENT) * BLOCK_ALIGNMENT + HEADER) % WIDTH

\* The offsets in pg->data of the blocks of a fresh page: the one handed out at
\* offset 0, the first of the chain behind it, and one more per round of the loop.
PageBlocks_OneMore(i) ==
    LET n_blocks == PAGE_SIZE \div BlockSize(i) - 1
    IN  {0} \cup {BlockSize(i) + k * BlockSize(i) : k \in 0 .. n_blocks}
PageBlocks(i) ==
    LET n_blocks == PAGE_SIZE \div BlockSize(i) - 2
    IN  {0} \cup {BlockSize(i) + k * BlockSize(i) : k \in 0 .. n_blocks}

-----------------------------------------------------------------------------
VARIABLES
    asked,      \* bytes the application last asked for
    size,       \* blk->size
    home,       \* the chain whose page the block lies in, -1 for malloc()
    room        \* bytes from the header to the end of the memory of the block

vars == <<asked, size, home, room>>

Small(s) == s <= MAX_BLOCK_SIZE

\* thread_alloc(n), whatever was there before.
Served(n) ==
    /\ asked' = n
    /\ size' = Rounded(n)
    /\ home' = IF Small(Rounded(n)) THEN ChainOf(Rounded(n)) ELSE -1
    /\ room' = IF Small(Rounded(n)) THEN BlockSize(ChainOf(Rounded(n))) ELSE Rounded(n)

Init == asked = 0 /\ size = HEADER /\ home = 0 /\ room = 32     \* thread_alloc(0)

thread_alloc == \E n \in SmallRequest : Served(n)

\* thread_realloc(n): enough room already, realloc() of a large block, or a new
\* block.  (After realloc() the result has the new size, as Served says.)
Kept_Shrunk(n) == asked' = n /\ size' = Rounded(n) /\ UNCHANGED <<home, room>>
Kept(n) == asked' = n /\ UNCHANGED <<size, home, room>>

InPlace(n) == size >= Rounded(n)

thread_realloc ==
    \E n \in SmallRequest :
       \/ InPlace(n) /\ Kept(n)
       \/ ~InPlace(n) /\ Served(n)

Next == thread_alloc \/ thread_realloc

Spec == Init /\ [][Next]_vars

-----------------------------------------------------------------------------
\* The block that serves a request has room for the header and for every byte
\* asked for, after any sequence of calls, also where realloc() left it in place.
RequestFits == HEADER + asked <= room

\* thread_free() puts a block back on chain block_chain[blk->size / 8]: it is the
\* chain the block was carved for, however the request was rounded, and a block
\* of malloc() is recognised as one.
FreedWhereItBelongs ==
    IF Small(size) THEN home = ChainOf(size) ELSE home = -1

\* The page a chain takes from malloc() is tiled by its blocks: aligned, apart by
\* their size, all of them within data[], and as many as fit.
PagesTiled ==
    LET offsets == PageBlocks(home)
        length  == BlockSize(home)
    IN home >= 0 =>
       /\ \A x \in offsets : x % BLOCK_ALIGNMENT = 0 /\ x + length <= PAGE_SIZE
       /\ \A x, y \in offsets : x < y => y - x >= length
       /\ Cardinality(offsets) = PAGE_SIZE \div length
=============================================================================
