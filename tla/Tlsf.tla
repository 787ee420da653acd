-------------------------------- MODULE Tlsf --------------------------------
(***************************************************************************)
(* tlsf 3.0: free blocks on lists by two levels of size, found through two *)
(* levels of bitmaps; a freed block is joined with free neighbours.  A     *)
(* header has the size, whether the block and the block before it are      *)
(* free, and, if the latter is, where it starts: that word is the last one *)
(* of the block before, and belongs to the application while that block is *)
(* in use.  One thread.  A block is named by its data, <<pool, offset>>;   *)
(* sizes are bytes of the 64-bit build.                                    *)
(***************************************************************************)
EXTENDS Integers, Sequences, FiniteSets, SequencesExt

CONSTANTS
    Memory,                 \* memories for pools
    PoolBytes,              \* pool_bytes of each
    Request, Alignment,     \* bounds: what tlsf_malloc and tlsf_memalign are asked for
    MaxUsed,                \* bound: blocks in use at a time
    SL_INDEX_COUNT_LOG2,    \* "Public constants: may be modified" (5)
    FL_INDEX_MAX,           \* (32)
    NULL

ALIGN_SIZE_LOG2 == 3
ALIGN_SIZE == 2^ALIGN_SIZE_LOG2
SL_INDEX_COUNT == 2^SL_INDEX_COUNT_LOG2
FL_INDEX_SHIFT == SL_INDEX_COUNT_LOG2 + ALIGN_SIZE_LOG2
FL_INDEX_COUNT == FL_INDEX_MAX - FL_INDEX_SHIFT + 1
SMALL_BLOCK_SIZE == 2^FL_INDEX_SHIFT

sizeof_header == 32         \* of block_header_t
block_header_overhead == 8
block_size_min == sizeof_header - 8

VARIABLES
    header,     \* of the blocks and sentinels: [size, free, prev_free, prev_phys_block]
    fl_bitmap, sl_bitmap, blocks,   \* control_t: bits as sets, lists as sequences
    used        \* of the application: [p, size, align]

vars == <<header, fl_bitmap, sl_bitmap, blocks, used>>

-----------------------------------------------------------------------------
align_up(x, align) == ((x + align - 1) \div align) * align

adjust_request_size(size, align) ==
    LET aligned == align_up(size, align)
    IN  IF aligned < block_size_min THEN block_size_min ELSE aligned

\* The highest bit set.
tlsf_fls(x) == CHOOSE i \in 0 .. 30 : 2^i <= x /\ x < 2^(i + 1)

mapping_insert(size) ==
    LET fl == tlsf_fls(size)
    IN  IF size < SMALL_BLOCK_SIZE THEN <<0, size \div (SMALL_BLOCK_SIZE \div SL_INDEX_COUNT)>>
        ELSE <<fl - (FL_INDEX_SHIFT - 1), (size \div 2^(fl - SL_INDEX_COUNT_LOG2)) - SL_INDEX_COUNT>>

\* Rounded up, so that every block of the list found is large enough.
mapping_search_Down(size) == mapping_insert(size)
mapping_search(size) ==
    mapping_insert(IF size >= SL_INDEX_COUNT
                   THEN size + 2^(tlsf_fls(size) - SL_INDEX_COUNT_LOG2) - 1 ELSE size)

gap_minimum == sizeof_header
size_with_gap(size, align) ==
    adjust_request_size(adjust_request_size(size, ALIGN_SIZE) + align + gap_minimum, align)

\* Nothing checks that the rounded size, or the pool, has a list.  tlsf_realloc of a
\* size from block_size_max on, or tlsf_memalign of one or of 0 bytes, would make a
\* block of no bytes, which looks like the end of the pool.
TlsfAssumption ==
    /\ Request \subseteq Nat \ {0} /\ \A a \in Alignment : a > ALIGN_SIZE
    /\ PoolBytes % ALIGN_SIZE = 0 /\ PoolBytes >= block_size_min /\ PoolBytes < 2^FL_INDEX_MAX
    /\ \A n \in Request, a \in Alignment :
          mapping_search(size_with_gap(n, a))[1] < FL_INDEX_COUNT

First(m) == <<m, block_header_overhead>>
Sentinel(m) == <<m, 2 * block_header_overhead + PoolBytes>>

Init ==
    /\ header = <<>>
    /\ fl_bitmap = {} /\ sl_bitmap = [fl \in 0 .. FL_INDEX_COUNT - 1 |-> {}]
    /\ blocks = [i \in (0 .. FL_INDEX_COUNT - 1) \X (0 .. SL_INDEX_COUNT - 1) |-> <<>>]
    /\ used = {}

-----------------------------------------------------------------------------
(***************************************************************************)
(* The functions of the code, from a heap to the heap they leave.          *)
(***************************************************************************)
Heap == [header |-> header, fl |-> fl_bitmap, sl |-> sl_bitmap, blocks |-> blocks]

Becomes(s) ==
    header' = s.header /\ fl_bitmap' = s.fl /\ sl_bitmap' = s.sl /\ blocks' = s.blocks

Shifted(p, n) == <<p[1], p[2] + n>>
block_next(s, b) == Shifted(b, s.header[b].size + block_header_overhead)

block_link_next(s, b) == [s EXCEPT !.header[block_next(s, b)].prev_phys_block = b]

block_mark_as_free(s, b) ==
    [block_link_next(s, b) EXCEPT !.header[block_next(s, b)].prev_free = TRUE,
                                  !.header[b].free = TRUE]

\* From now on the application may write where the next block's link to this one is.
block_mark_as_used_FlagLeft(s, b) == [s EXCEPT !.header[b].free = FALSE]
block_mark_as_used(s, b) ==
    [s EXCEPT !.header[block_next(s, b)].prev_free = FALSE,
              !.header[block_next(s, b)].prev_phys_block = NULL,
              !.header[b].free = FALSE]

block_insert(s, b) ==
    LET i == mapping_insert(s.header[b].size)
    IN  [s EXCEPT !.blocks[i] = <<b>> \o @, !.fl = @ \cup {i[1]}, !.sl[i[1]] = @ \cup {i[2]}]

\* The bits are cleared with the last block of a list, and of a first level.
remove_free_block_BitLeft(s, b, i) == [s EXCEPT !.blocks[i] = Remove(@, b)]
remove_free_block(s, b, i) ==
    LET left == Remove(s.blocks[i], b)
        sl   == IF left = <<>> THEN s.sl[i[1]] \ {i[2]} ELSE s.sl[i[1]]
    IN  [s EXCEPT !.blocks[i] = left, !.sl[i[1]] = sl,
                  !.fl = IF left = <<>> /\ sl = {} THEN @ \ {i[1]} ELSE @]

block_remove(s, b) == remove_free_block(s, b, mapping_insert(s.header[b].size))

block_can_split_NoHeader(s, b, size) == s.header[b].size > size
block_can_split(s, b, size) == s.header[b].size >= sizeof_header + size

\* The rest of b after size bytes becomes a free block; the callers set prev_free.
Rest(b, size) == Shifted(b, size + block_header_overhead)

block_split(s, b, size, prev_free) ==
    LET r    == Rest(b, size)
        rest == [size |-> s.header[b].size - (size + block_header_overhead), free |-> TRUE,
                 prev_free |-> prev_free, prev_phys_block |-> IF prev_free THEN b ELSE NULL]
        cut  == [p \in DOMAIN s.header \cup {r} |->
                    IF p = r THEN rest ELSE IF p = b THEN [s.header[b] EXCEPT !.size = size]
                    ELSE s.header[p]]
    IN  block_mark_as_free([s EXCEPT !.header = cut], r)

block_absorb(s, prev, b) ==
    LET joined == [p \in DOMAIN s.header \ {b} |->
                      IF p = prev THEN [s.header[p] EXCEPT !.size = @ + s.header[b].size + block_header_overhead]
                      ELSE s.header[p]]
    IN  block_link_next([s EXCEPT !.header = joined], prev)

\* The block before, with which a freed block is joined, or the block itself.
Start(s, b) == IF s.header[b].prev_free THEN s.header[b].prev_phys_block ELSE b

block_merge_prev_Not(s, b) == s
block_merge_prev(s, b) ==
    IF s.header[b].prev_free
    THEN block_absorb(block_remove(s, Start(s, b)), Start(s, b), b) ELSE s

block_merge_next(s, b) ==
    LET next == block_next(s, b)
    IN  IF s.header[next].free THEN block_absorb(block_remove(s, next), b, next) ELSE s

block_trim_free(s, b, size) ==
    IF block_can_split(s, b, size)
    THEN block_insert(block_split(s, b, size, TRUE), Rest(b, size)) ELSE s

block_trim_used(s, b, size) ==
    IF block_can_split(s, b, size)
    THEN LET r == Rest(b, size)
         IN  block_insert(block_merge_next(block_split(s, b, size, FALSE), r), r)
    ELSE s

\* If there is a gap its bytes are put back on a list, and the block used starts behind.
CutsGap(s, b, gap) == gap > 0 /\ block_can_split(s, b, gap)

block_trim_free_leading(s, b, gap) ==
    IF CutsGap(s, b, gap)
    THEN block_insert(block_split(s, b, gap - block_header_overhead, TRUE), b) ELSE s

Least(S) == CHOOSE x \in S : \A y \in S : x <= y

\* search_suitable_block: the index of a list, NULL if memory is exhausted.
search_suitable_block(s, i) ==
    LET sl_map == {sl \in s.sl[i[1]] : sl >= i[2]}
        fl_map == {fl \in s.fl : fl > i[1]}
    IN  CASE sl_map # {} -> <<i[1], Least(sl_map)>>
          [] sl_map = {} /\ fl_map # {} -> <<Least(fl_map), Least(s.sl[Least(fl_map)])>>
          [] OTHER -> NULL

\* The block found, and the heap without it; NULL if there is none.
block_locate_free(s, size) ==
    LET i == search_suitable_block(s, mapping_search(size))
    IN  IF i = NULL THEN NULL
        ELSE [block |-> Head(s.blocks[i]), heap |-> remove_free_block(s, Head(s.blocks[i]), i)]

block_prepare_used(s, b, size) == block_mark_as_used(block_trim_free(s, b, size), b)

-----------------------------------------------------------------------------
Use(others, p, size, align) ==
    used' = others \cup {[p |-> p, size |-> size, align |-> align]}

\* tlsf_add_pool: one free block, and the sentinel behind it.
tlsf_add_pool ==
    /\ \E m \in Memory :
          /\ First(m) \notin DOMAIN header
          /\ LET free == [size |-> PoolBytes, free |-> TRUE, prev_free |-> FALSE, prev_phys_block |-> NULL]
                 end  == [size |-> 0, free |-> FALSE, prev_free |-> TRUE, prev_phys_block |-> First(m)]
                 with == [p \in DOMAIN header \cup {First(m), Sentinel(m)} |->
                            CASE p = First(m) -> free [] p = Sentinel(m) -> end [] OTHER -> header[p]]
             IN  Becomes(block_insert([Heap EXCEPT !.header = with], First(m)))
    /\ UNCHANGED used

\* tlsf_remove_pool asserts that all of the pool is one free block.
tlsf_remove_pool ==
    /\ \E m \in Memory :
          /\ First(m) \in DOMAIN header
          /\ header[First(m)].free /\ block_next(Heap, First(m)) = Sentinel(m)
          /\ Becomes([block_remove(Heap, First(m)) EXCEPT
                !.header = [p \in {q \in DOMAIN header : q[1] # m} |-> header[p]]])
    /\ UNCHANGED used

\* A call that finds no block returns NULL and changes nothing.
tlsf_malloc ==
    \E size \in Request :
       LET adjust == adjust_request_size(size, ALIGN_SIZE)
           found  == block_locate_free(Heap, adjust)
       IN  /\ Cardinality(used) < MaxUsed /\ found # NULL
           /\ Becomes(block_prepare_used(found.heap, found.block, adjust))
           /\ Use(used, found.block, size, ALIGN_SIZE)

\* The gap in front of the aligned address must be large enough for a block.
Gap_Any(p, align) == align_up(p[2], align) - p[2]
Gap(p, align) ==
    LET aligned == align_up(p[2], align)
        offset  == LET remain == gap_minimum - (aligned - p[2])
                   IN  IF remain > align THEN remain ELSE align
    IN  IF aligned - p[2] \in 1 .. gap_minimum - 1
        THEN align_up(aligned + offset, align) - p[2] ELSE aligned - p[2]

tlsf_memalign ==
    \E size \in Request, align \in Alignment :
       LET adjust == adjust_request_size(size, ALIGN_SIZE)
           found  == block_locate_free(Heap, size_with_gap(size, align))
       IN  /\ Cardinality(used) < MaxUsed /\ found # NULL
           /\ LET s   == found.heap
                  b   == found.block
                  gap == Gap(b, align)
                  at  == IF CutsGap(s, b, gap) THEN Shifted(b, gap) ELSE b
              IN  /\ Becomes(block_prepare_used(block_trim_free_leading(s, b, gap), at, adjust))
                  /\ Use(used, at, size, align)

Freed(s, b) ==
    LET merged == block_merge_prev(block_mark_as_free(s, b), b)
        start  == Start(s, b)
    IN  block_insert(block_merge_next(merged, start), start)

tlsf_free == \E u \in used : Becomes(Freed(Heap, u.p)) /\ used' = used \ {u}

\* tlsf_realloc where the block can stay, perhaps taking in the next one ...
Combined(b) == header[b].size + header[block_next(Heap, b)].size + block_header_overhead
MustMove(b, adjust) ==
    adjust > header[b].size /\ (~header[block_next(Heap, b)].free \/ adjust > Combined(b))

ReallocInPlace ==
    \E u \in used, size \in Request :
       LET adjust == adjust_request_size(size, ALIGN_SIZE)
           grown  == IF adjust > header[u.p].size
                     THEN block_mark_as_used(block_merge_next(Heap, u.p), u.p) ELSE Heap
       IN  /\ ~MustMove(u.p, adjust)
           /\ Becomes(block_trim_used(grown, u.p, adjust))
           /\ Use(used \ {u}, u.p, size, u.align)

\* ... or a new block is allocated before the old one is freed.
ReallocMoves ==
    \E u \in used, size \in Request :
       LET adjust == adjust_request_size(size, ALIGN_SIZE)
           found  == block_locate_free(Heap, adjust)
       IN  /\ MustMove(u.p, adjust) /\ found # NULL
           /\ Becomes(Freed(block_prepare_used(found.heap, found.block, adjust), u.p))
           /\ Use(used \ {u}, found.block, size, ALIGN_SIZE)

Next ==
    \/ tlsf_add_pool \/ tlsf_remove_pool \/ tlsf_malloc \/ tlsf_memalign
    \/ tlsf_free \/ ReallocInPlace \/ ReallocMoves

Spec == Init /\ [][Next]_vars

-----------------------------------------------------------------------------
\* A block has the bytes asked for and its alignment, though lists hold blocks of
\* several sizes and blocks are cut at both ends, grown and shrunk in place.
RequestFits ==
    \A u \in used : u.size <= header[u.p].size /\ u.p[2] % u.align = 0

Pools == {p[1] : p \in DOMAIN header}
Blocks == {p \in DOMAIN header : p # Sentinel(p[1])}

\* tlsf_check_pool: from the first block on, each block ends where the next one begins,
\* up to the sentinel; blocks not free are those of the application.
Tiled ==
    /\ \A m \in Pools : First(m) \in DOMAIN header /\ Sentinel(m) \in DOMAIN header
    /\ \A b \in Blocks :
          /\ header[b].size >= block_size_min
          /\ LET next == block_next(Heap, b)
             IN  /\ next \in DOMAIN header
                 /\ \A p \in DOMAIN header : p[1] = b[1] => p[2] <= b[2] \/ next[2] <= p[2]
    /\ {b \in Blocks : ~header[b].free} = {u.p : u \in used}
    /\ Cardinality(used) = Cardinality({u.p : u \in used})

\* tlsf_check: "blocks should have coalesced"; the flags and the link of the next block
\* are right wherever the code relies on them; the free blocks are on the list of their
\* size, once, and the bitmaps have the lists that are not empty.
CountersExact ==
    /\ \A b \in Blocks :
          LET next == header[block_next(Heap, b)]
          IN  /\ next.prev_free = header[b].free
              /\ header[b].free => ~header[b].prev_free /\ ~next.free /\ next.prev_phys_block = b
    /\ \A i \in DOMAIN blocks :
          /\ IsInjective(blocks[i])
          /\ Range(blocks[i]) = {b \in Blocks : header[b].free /\ mapping_insert(header[b].size) = i}
          /\ (blocks[i] # <<>>) <=> i[2] \in sl_bitmap[i[1]]
    /\ \A fl \in DOMAIN sl_bitmap : fl \in fl_bitmap <=> sl_bitmap[fl] # {}
=============================================================================
