------------------------------ MODULE DumbTlsf ------------------------------
(***************************************************************************)
(* dumb_tlsf: a free list for each column of a table of sizes, and regions *)
(* of memory that new blocks are cut from.  A block is never joined with   *)
(* another one; the application may cut the end off a block by freeing it. *)
(* One thread.  Addresses are <<region, offset>>; sizes are bytes of the   *)
(* 64-bit build, at most max_size: larger requests go to malloc().         *)
(***************************************************************************)
EXTENDS Integers, Sequences, FiniteSets, SequencesExt

CONSTANTS
    Request,        \* bound: the sizes asked for
    alloc_size,     \* of a region
    MaxRegions      \* bound: how many regions there are

WORD == 8           \* sizeof(void*)
HEADER == 16        \* sizeof(Header), at the start of a region
max_size == 4096 + 3 * 1024

esizeof(size) == ((size + WORD - 1) \div WORD) * WORD

\* Nothing checks that a request fits a region.  0 bytes are left out: such a block
\* has no bytes, and the link that dfree writes into it belongs to its neighbour.
DumbAssumption ==
    /\ Request \subseteq 1 .. max_size - WORD /\ alloc_size \in Nat
    /\ \A n \in Request : esizeof(n + WORD) + HEADER <= alloc_size

VARIABLES
    table,      \* the free lists, of blocks [p, room]
    res,        \* the regions, the newest last, [limit, end]
    blocks      \* the blocks of the application, [p, room, size, ds]

vars == <<table, res, blocks>>

Column == 0 .. 43

Init ==
    /\ table = [c \in Column |-> <<>>]
    /\ res = <<>> /\ blocks = {}

-----------------------------------------------------------------------------
\* The highest bit set.
Log2(x) == CHOOSE i \in 0 .. 12 : 2^i <= x /\ x < 2^(i + 1)

\* A column for each quarter of the way from one power of two to the next.
segregate_Powers(esize) == Log2(esize) * 4 - 8
segregate(esize) ==
    LET l1 == Log2(esize) IN l1 * 4 + ((esize \div 2^(l1 - 2)) % 4) - 8

Shifted(p, n) == <<p[1], p[2] + n>>

\* The block becomes the application's; ds: its size is stored in front.
Hand(p, room, size, ds) ==
    blocks' = blocks \cup {[p |-> p, room |-> room, size |-> size, ds |-> ds]}

FitsRegion_Begun(esize) == res # <<>> /\ Last(res).limit < Last(res).end
FitsRegion(esize) == res # <<>> /\ Last(res).limit + esize <= Last(res).end

\* alloc_e: from the free list, or from the newest region, or from a new one; what is
\* left of the region before is not used any more.
alloc_e(esize, size, ds) ==
    LET c == segregate(esize)
    IN  \/ /\ table[c] # <<>>
           /\ Hand(Head(table[c]).p, Head(table[c]).room, size, ds)
           /\ table' = [table EXCEPT ![c] = Tail(@)]
           /\ UNCHANGED res
        \/ /\ table[c] = <<>> /\ FitsRegion(esize)
           /\ Hand(<<Len(res), Last(res).limit>>, esize, size, ds)
           /\ res' = [res EXCEPT ![Len(res)].limit = @ + esize]
           /\ UNCHANGED table
        \/ /\ table[c] = <<>> /\ ~FitsRegion(esize) /\ Len(res) < MaxRegions
           /\ Hand(<<Len(res) + 1, HEADER>>, esize, size, ds)
           /\ res' = Append(res, [limit |-> HEADER + esize, end |-> alloc_size])
           /\ UNCHANGED table

dalloc == \E size \in Request : alloc_e(esizeof(size), size, FALSE)

\* dsalloc: a word more, with the size in it.
dsalloc == \E size \in Request : alloc_e(esizeof(size + WORD), size, TRUE)

Listed(p, room, size) ==
    LET c == segregate(esizeof(size))
    IN  table' = [table EXCEPT ![c] = <<[p |-> p, room |-> room]>> \o @]

\* dfree with the size of the block, or dsfree, which takes the size stored: that is
\* without the word in front, so the block goes to the column of a smaller size.
dfree ==
    /\ \E b \in blocks : blocks' = blocks \ {b} /\ Listed(b.p, b.room, b.size)
    /\ UNCHANGED res

\* dfree of the end of a block, from its n-th byte on, a whole number of words.
CutEnd ==
    /\ \E b \in {c \in blocks : ~c.ds} : \E n \in {m \in Request : m % WORD = 0 /\ m < b.size} :
          /\ blocks' = (blocks \ {b}) \cup {[b EXCEPT !.size = n, !.room = n]}
          /\ Listed(Shifted(b.p, n), b.room - n, b.size - n)
    /\ UNCHANGED res

\* Only before the first region.
dreserve ==
    /\ res = <<>>
    /\ res' = <<[limit |-> HEADER, end |-> alloc_size]>>
    /\ UNCHANGED <<table, blocks>>

dapocalypse == table' = [c \in Column |-> <<>>] /\ res' = <<>> /\ blocks' = {}

Next == dalloc \/ dsalloc \/ dfree \/ CutEnd \/ dreserve \/ dapocalypse

Spec == Init /\ [][Next]_vars

-----------------------------------------------------------------------------
\* "Allocate the given number of bytes": a block has room for what was asked for,
\* with the word in front of a block of dsalloc, whichever list it came from.
AllocatesGivenBytes ==
    \A b \in blocks : (IF b.ds THEN b.size + WORD ELSE b.size) <= b.room

Spans == {[p |-> b.p, room |-> b.room] : b \in blocks} \cup UNION {Range(table[c]) : c \in Column}

\* The blocks in use and on the lists tile what was cut from each region: each is in
\* one place, they are apart, and together they are all of it.
Tiled ==
    /\ Cardinality(Spans) = Cardinality(blocks) + MapThenSumSet(LAMBDA c : Len(table[c]), Column)
    /\ \A s, u \in Spans :
          s.p[1] = u.p[1] /\ s.p[2] < u.p[2] => s.p[2] + s.room <= u.p[2]
    /\ \A r \in DOMAIN res :
          LET here == {s \in Spans : s.p[1] = r}
          IN  /\ HEADER + MapThenSumSet(LAMBDA s : s.room, here) = res[r].limit
              /\ \A s \in here : HEADER <= s.p[2] /\ s.p[2] + s.room <= res[r].end
=============================================================================
