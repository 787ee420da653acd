---------------------------- MODULE WinnieAlloc ----------------------------
(***************************************************************************)
(* winnie1: blocks whose sizes are powers of two, each with a header that  *)
(* tells the list it is freed to.  A list that is empty gets the halves of *)
(* a larger block, or of a new block of the system; halves are never       *)
(* joined again.  One thread; the build with the threshold for malloc().   *)
(* Sizes count in headers, of 8 bytes.  Addresses are <<OS block, offset>>;*)
(* those in OS block 0 are malloc's.                                       *)
(***************************************************************************)
EXTENDS Integers, Sequences, FiniteSets, SequencesExt

CONSTANTS
    Request,                    \* bound: the sizes asked for
    malloc_threshold,
    first_os_block_size_log,    \* size of an OS block
    max_os_block_num,
    MaxMalloced                 \* bound: blocks of malloc() at a time

WinnieAssumption ==
    /\ Request \subseteq Nat /\ first_os_block_size_log \in Nat
    /\ malloc_threshold < 2^first_os_block_size_log

VARIABLES
    free_blocks_lists,  \* by the logarithm of the size
    os_block_num,
    users               \* the blocks in use: where, their header, the size asked for

vars == <<free_blocks_lists, os_block_num, users>>

HEADER == 1
List == 0 .. first_os_block_size_log

Init == free_blocks_lists = [i \in List |-> <<>>] /\ os_block_num = 0 /\ users = {}

-----------------------------------------------------------------------------
\* The logarithm of k, rounded up.
GetNextPowerOfTwo_Down(k) == CHOOSE n \in List : 2^n <= k /\ k < 2^(n + 1)
GetNextPowerOfTwo(k) == CHOOSE n \in 0 .. 31 : k <= 2^n /\ \A m \in 0 .. n - 1 : 2^m < k

ListFor(size) == GetNextPowerOfTwo(size + HEADER)

Shifted(p, n) == <<p[1], p[2] + n>>

\* SplitBlockAndAddToLists: the second half to the list below log, then the second
\* half of the first half, and so on; what is left, too, goes to list n.
SecondHalf_First(p, i) == Shifted(p, 2^i - 1)
SecondHalf(p, i) == Shifted(p, 2^i)

Split(lists, p, n, log) ==
    [i \in List |-> IF i = n THEN <<p>> \o (IF i < log THEN <<SecondHalf(p, i)>> ELSE <<>>) \o lists[i]
                    ELSE IF n < i /\ i < log THEN <<SecondHalf(p, i)>> \o lists[i]
                    ELSE lists[i]]

\* The lists once list n has a block, after FindNewBlockForList if need be.
LargerLists(n) == {i \in List : n < i /\ free_blocks_lists[i] # <<>>}
Smallest(S) == CHOOSE i \in S : \A j \in S : i <= j

NeedsOsBlock(n) == free_blocks_lists[n] = <<>> /\ LargerLists(n) = {}

Refilled(n) ==
    IF free_blocks_lists[n] # <<>> THEN free_blocks_lists
    ELSE IF LargerLists(n) # {}
         THEN LET i == Smallest(LargerLists(n))
              IN  Split([free_blocks_lists EXCEPT ![i] = Tail(@)], Head(free_blocks_lists[i]), n, i)
         ELSE Split(free_blocks_lists, <<os_block_num + 1, 0>>, n, first_os_block_size_log)

Malloced == {b \in users : b.malloced}

\* What Alloc does, given the blocks in use beside the new one and what is done to
\* the lists afterwards.
AllocSmall(size, others, Then(_)) ==
    LET n == ListFor(size)
    IN  /\ size < malloc_threshold
        /\ NeedsOsBlock(n) => os_block_num < max_os_block_num
        /\ os_block_num' = IF NeedsOsBlock(n) THEN os_block_num + 1 ELSE os_block_num
        /\ users' = others \cup
             {[p |-> Head(Refilled(n)[n]), list |-> n, malloced |-> FALSE, size |-> size]}
        /\ free_blocks_lists' = Then([Refilled(n) EXCEPT ![n] = Tail(@)])

\* malloc() with the header in front; the list number in it is never read.
AllocLarge(size, others, Then(_)) ==
    /\ size >= malloc_threshold
    /\ \E k \in 1 .. MaxMalloced :
          /\ \A b \in Malloced : b.p # <<0, k>>
          /\ users' = others \cup {[p |-> <<0, k>>, list |-> 0, malloced |-> TRUE, size |-> size]}
    /\ free_blocks_lists' = Then(free_blocks_lists)
    /\ UNCHANGED os_block_num

NoMore(lists) == lists
PutBack(lists, b) == [lists EXCEPT ![b.list] = <<b.p>> \o @]

Alloc == \E size \in Request : AllocSmall(size, users, NoMore) \/ AllocLarge(size, users, NoMore)

\* Free: a block of malloc() goes back there, another one to the list in its header.
Free ==
    /\ \E b \in users :
          /\ users' = users \ {b}
          /\ free_blocks_lists' = IF b.malloced THEN free_blocks_lists ELSE PutBack(free_blocks_lists, b)
    /\ UNCHANGED os_block_num

\* Realloc leaves a block that is of the right list where it is, though it may be
\* asked for more than the threshold; else the new block is taken before the old one
\* goes.  realloc() of a block of malloc() may or may not move it.
Stays_Longer(b, size) == ListFor(size) >= b.list
Stays(b, size) == ListFor(size) = b.list

Realloc ==
    \E b \in users, size \in Request :
       LET ThenFree(lists) == PutBack(lists, b) IN
       \/ /\ ~b.malloced /\ Stays(b, size)
          /\ users' = (users \ {b}) \cup {[b EXCEPT !.size = size]}
          /\ UNCHANGED <<free_blocks_lists, os_block_num>>
       \/ /\ ~b.malloced /\ ~Stays(b, size)
          /\ AllocSmall(size, users \ {b}, ThenFree) \/ AllocLarge(size, users \ {b}, ThenFree)
       \/ b.malloced /\ AllocSmall(size, users \ {b}, NoMore)
       \/ /\ b.malloced /\ size >= malloc_threshold
          /\ users' = (users \ {b}) \cup {[b EXCEPT !.size = size]}
          /\ UNCHANGED <<free_blocks_lists, os_block_num>>

\* Everything of the system is returned; blocks of malloc() are not known here.
DesroyHeap ==
    /\ free_blocks_lists' = [i \in List |-> <<>>] /\ os_block_num' = 0
    /\ users' = Malloced

Next == Alloc \/ Free \/ Realloc \/ DesroyHeap

Spec == Init /\ [][Next]_vars

-----------------------------------------------------------------------------
Small == users \ Malloced

\* The block has room for its header and for what was asked for, also where Realloc
\* left it in place.
RequestFits == \A b \in Small : HEADER + b.size <= 2^b.list

Span(p, n) == {Shifted(p, x) : x \in 0 .. 2^n - 1}

\* However blocks were split, freed and reallocated, those in use and those on the
\* lists tile the OS blocks: every address is in one of them and in one only.
Tiled ==
    LET all == {<<b.p, b.list>> : b \in Small}
                 \cup UNION {{<<p, i>> : p \in Range(free_blocks_lists[i])} : i \in List}
    IN  /\ \A i \in List : IsInjective(free_blocks_lists[i])
        /\ \A i \in List, b \in Small : b.list = i => b.p \notin Range(free_blocks_lists[i])
        /\ \A a, b \in all : a # b => Span(a[1], a[2]) \cap Span(b[1], b[2]) = {}
        /\ UNION {Span(a[1], a[2]) : a \in all}
             = (1 .. os_block_num) \X (0 .. 2^first_os_block_size_log - 1)
=============================================================================
