------------------------------- MODULE Survey -------------------------------
(***************************************************************************)
(* The small allocators of Pools, and the parts of threadalloc and ltalloc *)
(* that share nothing with the rest of their allocator, side by side: a    *)
(* behaviour runs one of them.  Those parts are the arithmetic on sizes    *)
(* and addresses, and the radix tree of ltalloc.  The properties say what  *)
(* holds of each.                                                          *)
(***************************************************************************)
EXTENDS Pools

CONSTANTS
    SmallRequest, WIDTH,    \* of ThreadAllocSizes
    Request, Alignment,     \* of LtAllocSizes
    Address, SizesAt, NodePage, PTRIE_NULL_NODE     \* of PTrie

VARIABLES
    asked, room,            \* bytes asked for, bytes there are
    size, home,             \* of ThreadAllocSizes
    align, sizeClass, copied,   \* of LtAllocSizes
    ptrieRoot, keys, childNodes, ptrieFreeNodesList, fresh, mapped, pc, ptr    \* of PTrie

ta == INSTANCE ThreadAllocSizes
lt == INSTANCE LtAllocSizes
pt == INSTANCE PTrie

ASSUME SurveyAssumption ==
    ta!SizesAssumption /\ lt!SizesAssumption /\ pt!PTrieAssumption /\ PoolsAssumption

sizeVars == <<asked, room, size, home, align, sizeClass, copied>>
treeVars == <<ptrieRoot, keys, childNodes, ptrieFreeNodesList, fresh, mapped, pc, ptr>>
vars == <<part, poolVars, sizeVars, treeVars>>

Part == Pool \cup {"threadalloc", "ltalloc", "ptrie"}

NoThreadAlloc == size = 0 /\ home = -1
NoLtAlloc     == align = 1 /\ sizeClass = -1 /\ copied = 0
NoTree        == /\ ptrieRoot = NULL /\ keys = NULL /\ childNodes = NULL
                 /\ ptrieFreeNodesList = NULL /\ fresh = NULL /\ mapped = NULL
                 /\ pc = NULL /\ ptr = NULL

Init ==
    /\ part \in Part
    /\ PoolsInit
    /\ IF part = "threadalloc" THEN ta!Init ELSE NoThreadAlloc
    /\ IF part = "ltalloc" THEN lt!Init ELSE NoLtAlloc
    /\ part \notin {"threadalloc", "ltalloc"} => asked = 0 /\ room = 0
    /\ IF part = "ptrie" THEN pt!Init ELSE NoTree

Next ==
    /\ UNCHANGED part
    /\ \/ PoolsNext /\ UNCHANGED <<sizeVars, treeVars>>
       \/ /\ part = "threadalloc" /\ ta!Next
          /\ UNCHANGED <<align, sizeClass, copied, treeVars, poolVars>>
       \/ part = "ltalloc" /\ lt!Next /\ UNCHANGED <<size, home, treeVars, poolVars>>
       \/ part = "ptrie" /\ pt!Next /\ UNCHANGED <<sizeVars, poolVars>>

Spec == Init /\ [][Next]_vars

-----------------------------------------------------------------------------
\* Whatever was asked for, allocated, aligned or reallocated, the block has room
\* for it, and for what a reallocation copied.
RequestFits ==
    /\ part = "threadalloc" => ta!RequestFits
    /\ part = "ltalloc" => lt!RequestFits
    /\ BlocksFit

\* Freeing finds where the block came from, from its size field or its address, or
\* from what is kept beside or in front of it.
FreedWhereItBelongs ==
    /\ part = "threadalloc" => ta!FreedWhereItBelongs
    /\ part = "ltalloc" => lt!AddressTells
    /\ FoundAgain

\* The blocks of a page or a chunk tile it, and can be counted in the fields and
\* arrays there are.
PagesTiled ==
    /\ part = "threadalloc" => ta!PagesTiled
    /\ part = "ltalloc" => lt!CountsFit

\* ltmemalign returns aligned blocks though it never looks at an address.
Aligned == part = "ltalloc" => lt!Aligned

\* The radix tree, after insertions and removals by several threads in any order:
\* ltmsize finds the size of every block of the system, ...
SizesFound == part = "ptrie" => pt!SizesFound

\* ... an insertion takes exactly one node and a removal gives one back, ...
OneNodePerKey == part = "ptrie" => pt!OneNodePerKey

\* ... the tree has exactly one null child, so that a removal has a parent to
\* correct, ...
OneNullChild == part = "ptrie" => pt!OneNullChild

\* ... and no key is inserted while it is in the tree.
KeyIsNew == part = "ptrie" => pt!KeyIsNew
=============================================================================
