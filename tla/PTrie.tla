-------------------------------- MODULE PTrie --------------------------------
(***************************************************************************)
(* The radix tree in which ltalloc keeps the sizes of the blocks it takes  *)
(* straight from the system, and the threads that allocate and free such   *)
(* blocks.  The leaf is stored in place of the child: a child is a node, a *)
(* value or PTRIE_NULL_NODE; the low byte of keys[0] of a node holds the   *)
(* bit that its branches differ in.                                        *)
(*                                                                         *)
(* Atomicity.  What is done under ptrieLock is one step; the system is     *)
(* asked for memory and given it back outside the lock.                    *)
(***************************************************************************)
EXTENDS Integers, Sequences, FiniteSets, Functions, TLC, Bitwise

CONSTANTS
    Thread,
    Address,            \* of blocks: multiples of 256
    SizesAt,            \* SizesAt[a]: bound: the sizes of blocks at a
    NodePage,           \* the nodes of the page taken for the tree, in order
    PTRIE_NULL_NODE, NULL

Node == Range(NodePage)

PTrieAssumption ==
    /\ Address \subseteq Nat /\ \A a \in Address : a % 256 = 0
    /\ SizesAt \in [Address -> SUBSET Nat] /\ IsInjective(NodePage) /\ PTRIE_NULL_NODE \notin Node

VARIABLES
    ptrieRoot,
    keys, childNodes,   \* of every node, used or not; branch 0 and 1
    ptrieFreeNodesList,
    fresh,              \* the nodes of the page that were never used
    mapped,             \* mapped[a]: the size of the block at a, 0 for none
    pc, ptr             \* ptr[t]: the block that t is allocating or freeing

treeVars == <<ptrieRoot, keys, childNodes, ptrieFreeNodesList, fresh>>
vars == <<treeVars, mapped, pc, ptr>>

Init ==
    /\ ptrieRoot = PTRIE_NULL_NODE
    /\ keys = [n \in Node |-> [b \in {0, 1} |-> 0]]
    /\ childNodes = [n \in Node |-> [b \in {0, 1} |-> NULL]]
    /\ ptrieFreeNodesList = <<>> /\ fresh = NodePage
    /\ mapped = [a \in Address |-> 0]
    /\ pc = [t \in Thread |-> "idle"] /\ ptr = [t \in Thread |-> NULL]

-----------------------------------------------------------------------------
LowByte(k) == k % 256
High(k) == k - LowByte(k)
Bit(k, i) == (k \div 2^i) % 2

\* The highest bit set in x > 0.
BSR(x) == CHOOSE i \in 0 .. 30 : 2^i <= x /\ x < 2^(i + 1)

PrefixEnd(n) == LowByte(keys[n][0])
Branch(n, key) == Bit(key, PrefixEnd(n))

\* A place in the tree is the root or a child of a node: node and prevKey, pkey.
Root == <<>>
Child(n, key) == <<n, Branch(n, key)>>
At(place) == IF place = Root THEN ptrieRoot ELSE childNodes[place[1]][place[2]]
KeyAt(place) == keys[place[1]][place[2]]

\* The key agrees with those below n in the bits above n's own.
PrefixMatches(n, key) == (key ^^ keys[n][0]) \div 2^(PrefixEnd(n) + 1) = 0

\* Where ptrie_insert puts the new node.
RECURSIVE InsertionPlace(_, _)
InsertionPlace(key, place) ==
    IF At(place) \in Node /\ PrefixMatches(At(place), key)
    THEN InsertionPlace(key, Child(At(place), key))
    ELSE place

\* The place whose child on the branch of the key is a leaf.
RECURSIVE RemovalPlace(_, _)
RemovalPlace(key, place) ==
    LET below == Child(At(place), key)
    IN  IF At(below) \in Node THEN RemovalPlace(key, below) ELSE place

\* The last key and value of ptrie_lookup.
RECURSIVE Lookup(_, _)
Lookup(key, place) ==
    IF At(place) \in Node THEN Lookup(key, Child(At(place), key))
    ELSE [key |-> IF place = Root THEN NULL ELSE High(KeyAt(place)), value |-> At(place)]

\* *node = x, while newNode gets its keys and children.
Write(place, x, ks, cs) ==
    IF place = Root
    THEN ptrieRoot' = x /\ keys' = ks /\ childNodes' = cs
    ELSE /\ childNodes' = [cs EXCEPT ![place[1]][place[2]] = x]
         /\ keys' = ks
         /\ UNCHANGED ptrieRoot

\* The only node of a tree (or of an empty place) branches at bit 0, before which
\* every other key is inserted; its key of branch 1 is left as it is.
OnlyChild_Twice(value) == (0 :> value) @@ (1 :> value)
OnlyChild(value) == (0 :> value) @@ (1 :> PTRIE_NULL_NODE)

InsertFirst(key, value, new, place) ==
    Write(place, new, [keys EXCEPT ![new][0] = key],
          [childNodes EXCEPT ![new] = OnlyChild(value)])

\* What the key differs from: a node's first key or the key of a leaf.
OldKey(place) == IF At(place) \in Node THEN keys[At(place)][0] ELSE KeyAt(place)

InsertBefore(key, value, new, place) ==
    LET old   == OldKey(place)
        index == BSR(key ^^ (IF At(place) \in Node THEN old ELSE High(old)))
        b     == Bit(key, index)
        two   == (b :> key) @@ (1 - b :> High(old))
    IN  Write(place, new, [keys EXCEPT ![new] = [two EXCEPT ![0] = @ + index]],
              [childNodes EXCEPT ![new] = (b :> value) @@ (1 - b :> At(place))])

ptrie_insert(key, value, new) ==
    LET place == InsertionPlace(key, Root)
    IN  IF At(place) = PTRIE_NULL_NODE THEN InsertFirst(key, value, new, place)
        ELSE InsertBefore(key, value, new, place)

\* The sibling takes the node's place; if it is a leaf, its key goes with it.  The
\* link of the free list overwrites keys[0]; children are written on the next use.
SiblingKey_Left(n, b, place) == KeyAt(place)
SiblingKey(n, b, place) == High(keys[n][1 - b]) + LowByte(KeyAt(place))

Reusable_Lost(n) == ptrieFreeNodesList
Reusable(n) == <<n>> \o ptrieFreeNodesList

ptrie_remove(key) ==
    LET place == RemovalPlace(key, Root)
        n     == At(place)
        b     == Branch(n, key)
        other == childNodes[n][1 - b]
        moved == IF other \notin Node \cup {PTRIE_NULL_NODE}
                 THEN [keys EXCEPT ![place[1]][place[2]] = SiblingKey(n, b, place)]
                 ELSE keys
    IN  /\ Write(place, other, [moved EXCEPT ![n][0] = 0],
                 [childNodes EXCEPT ![n] = [c \in {0, 1} |-> NULL]])
        /\ ptrieFreeNodesList' = Reusable(n)

-----------------------------------------------------------------------------
Goto(t, label, p) == pc' = [pc EXCEPT ![t] = label] /\ ptr' = [ptr EXCEPT ![t] = p]

\* fetch_from_central_cache: sys_aligned_alloc, no lock held.  Bound: one page of nodes
\* is enough for all blocks.
Map(t) ==
    /\ pc[t] = "idle"
    /\ \E a \in Address : \E size \in SizesAt[a] :
          /\ mapped[a] = 0 /\ Cardinality({b \in Address : mapped[b] > 0}) < Len(NodePage)
          /\ mapped' = [mapped EXCEPT ![a] = size]
          /\ Goto(t, "insert", a)
    /\ UNCHANGED treeVars

\* The node comes from the free list, or is the next of the page; a page is fetched with
\* the lock released, and nothing that was read before is used after.
Insert(t) ==
    /\ pc[t] = "insert"
    /\ IF ptrieFreeNodesList # <<>>
       THEN /\ ptrie_insert(ptr[t], mapped[ptr[t]], Head(ptrieFreeNodesList))
            /\ ptrieFreeNodesList' = Tail(ptrieFreeNodesList)
            /\ UNCHANGED fresh
       ELSE /\ fresh # <<>>
            /\ ptrie_insert(ptr[t], mapped[ptr[t]], Head(fresh))
            /\ fresh' = Tail(fresh)
            /\ UNCHANGED ptrieFreeNodesList
    /\ Goto(t, "idle", NULL)
    /\ UNCHANGED mapped

\* The blocks that the application may free.
Held == {a \in Address : mapped[a] > 0 /\ \A t \in Thread : ptr[t] # a}

\* sys_free: the size is removed before the memory is given back.
KeptUntilRemoved_Early(a) == mapped' = [mapped EXCEPT ![a] = 0]
KeptUntilRemoved(a) == UNCHANGED mapped

Free(t) ==
    /\ pc[t] = "idle"
    /\ \E a \in Held : Goto(t, "remove", a) /\ KeptUntilRemoved(a)
    /\ UNCHANGED treeVars

Remove(t) ==
    /\ pc[t] = "remove"
    /\ ptrie_remove(ptr[t])
    /\ Goto(t, "unmap", ptr[t])
    /\ UNCHANGED <<fresh, mapped>>

Unmap(t) ==
    /\ pc[t] = "unmap"
    /\ mapped' = [mapped EXCEPT ![ptr[t]] = 0]
    /\ Goto(t, "idle", NULL)
    /\ UNCHANGED treeVars

Next == \E t \in Thread : Map(t) \/ Insert(t) \/ Free(t) \/ Remove(t) \/ Unmap(t)

Spec == Init /\ [][Next]_vars

-----------------------------------------------------------------------------
\* The keys in the tree: of the blocks that are mapped, those of which the insertion
\* is over and the removal is not.
Stored == {a \in Address : mapped[a] > 0 /\ \A t \in Thread :
                              ptr[t] = a => pc[t] \notin {"insert", "unmap"}}

\* ltmsize finds the size of every block, whatever was inserted and removed, and in
\* whatever order: the last key met is the one looked for, as the code asserts.
SizesFound ==
    \A a \in Stored : Lookup(a, Root) = [key |-> a, value |-> mapped[a]]

\* The nodes of the tree.
RECURSIVE Below(_)
Below(c) == IF c \in Node THEN {c} \cup Below(childNodes[c][0]) \cup Below(childNodes[c][1]) ELSE {}
InTree == Below(ptrieRoot)

\* "Inserting a new element into this tree require to create always an exactly one
\* new node (and similarly for remove)"; the nodes in the tree, on the free list and
\* never used are different ones.
OneNodePerKey ==
    /\ Cardinality(InTree) = Cardinality(Stored)
    /\ InTree \cup Range(ptrieFreeNodesList) \cup Range(fresh) = Node
    /\ Cardinality(InTree) + Len(ptrieFreeNodesList) + Len(fresh) = Len(NodePage)

\* "Tree always contains just one node with null child": therefore ptrie_remove,
\* which corrects a key of the parent when a leaf moves up, finds a parent.
OneNullChild ==
    InTree # {} =>
       /\ Cardinality({n \in InTree : \E b \in {0, 1} : childNodes[n][b] = PTRIE_NULL_NODE}) = 1
       /\ ptrieRoot \in Node

\* An insertion never ends at a leaf of the same key: "key already inserted" cannot
\* happen although addresses come back, since a key is removed before its memory is
\* unmapped.
KeyIsNew ==
    \A t \in Thread : pc[t] = "insert" =>
       LET place == InsertionPlace(ptr[t], Root)
       IN  At(place) \notin Node \cup {PTRIE_NULL_NODE} => High(KeyAt(place)) # ptr[t]
=============================================================================
