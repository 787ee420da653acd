----------------------------- MODULE IronPeter -----------------------------
(***************************************************************************)
(* ironpeter: nodes of 64K, each cut into objects of one bin; a node that  *)
(* has a free object is on the list of its bin.  When a node has no object *)
(* in use, the lists of all bins are searched for such nodes, which are    *)
(* returned to the system.  An address leads to its node by clearing the   *)
(* low 16 bits.  imalloc() and ifree() hold a mutex for the whole call.    *)
(***************************************************************************)
EXTENDS Integers, Sequences, FiniteSets, SequencesExt

CONSTANTS
    Platform,       \* the pages of 64K that the system can return
    Bin,
    Objects,        \* Objects[b]: objects of a node of bin b
    NULL

IronAssumption ==
    /\ Objects \in [Bin -> Nat \ {0}] /\ NULL \notin Bin

VARIABLES
    nodes,          \* nodes[b]: the list of a bin
    index, usedObjs, firstObject,   \* of the header of a node
    allocs,         \* pages that the system has returned
    objects, bigs   \* of the application: objects <<node, i>>, pages of their own

vars == <<nodes, index, usedObjs, firstObject, allocs, objects, bigs>>

Init ==
    /\ nodes = [b \in Bin |-> <<>>]
    /\ index = [p \in Platform |-> NULL]
    /\ usedObjs = [p \in Platform |-> 0]
    /\ firstObject = [p \in Platform |-> <<>>]
    /\ allocs = 0 /\ objects = {} /\ bigs = {}

-----------------------------------------------------------------------------
\* The nodes: pages with a header.
Nodes == {p \in Platform : index[p] # NULL}
Unused == Platform \ (Nodes \cup bigs)

FreshObjects(b) == [i \in 1 .. Objects[b] |-> i]

\* node::alloc on a node whose free objects are free; a node that has no more leaves
\* the head of its list.
StillListed(rest, list) == IF rest = <<>> THEN Tail(list) ELSE list

Take(n, b, free, used, list) ==
    /\ objects' = objects \cup {<<n, Head(free)>>}
    /\ usedObjs' = [usedObjs EXCEPT ![n] = used + 1]
    /\ firstObject' = [firstObject EXCEPT ![n] = Tail(free)]
    /\ nodes' = [nodes EXCEPT ![b] = StillListed(Tail(free), list)]

\* malloc of at most half a page: from the first node of the bin, or from a new one.
Malloc ==
    /\ \E b \in Bin :
          \/ /\ nodes[b] # <<>>
             /\ LET n == Head(nodes[b]) IN Take(n, b, firstObject[n], usedObjs[n], nodes[b])
             /\ UNCHANGED <<index, allocs>>
          \/ /\ nodes[b] = <<>>
             /\ \E n \in Unused :
                   /\ Take(n, b, FreshObjects(b), 0, <<n>>)
                   /\ index' = [index EXCEPT ![n] = b]
             /\ allocs' = allocs + 1
    /\ UNCHANGED bigs

MallocBig ==
    /\ \E p \in Unused : bigs' = bigs \cup {p}
    /\ allocs' = allocs + 1
    /\ UNCHANGED <<nodes, index, usedObjs, firstObject, objects>>

\* clean_up: every list is rebuilt, back to front, without the nodes not in use.
CleanUp(lists, used) ==
    LET empty == {n \in Nodes : used[n] = 0 /\ \E b \in Bin : n \in Range(lists[b])}
    IN  /\ nodes' = [b \in Bin |-> SelectSeq(Reverse(lists[b]), LAMBDA n : n \notin empty)]
        /\ index' = [p \in Platform |-> IF p \in empty THEN NULL ELSE index[p]]
        /\ allocs' = allocs - Cardinality(empty)

\* free: a node that had no free object comes back to its list.
WasFull_Never(n) == FALSE
WasFull(n) == firstObject[n] = <<>>

Free ==
    /\ \E o \in objects :
          LET n     == o[1]
              b     == index[n]
              lists == IF WasFull(n) THEN [nodes EXCEPT ![b] = <<n>> \o @] ELSE nodes
              used  == [usedObjs EXCEPT ![n] = @ - 1]
          IN  /\ objects' = objects \ {o}
              /\ usedObjs' = used
              /\ firstObject' = [firstObject EXCEPT ![n] = IF used[n] = 0 THEN <<>> ELSE <<o[2]>> \o @]
              /\ IF used[n] = 0 THEN CleanUp(lists, used)
                 ELSE nodes' = lists /\ UNCHANGED <<index, allocs>>
    /\ UNCHANGED bigs

FreeBig ==
    /\ \E p \in bigs : bigs' = bigs \ {p}
    /\ allocs' = allocs - 1
    /\ UNCHANGED <<nodes, index, usedObjs, firstObject, objects>>

Next == Malloc \/ MallocBig \/ Free \/ FreeBig

Spec == Init /\ [][Next]_vars

-----------------------------------------------------------------------------
\* An object in use lies in a node: no node is returned while an object of it is used,
\* and its page is not given out again; the others are on the node's list, once.
Tiled ==
    /\ \A o \in objects : o[1] \in Nodes /\ o[2] \in 1 .. Objects[index[o[1]]]
    /\ Nodes \cap bigs = {}
    /\ \A n \in Nodes :
          /\ IsInjective(firstObject[n])
          /\ {<<n, i>> : i \in Range(firstObject[n])} = ({n} \X (1 .. Objects[index[n]])) \ objects

\* Each list has the nodes of its bin with a free object, once; the counters of nodes
\* and pages are exact; no node without objects in use is kept.
CountersExact ==
    /\ \A b \in Bin :
          /\ IsInjective(nodes[b])
          /\ Range(nodes[b]) = {n \in Nodes : index[n] = b /\ firstObject[n] # <<>>}
    /\ \A n \in Nodes : usedObjs[n] = Cardinality({o \in objects : o[1] = n}) /\ usedObjs[n] > 0
    /\ allocs = Cardinality(Nodes) + Cardinality(bigs)
=============================================================================
