----------------------------- MODULE WinniePool -----------------------------
(***************************************************************************)
(* winnie3 and winnie4: every thread has a list of free blocks for each    *)
(* size, filled a chunk at a time.  The state of a size is registered when *)
(* its first chunk comes; what is registered is given back when the thread *)
(* cleans up at its end.  All state is thread-local, so a call is one      *)
(* step.  A memory is what new[] returned; a block is <<memory, i>>.       *)
(***************************************************************************)
EXTENDS Integers, Sequences, FiniteSets, SequencesExt

CONSTANTS
    Thread, Memory,
    Size,           \* the sizes of blocks up to USE_OPERATOR_NEW
    NumBlocks       \* NumBlocks[s]: CHUNK_SIZE / s

WinniePoolAssumption == NumBlocks \in [Size -> Nat \ {0}]

VARIABLES
    pChunksHead, pFirstFree,    \* of a thread and a size
    pThreadAllocatorStates,     \* of a thread: the sizes registered
    news,                       \* the memory that new[] has given out
    users                       \* the blocks of the application

vars == <<pChunksHead, pFirstFree, pThreadAllocatorStates, news, users>>

Nothing == [s \in Size |-> <<>>]

Init ==
    /\ pChunksHead = [t \in Thread |-> Nothing]
    /\ pFirstFree = [t \in Thread |-> Nothing]
    /\ pThreadAllocatorStates = [t \in Thread |-> <<>>]
    /\ news = {} /\ users = {}

-----------------------------------------------------------------------------
Cut(m, s) == [i \in 1 .. NumBlocks[s] |-> <<m, i>>]

\* NewChunk registers the size with its first chunk.
IsFirstChunk_OfAll(t, s) == pThreadAllocatorStates[t] = <<>>
IsFirstChunk(t, s) == pChunksHead[t][s] = <<>>

Registered(t, s) ==
    IF IsFirstChunk(t, s) THEN <<s>> \o pThreadAllocatorStates[t] ELSE pThreadAllocatorStates[t]

HandOut(t, s, free) ==
    /\ users' = users \cup {Head(free)}
    /\ pFirstFree' = [pFirstFree EXCEPT ![t][s] = Tail(free)]

Allocate(t, s) ==
    \/ /\ pFirstFree[t][s] # <<>>
       /\ HandOut(t, s, pFirstFree[t][s])
       /\ UNCHANGED <<pChunksHead, pThreadAllocatorStates, news>>
    \/ /\ pFirstFree[t][s] = <<>>
       /\ \E m \in Memory \ news :
             /\ news' = news \cup {m}
             /\ pChunksHead' = [pChunksHead EXCEPT ![t][s] = <<m>> \o @]
             /\ HandOut(t, s, Cut(m, s))
       /\ pThreadAllocatorStates' = [pThreadAllocatorStates EXCEPT ![t] = Registered(t, s)]

\* Chunks of a size, of any thread.
ChunksOf(s) == UNION {ToSet(pChunksHead[t][s]) : t \in Thread}

\* Any thread may free a block: the caller's type tells the size.
Deallocate(t) ==
    /\ \E s \in Size : \E b \in users :
          /\ b[1] \in ChunksOf(s)
          /\ users' = users \ {b}
          /\ pFirstFree' = [pFirstFree EXCEPT ![t][s] = <<b>> \o @]
    /\ UNCHANGED <<pChunksHead, pThreadAllocatorStates, news>>

\* What the authors ask for: no block goes from one thread to another, or it has come
\* back.
OnList(t) == UNION {ToSet(pFirstFree[t][s]) : s \in Size}
Chunks(t) == UNION {ToSet(pChunksHead[t][s]) : s \in Size}
KeptApart(t) ==
    /\ \A b \in users : b[1] \notin Chunks(t)
    /\ \A r \in Thread : \A b \in OnList(r) : r = t <=> b[1] \in Chunks(t)

\* The thread cleans up and ends; a new one may start with empty storage.
CleanThreadAllocatorState(t) ==
    /\ KeptApart(t)
    /\ news' = news \ UNION {ToSet(pChunksHead[t][s]) : s \in ToSet(pThreadAllocatorStates[t])}
    /\ pChunksHead' = [pChunksHead EXCEPT ![t] = Nothing]
    /\ pFirstFree' = [pFirstFree EXCEPT ![t] = Nothing]
    /\ pThreadAllocatorStates' = [pThreadAllocatorStates EXCEPT ![t] = <<>>]
    /\ UNCHANGED users

Next ==
    \E t \in Thread :
       (\E s \in Size : Allocate(t, s)) \/ Deallocate(t) \/ CleanThreadAllocatorState(t)

Spec == Init /\ [][Next]_vars

-----------------------------------------------------------------------------
Lists == Thread \X Size
Free(l) == pFirstFree[l[1]][l[2]]

\* Chunks belong to one thread and one size, and none is left when its thread has
\* ended; their blocks are in use or on a list of that size, once, whichever threads
\* freed them.
Tiled ==
    /\ news = UNION {Chunks(t) : t \in Thread}
    /\ \A k, l \in Lists : k # l =>
          /\ ToSet(Free(k)) \cap ToSet(Free(l)) = {}
          /\ ToSet(pChunksHead[k[1]][k[2]]) \cap ToSet(pChunksHead[l[1]][l[2]]) = {}
    /\ \A l \in Lists : IsInjective(Free(l)) /\ ToSet(Free(l)) \cap users = {}
    /\ \A s \in Size :
          LET blocks == ChunksOf(s) \X (1 .. NumBlocks[s])
          IN  blocks \ users = UNION {ToSet(pFirstFree[t][s]) : t \in Thread}
    /\ \A b \in users : b[1] \in news
=============================================================================
