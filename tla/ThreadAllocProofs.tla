------------------------- MODULE ThreadAllocProofs --------------------------
(***************************************************************************)
(* What holds of ThreadAlloc for every number of threads, directories,     *)
(* pages and blocks, on both platforms.  The invariant is built in layers. *)
(*                                                                         *)
(* Types and Stages say what the variables hold at each place in the code, *)
(* Ownership who may touch a directory without its lock.                   *)
(*                                                                         *)
(* On top of them, the memory that is handed out: where a block can be     *)
(* (Places), what it keeps alive (Living), what the counters count         *)
(* (CountersExact), which pages and directories are known to whom          *)
(* (Listed, Attended).  n_allocated_blocks and n_allocated_objects count   *)
(* what is outstanding, whoever decrements them, and so a page or a        *)
(* directory whose counter reaches zero has nothing outstanding.  From     *)
(* this: no memory is used after it was freed, none is lost, and           *)
(* threadalloc implements HeapContract.                                    *)
(***************************************************************************)
EXTENDS ThreadAlloc, FiniteSetTheorems, TLAPS

\* The part of TypeOK that the layers below need.
Types ==
    /\ dirs \in SUBSET Dir
    /\ terminated \in [Dir -> BOOLEAN]
    /\ pageDir \in [Page -> Dir \cup {NULL}]
    /\ ctx \in [Thread -> Dir \cup {NULL}]
    /\ pc \in [Thread -> PC]
    /\ want \in [Thread -> Chain \cup {NULL}]
    /\ blk \in [Thread -> Block \cup {NULL}]
    /\ target \in [Thread -> Dir \cup {NULL}]
    /\ orphans \in SUBSET Dir /\ thread_list \in SUBSET Dir /\ scan \in SUBSET Dir

InAlloc(t) ==
    pc[t] \in {"register", "pending", "drain", "take", "carve", "count", "counted", "lock", "scan"}

\* A thread inside thread_alloc() has a directory, one inside thread_free() a block.
Stages ==
    \A t \in Thread :
       /\ InAlloc(t) \/ (Cleaning(t) /\ Win32) => ctx[t] # NULL /\ want[t] # NULL
       /\ Cleaning(t) /\ ~Win32 => ctx[t] = NULL
       /\ pc[t] = "free" => blk[t] # NULL
       /\ pc[t] = "remote" => blk[t] # NULL
       /\ Cleaning(t) => target[t] # NULL
       /\ pc[t] \in {"register", "count", "counted", "lock", "scan"} => Win32

\* Whoever works on a directory without its lock is alone with it, and nobody
\* does once it is terminated or waits for a scan.
Ownership ==
    /\ \A t \in Thread : ctx[t] # NULL =>
          /\ ctx[t] \in dirs /\ ~terminated[ctx[t]] /\ ctx[t] \notin orphans
          /\ \A u \in Thread : ctx[u] = ctx[t] => u = t
          /\ \A u \in Thread : Cleaning(u) => target[u] # ctx[t]
    /\ \A t \in Thread : Cleaning(t) =>
          /\ target[t] \in dirs /\ ~terminated[target[t]] /\ target[t] \notin orphans
          /\ \A u \in Thread : Cleaning(u) /\ target[u] = target[t] => u = t
    /\ \A d \in orphans : d \in dirs /\ ~terminated[d]

OwnerInv == Types /\ Stages /\ Ownership
-----------------------------------------------------------------------------
\* Both callers of BeginAlloc leave these variables in one of two ways: a thread
\* without a directory gets a fresh one.
LEMMA BeginAllocTypes ==
  ASSUME Types, NEW t \in Thread, NEW c \in Chain, BeginAlloc(t, c)
  PROVE  /\ dirs' \in SUBSET Dir /\ terminated' \in [Dir -> BOOLEAN]
         /\ ctx' \in [Thread -> Dir \cup {NULL}]
         /\ want' \in [Thread -> Chain \cup {NULL}]
         /\ pc' \in [Thread -> PC]
<1>1. want' \in [Thread -> Chain \cup {NULL}] /\ pc' \in [Thread -> PC]
  BY DEF BeginAlloc, Types, PC
<1>2. CASE UNCHANGED <<dirVars, ctx>>
  BY <1>1, <1>2 DEF Types, dirVars
<1>3. CASE ~UNCHANGED <<dirVars, ctx>>
  <2> PICK d \in Dir \ dirs :
         /\ dirs' = dirs \cup {d}
         /\ ctx' = [ctx EXCEPT ![t] = d]
         /\ terminated' = [terminated EXCEPT ![d] = FALSE]
    BY <1>3 DEF BeginAlloc
  <2> QED
    BY <1>1 DEF Types
<1> QED
  BY <1>2, <1>3

LEMMA TypesStep == ASSUME Types, Stages, [Next]_vars PROVE Types'
<1> USE ThreadAllocAssumption DEF Types, Stages, InAlloc, Cleaning, PC, Block, PageOf,
       pageVars, dirVars, threadVars, winVars, countVars, listVars
<1> SUFFICES ASSUME Next PROVE Types'
  BY DEF vars
<1> PICK t \in Thread : Step(t) \/ Call(t)
  BY DEF Next
<1>1. CASE Register(t)
  BY <1>1 DEF Register, Goto
<1>2. CASE TakePending(t)
  BY <1>2 DEF TakePending, Goto
<1>3. CASE Drain(t)
  BY <1>3 DEF Drain, OfChain, Goto
<1>4. CASE TakeFromChain(t)
  BY <1>4 DEF TakeFromChain, Goto, HandOut
<1>5. CASE ChainEmpty(t)
  BY <1>5 DEF ChainEmpty, Goto
<1>6. CASE Carve(t)
  BY <1>6 DEF Carve, Goto
<1>7. CASE FreeOld(t)
  BY <1>7 DEF FreeOld, Goto, BeginFree, FreeFrame
<1>8. CASE FreeRemote(t)
  BY <1>8 DEF FreeRemote, Goto
<1>9. CASE CleanupStart(t)
  BY <1>9 DEF CleanupStart, Goto, DropPending, CleanupFrame
<1>10. CASE CleanupSweep(t)
  BY <1>10 DEF CleanupSweep, Goto, CleanupFrame
<1>11. CASE CleanupCheck(t)
  BY <1>11 DEF CleanupCheck, CleanupDone, Goto, DropPending, CleanupFrame
<1>12. CASE ReadCount(t)
  BY <1>12 DEF ReadCount, Goto
<1>13. CASE WriteCount(t)
  BY <1>13 DEF WriteCount, Goto
<1>14. CASE ScanStart(t)
  BY <1>14 DEF ScanStart, Goto
<1>15. CASE ScanVisit(t)
  BY <1>15 DEF ScanVisit, ThreadEnded, Goto
<1>16. CASE ScanEnd(t)
  BY <1>16 DEF ScanEnd, Goto
<1>17. CASE Free(t)
  BY <1>17 DEF Free, Held, Goto, BeginFree, FreeFrame
<1>18. CASE AllocBig(t)
  BY <1>18 DEF AllocBig, Goto
<1>19. CASE FreeBig(t)
  BY <1>19 DEF FreeBig, Goto
<1>20. CASE ReallocBig(t)
  BY <1>20 DEF ReallocBig, Goto
<1>21. CASE ReallocToBig(t)
  BY <1>21 DEF ReallocToBig, Held, Goto
<1>22. CASE Exit(t)
  BY <1>22 DEF Exit, Goto, SlotAfterExit
<1>23. CASE Spawn(t)
  BY <1>23 DEF Spawn, Goto
<1>24. ASSUME NEW c \in Chain, Alloc(t, c) PROVE Types'
  BY <1>24, BeginAllocTypes DEF Alloc
<1>25. ASSUME NEW c \in Chain, Realloc(t, c) PROVE Types'
  BY <1>25, BeginAllocTypes DEF Realloc, Held
<1> QED
  BY <1>1, <1>2, <1>3, <1>4, <1>5, <1>6, <1>7, <1>8, <1>9, <1>10, <1>11, <1>12, <1>13, <1>14, <1>15, <1>16, <1>17, <1>18, <1>19, <1>20, <1>21, <1>22, <1>23, <1>24, <1>25 DEF Step, Call

LEMMA StagesStep == ASSUME Types, Stages, [Next]_vars PROVE Stages'
<1> USE ThreadAllocAssumption DEF Types, Stages, InAlloc, Cleaning, PC, Block, PageOf,
       pageVars, dirVars, threadVars, winVars, countVars, listVars
<1> SUFFICES ASSUME Next PROVE Stages'
  BY DEF vars
<1> PICK t \in Thread : Step(t) \/ Call(t)
  BY DEF Next
<1>1. CASE Register(t)
  BY <1>1 DEF Register, Goto
<1>2. CASE TakePending(t)
  BY <1>2 DEF TakePending, Goto
<1>3. CASE Drain(t)
  BY <1>3 DEF Drain, OfChain, Goto
<1>4. CASE TakeFromChain(t)
  BY <1>4 DEF TakeFromChain, Goto, HandOut
<1>5. CASE ChainEmpty(t)
  BY <1>5 DEF ChainEmpty, Goto
<1>6. CASE Carve(t)
  BY <1>6 DEF Carve, Goto
<1>7. CASE FreeOld(t)
  BY <1>7 DEF FreeOld, Goto, BeginFree, FreeFrame
<1>8. CASE FreeRemote(t)
  BY <1>8 DEF FreeRemote, Goto
<1>9. CASE CleanupStart(t)
  BY <1>9 DEF CleanupStart, Goto, DropPending, CleanupFrame
<1>10. CASE CleanupSweep(t)
  BY <1>10 DEF CleanupSweep, Goto, CleanupFrame
<1>11. CASE CleanupCheck(t)
  BY <1>11 DEF CleanupCheck, CleanupDone, Goto, DropPending, CleanupFrame
<1>12. CASE ReadCount(t)
  BY <1>12 DEF ReadCount, Goto
<1>13. CASE WriteCount(t)
  BY <1>13 DEF WriteCount, Goto
<1>14. CASE ScanStart(t)
  BY <1>14 DEF ScanStart, Goto
<1>15. CASE ScanVisit(t)
  BY <1>15 DEF ScanVisit, ThreadEnded, Goto
<1>16. CASE ScanEnd(t)
  BY <1>16 DEF ScanEnd, Goto
<1>17. CASE Free(t)
  BY <1>17 DEF Free, Held, Goto, BeginFree, FreeFrame
<1>18. CASE AllocBig(t)
  BY <1>18 DEF AllocBig, Goto
<1>19. CASE FreeBig(t)
  BY <1>19 DEF FreeBig, Goto
<1>20. CASE ReallocBig(t)
  BY <1>20 DEF ReallocBig, Goto
<1>21. CASE ReallocToBig(t)
  BY <1>21 DEF ReallocToBig, Held, Goto
<1>22. CASE Exit(t)
  BY <1>22 DEF Exit, Goto, SlotAfterExit
<1>23. CASE Spawn(t)
  BY <1>23 DEF Spawn, Goto
<1>24. ASSUME NEW c \in Chain, Alloc(t, c) PROVE Stages'
  BY <1>24 DEF Alloc, BeginAlloc
<1>25. ASSUME NEW c \in Chain, Realloc(t, c) PROVE Stages'
  BY <1>25 DEF Realloc, BeginAlloc
<1> QED
  BY <1>1, <1>2, <1>3, <1>4, <1>5, <1>6, <1>7, <1>8, <1>9, <1>10, <1>11, <1>12, <1>13, <1>14, <1>15, <1>16, <1>17, <1>18, <1>19, <1>20, <1>21, <1>22, <1>23, <1>24, <1>25 DEF Step, Call

LEMMA OwnershipStep == ASSUME OwnerInv, [Next]_vars PROVE Ownership'
<1> USE ThreadAllocAssumption DEF OwnerInv, Types, Stages, Ownership, InAlloc, Cleaning, PC,
       pageVars, dirVars, threadVars, winVars, countVars, listVars
<1> SUFFICES ASSUME Next PROVE Ownership'
  BY DEF vars
<1> PICK t \in Thread : Step(t) \/ Call(t)
  BY DEF Next
<1>1. CASE Register(t)
  BY <1>1 DEF Register, Goto
<1>2. CASE TakePending(t)
  BY <1>2 DEF TakePending, Goto
<1>3. CASE Drain(t)
  BY <1>3 DEF Drain, OfChain, Goto
<1>4. CASE TakeFromChain(t)
  BY <1>4 DEF TakeFromChain, Goto, HandOut
<1>5. CASE ChainEmpty(t)
  BY <1>5 DEF ChainEmpty, Goto
<1>6. CASE Carve(t)
  BY <1>6 DEF Carve, Goto
<1>7. CASE FreeOld(t)
  BY <1>7 DEF FreeOld, Goto, BeginFree, FreeFrame
<1>8. CASE FreeRemote(t)
  BY <1>8 DEF FreeRemote, Goto
<1>9. CASE CleanupStart(t)
  BY <1>9 DEF CleanupStart, Goto, DropPending, CleanupFrame
<1>10. CASE CleanupSweep(t)
  BY <1>10 DEF CleanupSweep, Goto, CleanupFrame
<1>11. CASE CleanupCheck(t)
  BY <1>11 DEF CleanupCheck, CleanupDone, Goto, DropPending, CleanupFrame
<1>12. CASE ReadCount(t)
  BY <1>12 DEF ReadCount, Goto
<1>13. CASE WriteCount(t)
  BY <1>13 DEF WriteCount, Goto
<1>14. CASE ScanStart(t)
  BY <1>14 DEF ScanStart, Goto
<1>15. CASE ScanVisit(t)
  BY <1>15 DEF ScanVisit, ThreadEnded, Goto
<1>16. CASE ScanEnd(t)
  BY <1>16 DEF ScanEnd, Goto
<1>17. CASE Free(t)
  BY <1>17 DEF Free, Held, Goto, BeginFree, FreeFrame
<1>18. CASE AllocBig(t)
  BY <1>18 DEF AllocBig, Goto
<1>19. CASE FreeBig(t)
  BY <1>19 DEF FreeBig, Goto
<1>20. CASE ReallocBig(t)
  BY <1>20 DEF ReallocBig, Goto
<1>21. CASE ReallocToBig(t)
  BY <1>21 DEF ReallocToBig, Held, Goto
<1>22. CASE Exit(t)
  BY <1>22 DEF Exit, Goto, SlotAfterExit
<1>23. CASE Spawn(t)
  BY <1>23 DEF Spawn, Goto
<1>24. ASSUME NEW c \in Chain, Alloc(t, c) PROVE Ownership'
  BY <1>24 DEF Alloc, BeginAlloc
<1>25. ASSUME NEW c \in Chain, Realloc(t, c) PROVE Ownership'
  BY <1>25 DEF Realloc, BeginAlloc
<1> QED
  BY <1>1, <1>2, <1>3, <1>4, <1>5, <1>6, <1>7, <1>8, <1>9, <1>10, <1>11, <1>12, <1>13, <1>14, <1>15, <1>16, <1>17, <1>18, <1>19, <1>20, <1>21, <1>22, <1>23, <1>24, <1>25 DEF Step, Call

LEMMA OwnerInvInit == Init => OwnerInv
  BY ThreadAllocAssumption
     DEF Init, OwnerInv, Types, Stages, Ownership, InAlloc, Cleaning, PC

LEMMA OwnerInvStep == OwnerInv /\ [Next]_vars => OwnerInv'
  BY TypesStep, StagesStep, OwnershipStep DEF OwnerInv

THEOREM OwnerInvariant == Spec => []OwnerInv
  BY OwnerInvInit, OwnerInvStep, PTL DEF Spec

\* No two threads work on a directory at a time without its lock, and none on a
\* terminated one or one that waits for a scan (thread_alloc, thread_free and
\* cleanup change counters, chains and pages without entering cs).
THEOREM OneOwnerTheorem == Spec => []OneOwner
<1>1. OwnerInv => OneOwner
  BY ThreadAllocAssumption DEF OwnerInv, Types, Ownership, OneOwner, UnlockedUsers
<1> QED
  BY <1>1, OwnerInvariant, PTL

-----------------------------------------------------------------------------
\* The rest of TypeOK, but for the signs of the counters.
MemoryTypes ==
    /\ pageLive \in SUBSET Page /\ held \in [Block \cup Big -> Nat]
    /\ chain \in [Dir -> [Chain -> SUBSET Block]]
    /\ pending_chain \in [Dir -> SUBSET Block]
    /\ n_pending_requests \in [Dir -> Nat]
    /\ n_allocated_objects \in [Dir -> Int]
    /\ pages \in [Dir -> SUBSET Page]
    /\ pageChain \in [Page -> Chain \cup {NULL}]
    /\ n_allocated_blocks \in [Page -> Int]
    /\ taken \in [Thread -> SUBSET Block]
    /\ check_count \in Nat /\ seen \in [Thread -> Nat]
    /\ global_cs \in Thread \cup {NULL}

\* At which places in the code a thread's locals mean something.
Locals ==
    \A t \in Thread :
       /\ target[t] # NULL => pc[t] \in {"remote", "cleanup", "sweep", "check"}
       /\ pc[t] = "remote" => target[t] = pageDir[PageOf(blk[t])]
       /\ taken[t] # {} => pc[t] = "drain"
       /\ blk[t] # NULL => pc[t] \in {"free", "remote"} \/ InAlloc(t) \/ (Cleaning(t) /\ Win32)

\* Neither the application nor a call has b.
Unheld(b) == held[b] = 0 /\ \A u \in Thread : blk[u] # b

\* A block is in one place: with the application, with a call, on the pending chain
\* of its directory, among those taken off it, or on the chain of its page.
HeldOnce == \A b \in Block \cup Big : held[b] \in {0, 1}

CallsApart ==
    \A t \in Thread : blk[t] # NULL =>
       held[blk[t]] = 0 /\ \A u \in Thread : blk[u] = blk[t] => u = t

PendingApart ==
    \A d \in dirs : \A b \in pending_chain[d] : Unheld(b) /\ pageDir[PageOf(b)] = d

TakenApart ==
    \A t \in Thread : \A b \in taken[t] :
       Unheld(b) /\ pageDir[PageOf(b)] = ctx[t] /\ b \notin pending_chain[ctx[t]]

ChainsApart ==
    \A t \in Thread : ctx[t] # NULL =>
       \A c \in Chain : \A b \in chain[ctx[t]][c] :
          /\ PageOf(b) \in pageLive /\ pageDir[PageOf(b)] = ctx[t] /\ pageChain[PageOf(b)] = c
          /\ Unheld(b) /\ b \notin pending_chain[ctx[t]] /\ b \notin taken[t]

Places == HeldOnce /\ CallsApart /\ PendingApart /\ TakenApart /\ ChainsApart

\* A block that is not back on a chain is on a page that has its memory.
Living ==
    /\ \A b \in Block : held[b] > 0 => PageOf(b) \in pageLive
    /\ \A t \in Thread : blk[t] # NULL => PageOf(blk[t]) \in pageLive
    /\ \A d \in dirs : \A b \in pending_chain[d] : PageOf(b) \in pageLive
    /\ \A t \in Thread : \A b \in taken[t] : PageOf(b) \in pageLive

\* Pages are on the list of their directory.  After the sweep of cleanup(), and
\* when the directory is terminated, those that are left are in use.
Listed ==
    /\ \A p \in pageLive : pageDir[p] \in dirs /\ p \in pages[pageDir[p]]
    /\ \A d \in dirs : ~terminated[d] => \A p \in pages[d] : p \in pageLive /\ pageDir[p] = d
    /\ \A d \in dirs : terminated[d] =>
          /\ pending_chain[d] = {} /\ n_allocated_objects[d] > 0
          /\ \A p \in pageLive : pageDir[p] = d => n_allocated_blocks[p] > 0
    /\ \A t \in Thread : pc[t] = "check" =>
          \A p \in pageLive : pageDir[p] = target[t] => n_allocated_blocks[p] > 0

\* A directory that is not terminated is somebody's, or waits for a scan.
Attended ==
    /\ \A d \in dirs : terminated[d] \/ UnlockedUsers(d) # {} \/ d \in orphans
    /\ \A d \in thread_list :
          d \in dirs /\ ~terminated[d] /\ \A t \in Thread : Cleaning(t) => target[t] # d
    /\ thread_list # {} => Win32

MemoryInv ==
    OwnerInv /\ MemoryTypes /\ Locals /\ Places /\ Living /\ CountersExact /\ Listed /\ Attended
-----------------------------------------------------------------------------
\* Sets of blocks are finite, and their cardinalities numbers.
LEMMA BlocksFinite ==
  ASSUME NEW S \in SUBSET Block
  PROVE  IsFiniteSet(S) /\ Cardinality(S) \in Nat
<1>1. IsFiniteSet(Block)
  BY FS_Product, ThreadAllocAssumption DEF Block
<1> QED
  BY <1>1, FS_Subset, FS_CardinalityType

\* The blocks of S in one page are a finite set of blocks.
LEMMA InPageFinite ==
  ASSUME NEW S \in SUBSET Block, NEW p
  PROVE  InPage(S, p) \in SUBSET Block /\ Cardinality(InPage(S, p)) \in Nat
<1>1. InPage(S, p) \in SUBSET Block
  BY DEF InPage
<1> QED
  BY <1>1, BlocksFinite

\* LessBlocks takes a number off the counter of every page.
LEMMA LessBlocksType ==
  ASSUME MemoryTypes, NEW S \in SUBSET Block
  PROVE  /\ LessBlocks(S) \in [Page -> Int]
         /\ \A p \in Page : LessBlocks(S)[p] = n_allocated_blocks[p] - Cardinality(InPage(S, p))
         /\ Cardinality(S) \in Nat
  BY InPageFinite, BlocksFinite DEF LessBlocks, MemoryTypes

\* A block is on a page, and is not the NULL of a thread that has no block.
LEMMA PageOfType == \A b \in Block : PageOf(b) \in Page /\ b # NULL
  BY ThreadAllocAssumption DEF Block, PageOf

\* Putting a set of blocks on one chain of one directory leaves the type alone.
LEMMA ChainType ==
  ASSUME MemoryTypes, NEW d \in Dir, NEW c \in Chain, NEW S \in SUBSET Block
  PROVE  /\ chain[d][c] \in SUBSET Block
         /\ [chain EXCEPT ![d][c] = S] \in [Dir -> [Chain -> SUBSET Block]]
<1>1. chain[d] \in [Chain -> SUBSET Block]
  BY DEF MemoryTypes
<1>2. [chain[d] EXCEPT ![c] = S] \in [Chain -> SUBSET Block]
  BY <1>1
<1>3. [chain EXCEPT ![d] = [chain[d] EXCEPT ![c] = S]] \in [Dir -> [Chain -> SUBSET Block]]
  BY <1>2 DEF MemoryTypes
<1> QED
  BY <1>1, <1>3

\* thread_free() keeps the counters and the chains in their types.
LEMMA BeginFreeTypes ==
  ASSUME Types, MemoryTypes, NEW t \in Thread, NEW b \in Block, BeginFree(t, b)
  PROVE  /\ n_allocated_blocks' \in [Page -> Int]
         /\ n_allocated_objects' \in [Dir -> Int]
         /\ chain' \in [Dir -> [Chain -> SUBSET Block]]
<1>1. CASE pageDir[PageOf(b)] # ctx[t]
  BY <1>1 DEF BeginFree, MemoryTypes
<1>2. CASE pageDir[PageOf(b)] = ctx[t]
  <2> DEFINE d == pageDir[PageOf(b)]
             c == pageChain[PageOf(b)]
  <2>1. n_allocated_blocks' = [n_allocated_blocks EXCEPT ![PageOf(b)] = @ - 1]
        /\ n_allocated_objects' = [n_allocated_objects EXCEPT ![d] = @ - 1]
        /\ chain' = [chain EXCEPT ![d][c] = @ \cup {b}]
    BY <1>2 DEF BeginFree
  <2> HIDE DEF d, c
  <2>5. n_allocated_objects' \in [Dir -> Int]
    <3>1. n_allocated_objects \in [Dir -> Int]
          /\ n_allocated_objects' = [n_allocated_objects EXCEPT ![d] = @ - 1]
      BY <2>1 DEF MemoryTypes
    <3>2. \A x \in Dir : n_allocated_objects[x] - 1 \in Int
      BY <3>1
    <3> QED
      BY <3>1, <3>2
  <2>6. n_allocated_blocks' \in [Page -> Int]
    BY <2>1, PageOfType DEF MemoryTypes
  <2>2. CASE d \in Dir /\ c \in Chain
    <3>1. chain[d][c] \cup {b} \in SUBSET Block
      BY <2>2, ChainType
    <3>2. chain' = [chain EXCEPT ![d][c] = chain[d][c] \cup {b}]
      BY <2>1
    <3>3. chain' \in [Dir -> [Chain -> SUBSET Block]]
      BY <2>2, <3>1, <3>2, ChainType
    <3> QED
      BY <2>5, <2>6, <3>3
  <2>3. CASE d \notin Dir \/ c \notin Chain
    <3>1. d \in Dir => [chain[d] EXCEPT ![c] = @ \cup {b}] = chain[d]
      BY <2>3 DEF MemoryTypes
    <3>2. chain' = [chain EXCEPT ![d] = [chain[d] EXCEPT ![c] = @ \cup {b}]]
      BY <2>1
    <3>3. chain' = chain
      BY <3>1, <3>2 DEF MemoryTypes
    <3> QED
      BY <2>5, <2>6, <3>3 DEF MemoryTypes
  <2> QED
    BY <2>2, <2>3
<1> QED
  BY <1>1, <1>2

\* A block has a user less, a large one a user more.
LEMMA MovedType ==
  ASSUME held \in [Block \cup Big -> Nat], NEW b \in Block \cup Big, NEW g \in Big,
         held[b] > 0
  PROVE  [held EXCEPT ![b] = @ - 1, ![g] = @ + 1] \in [Block \cup Big -> Nat]
<1>1. PICK h : h = [held EXCEPT ![b] = @ - 1]
  OBVIOUS
<1>2. held[b] - 1 \in Nat
  OBVIOUS
<1>3. h \in [Block \cup Big -> Nat]
  BY <1>1, <1>2
<1>4. [h EXCEPT ![g] = @ + 1] \in [Block \cup Big -> Nat]
  BY <1>3
<1> QED
  BY <1>1, <1>4

\* Every action keeps the types.
LEMMA MemoryTypesStep == ASSUME OwnerInv, MemoryTypes, [Next]_vars PROVE MemoryTypes'
<1> USE ThreadAllocAssumption, PageOfType DEF OwnerInv, Types, Stages, MemoryTypes, InAlloc, Cleaning, PC,
       pageVars, dirVars, threadVars, winVars, countVars, listVars
<1> SUFFICES ASSUME Next PROVE MemoryTypes'
  BY DEF vars
<1> PICK t \in Thread : Step(t) \/ Call(t)
  BY DEF Next
<1>1. CASE Register(t)
  BY <1>1 DEF Register, Goto
<1>2. CASE TakePending(t)
  BY <1>2 DEF TakePending, Goto
<1>3. CASE Drain(t)
  BY <1>3, LessBlocksType DEF Drain, Goto, OfChain
<1>4. CASE TakeFromChain(t)
  <2> PICK b \in chain[ctx[t]][want[t]] :
         /\ chain' = [chain EXCEPT ![ctx[t]][want[t]] = @ \ {b}]
         /\ HandOut(t, b)
    BY <1>4 DEF TakeFromChain
  <2>0. ctx[t] \in Dir /\ want[t] \in Chain
    BY <1>4 DEF TakeFromChain
  <2>1. b \in Block /\ PageOf(b) \in Page /\ chain[ctx[t]][want[t]] \ {b} \in SUBSET Block
    BY <2>0, ChainType, PageOfType
  <2>2. chain' \in [Dir -> [Chain -> SUBSET Block]]
    BY <2>0, <2>1, ChainType
  <2>3. n_allocated_blocks' \in [Page -> Int] /\ n_allocated_objects' \in [Dir -> Int]
    BY <2>0, <2>1 DEF HandOut
  <2>4. held' \in [Block \cup Big -> Nat]
    BY <2>0, <2>1 DEF HandOut, Give
  <2> QED
    BY <1>4, <2>2, <2>3, <2>4 DEF TakeFromChain
<1>5. CASE ChainEmpty(t)
  BY <1>5 DEF ChainEmpty, Goto
<1>6. CASE Carve(t)
  <2> PICK p \in Page \ pageLive, s \in Slots :
         /\ pageLive' = pageLive \cup {p}
         /\ pageChain' = [pageChain EXCEPT ![p] = want[t]]
         /\ pages' = [pages EXCEPT ![ctx[t]] = @ \cup {p}]
         /\ chain' = [chain EXCEPT ![ctx[t]][want[t]] = {p} \X (Slots \ {s})]
         /\ n_allocated_blocks' = [n_allocated_blocks EXCEPT ![p] = 1]
         /\ n_allocated_objects' = [n_allocated_objects EXCEPT ![ctx[t]] = @ + 1]
         /\ Give(<<p, s>>)
    BY <1>6 DEF Carve
  <2>0. ctx[t] \in Dir /\ want[t] \in Chain
    BY <1>6 DEF Carve
  <2>1. <<p, s>> \in Block /\ {p} \X (Slots \ {s}) \in SUBSET Block
    BY DEF Block
  <2>2. chain' \in [Dir -> [Chain -> SUBSET Block]]
    BY <2>0, <2>1, ChainType
  <2>3. n_allocated_blocks' \in [Page -> Int] /\ n_allocated_objects' \in [Dir -> Int]
        /\ pageLive' \in SUBSET Page /\ pageChain' \in [Page -> Chain \cup {NULL}]
    BY <2>0
  <2>4. pages' \in [Dir -> SUBSET Page]
    BY <2>0
  <2>5. held' \in [Block \cup Big -> Nat]
    BY <2>1 DEF Give
  <2> QED
    BY <1>6, <2>2, <2>3, <2>4, <2>5 DEF Carve
<1>7. CASE FreeOld(t)
  BY <1>7, BeginFreeTypes DEF FreeOld, FreeFrame
<1>8. CASE FreeRemote(t)
  <2>1. blk[t] \in Block
    BY <1>8 DEF FreeRemote, Goto
  <2>2. n_allocated_blocks' \in [Page -> Int] /\ n_allocated_objects' \in [Dir -> Int] /\ pageLive' \in SUBSET Page
    BY <1>8 DEF FreeRemote, Goto
  <2>3. pending_chain' \in [Dir -> SUBSET Block] /\ n_pending_requests' \in [Dir -> Nat]
    BY <1>8, <2>1 DEF FreeRemote, Goto
  <2> QED
    BY <1>8, <2>2, <2>3 DEF FreeRemote
<1>9. CASE CleanupStart(t)
  BY <1>9, LessBlocksType DEF CleanupStart, Goto, DropPending, CleanupFrame
<1>10. CASE CleanupSweep(t)
  BY <1>10 DEF CleanupSweep, Goto, CleanupFrame
<1>11. CASE CleanupCheck(t)
  BY <1>11, LessBlocksType DEF CleanupCheck, Goto, CleanupDone, DropPending, CleanupFrame
<1>12. CASE ReadCount(t)
  BY <1>12 DEF ReadCount, Goto
<1>13. CASE WriteCount(t)
  BY <1>13 DEF WriteCount, Goto
<1>14. CASE ScanStart(t)
  BY <1>14 DEF ScanStart, Goto
<1>15. CASE ScanVisit(t)
  BY <1>15 DEF ScanVisit, Goto, ThreadEnded
<1>16. CASE ScanEnd(t)
  BY <1>16 DEF ScanEnd, Goto
<1>17. CASE Free(t)
  BY <1>17, BeginFreeTypes DEF Free, Held, Take, FreeFrame
<1>18. CASE AllocBig(t)
  BY <1>18 DEF AllocBig, Goto, HeldBig, Give
<1>19. CASE FreeBig(t)
  BY <1>19 DEF FreeBig, Goto, HeldBig, Take
<1>20. CASE ReallocBig(t)
  <2> PICK b \in HeldBig, g \in Big : g \in {b} \cup (Big \ HeldBig) /\ held' = [held EXCEPT ![b] = @ - 1, ![g] = @ + 1]
    BY <1>20 DEF ReallocBig, HeldBig
  <2>1. held' \in [Block \cup Big -> Nat]
    BY MovedType DEF HeldBig
  <2> QED
    BY <1>20, <2>1 DEF ReallocBig
<1>21. CASE ReallocToBig(t)
  <2> PICK b \in Held, g \in Big : held' = [held EXCEPT ![b] = @ - 1, ![g] = @ + 1]
    BY <1>21 DEF ReallocToBig
  <2>1. held' \in [Block \cup Big -> Nat]
    BY MovedType DEF Held
  <2> QED
    BY <1>21, <2>1 DEF ReallocToBig, Goto
<1>22. CASE Exit(t)
  BY <1>22 DEF Exit, Goto, SlotAfterExit
<1>23. CASE Spawn(t)
  BY <1>23 DEF Spawn, Goto
<1>24. ASSUME NEW c \in Chain, Alloc(t, c) PROVE MemoryTypes'
  <2>1. CASE UNCHANGED <<dirVars, ctx>>
    BY <1>24, <2>1 DEF Alloc, Held, Take
  <2>2. CASE ~UNCHANGED <<dirVars, ctx>>
    <3> PICK d \in Dir \ dirs :
           /\ chain' = [chain EXCEPT ![d] = [i \in Chain |-> {}]]
           /\ pending_chain' = [pending_chain EXCEPT ![d] = {}]
           /\ n_pending_requests' = [n_pending_requests EXCEPT ![d] = 0]
           /\ n_allocated_objects' = [n_allocated_objects EXCEPT ![d] = 0]
           /\ pages' = [pages EXCEPT ![d] = {}]
      BY <1>24, <2>2 DEF Alloc, BeginAlloc
    <3>1. chain' \in [Dir -> [Chain -> SUBSET Block]]
      OBVIOUS
    <3> QED
      BY <1>24, <3>1 DEF Alloc, Held, Take
  <2> QED
    BY <2>1, <2>2
<1>25. ASSUME NEW c \in Chain, Realloc(t, c) PROVE MemoryTypes'
  <2>1. CASE UNCHANGED <<dirVars, ctx>>
    BY <1>25, <2>1 DEF Realloc, Held, Take
  <2>2. CASE ~UNCHANGED <<dirVars, ctx>>
    <3> PICK d \in Dir \ dirs :
           /\ chain' = [chain EXCEPT ![d] = [i \in Chain |-> {}]]
           /\ pending_chain' = [pending_chain EXCEPT ![d] = {}]
           /\ n_pending_requests' = [n_pending_requests EXCEPT ![d] = 0]
           /\ n_allocated_objects' = [n_allocated_objects EXCEPT ![d] = 0]
           /\ pages' = [pages EXCEPT ![d] = {}]
      BY <1>25, <2>2 DEF Realloc, BeginAlloc
    <3>1. chain' \in [Dir -> [Chain -> SUBSET Block]]
      OBVIOUS
    <3> QED
      BY <1>25, <3>1 DEF Realloc, Held, Take
  <2> QED
    BY <2>1, <2>2
<1> QED
  BY <1>1, <1>2, <1>3, <1>4, <1>5, <1>6, <1>7, <1>8, <1>9, <1>10, <1>11, <1>12, <1>13, <1>14, <1>15, <1>16, <1>17, <1>18, <1>19, <1>20, <1>21, <1>22, <1>23, <1>24, <1>25 DEF Step, Call

\* Every action leaves a thread with the locals its place in the code needs.
LEMMA LocalsStep == ASSUME OwnerInv, MemoryTypes, Locals, Living, [Next]_vars PROVE Locals'
<1> USE ThreadAllocAssumption, PageOfType DEF OwnerInv, Types, Stages, Locals, InAlloc, Cleaning, PC,
       pageVars, dirVars, threadVars, winVars, countVars, listVars
<1> SUFFICES ASSUME Next PROVE Locals'
  BY DEF vars
<1> PICK t \in Thread : Step(t) \/ Call(t)
  BY DEF Next
<1>1. CASE Register(t)
  BY <1>1 DEF Register, Goto
<1>2. CASE TakePending(t)
  BY <1>2 DEF TakePending, Goto
<1>3. CASE Drain(t)
  BY <1>3 DEF Drain, Goto, MemoryTypes
<1>4. CASE TakeFromChain(t)
  BY <1>4 DEF TakeFromChain, Goto, HandOut, Give
<1>5. CASE ChainEmpty(t)
  BY <1>5 DEF ChainEmpty, Goto
<1>6. CASE Carve(t)
  BY <1>6 DEF Carve, Goto, Give, Living
<1>7. CASE FreeOld(t)
  BY <1>7 DEF FreeOld, Goto, BeginFree, FreeFrame
<1>8. CASE FreeRemote(t)
  BY <1>8 DEF FreeRemote, Goto
<1>9. CASE CleanupStart(t)
  BY <1>9 DEF CleanupStart, Goto, DropPending, CleanupFrame
<1>10. CASE CleanupSweep(t)
  BY <1>10 DEF CleanupSweep, Goto, CleanupFrame
<1>11. CASE CleanupCheck(t)
  BY <1>11 DEF CleanupCheck, Goto, CleanupDone, DropPending, CleanupFrame
<1>12. CASE ReadCount(t)
  BY <1>12 DEF ReadCount, Goto
<1>13. CASE WriteCount(t)
  BY <1>13 DEF WriteCount, Goto
<1>14. CASE ScanStart(t)
  BY <1>14 DEF ScanStart, Goto
<1>15. CASE ScanVisit(t)
  BY <1>15 DEF ScanVisit, Goto, ThreadEnded
<1>16. CASE ScanEnd(t)
  BY <1>16 DEF ScanEnd, Goto
<1>17. CASE Free(t)
  BY <1>17 DEF Free, Goto, Held, Take, BeginFree, FreeFrame
<1>18. CASE AllocBig(t)
  BY <1>18 DEF AllocBig, Goto, HeldBig, Give
<1>19. CASE FreeBig(t)
  BY <1>19 DEF FreeBig, Goto, HeldBig, Take
<1>20. CASE ReallocBig(t)
  BY <1>20 DEF ReallocBig, Goto, HeldBig
<1>21. CASE ReallocToBig(t)
  BY <1>21 DEF ReallocToBig, Goto, Held, HeldBig
<1>22. CASE Exit(t)
  BY <1>22 DEF Exit, Goto, SlotAfterExit
<1>23. CASE Spawn(t)
  BY <1>23 DEF Spawn, Goto
<1>24. ASSUME NEW c \in Chain, Alloc(t, c) PROVE Locals'
  BY <1>24 DEF Alloc, BeginAlloc
<1>25. ASSUME NEW c \in Chain, Realloc(t, c) PROVE Locals'
  BY <1>25 DEF Realloc, BeginAlloc, Held, Take
<1> QED
  BY <1>1, <1>2, <1>3, <1>4, <1>5, <1>6, <1>7, <1>8, <1>9, <1>10, <1>11, <1>12, <1>13, <1>14, <1>15, <1>16, <1>17, <1>18, <1>19, <1>20, <1>21, <1>22, <1>23, <1>24, <1>25 DEF Step, Call

\* Inside thread_alloc() a thread is alone with its directory.
LEMMA InAllocFacts ==
  ASSUME OwnerInv, NEW t \in Thread, InAlloc(t)
  PROVE  /\ ctx[t] \in Dir /\ ctx[t] \in dirs /\ ctx[t] # NULL /\ want[t] \in Chain
         /\ ~terminated[ctx[t]] /\ \A u \in Thread : ctx[u] = ctx[t] => u = t
<1>1. ctx[t] # NULL /\ want[t] # NULL
  BY DEF OwnerInv, Stages
<1>2. ctx[t] \in Dir /\ want[t] \in Chain
  BY <1>1 DEF OwnerInv, Types
<1> QED
  BY <1>1, <1>2 DEF OwnerInv, Ownership

\* A block taken off a chain goes to the application and nowhere else.
LEMMA TakeFromChainPlaces ==
  ASSUME OwnerInv, MemoryTypes, Places, NEW t \in Thread, TakeFromChain(t)
  PROVE  Places'
<1>1. ctx[t] \in Dir /\ want[t] \in Chain /\ ctx[t] # NULL /\ \A u \in Thread : ctx[u] = ctx[t] => u = t
  BY InAllocFacts DEF TakeFromChain, InAlloc
<1>2. PICK b \in chain[ctx[t]][want[t]] :
         /\ chain' = [chain EXCEPT ![ctx[t]][want[t]] = @ \ {b}]
         /\ held' = [held EXCEPT ![b] = @ + 1]
         /\ UNCHANGED <<blk, dirs, pending_chain, taken, ctx, pageLive, pageDir, pageChain>>
  BY DEF TakeFromChain, HandOut, Give
<1>3. b \in Block
  BY <1>1, ChainType
<1>4. /\ PageOf(b) \in pageLive /\ pageDir[PageOf(b)] = ctx[t] /\ pageChain[PageOf(b)] = want[t]
      /\ Unheld(b) /\ b \notin pending_chain[ctx[t]] /\ b \notin taken[t]
  BY <1>1 DEF Places, ChainsApart
<1>5. held'[b] = 1 /\ \A x \in Block \cup Big : x # b => held'[x] = held[x]
  BY <1>2, <1>3, <1>4 DEF MemoryTypes, Unheld
<1>6. \A e \in Dir, i \in Chain :
         chain'[e][i] = IF e = ctx[t] /\ i = want[t] THEN chain[ctx[t]][want[t]] \ {b} ELSE chain[e][i]
  BY <1>1, <1>2 DEF MemoryTypes
<1>7. \A x \in Block : x # b => (Unheld(x) => Unheld(x)')
  BY <1>2, <1>5 DEF Unheld
<1>8. HeldOnce'
  BY <1>5 DEF Places, HeldOnce
<1>9. CallsApart'
  BY <1>2, <1>4, <1>5 DEF Places, CallsApart, Unheld, OwnerInv, Types
<1>10. PendingApart'
  <2> SUFFICES ASSUME NEW d \in dirs, NEW x \in pending_chain[d]
               PROVE  Unheld(x)' /\ pageDir[PageOf(x)] = d
    BY <1>2 DEF PendingApart
  <2>1. Unheld(x) /\ pageDir[PageOf(x)] = d /\ x \in Block
    BY DEF Places, PendingApart, MemoryTypes, OwnerInv, Types
  <2> QED
    BY <2>1, <1>4, <1>7
<1>11. TakenApart'
  <2> SUFFICES ASSUME NEW u \in Thread, NEW x \in taken[u]
               PROVE  Unheld(x)' /\ pageDir[PageOf(x)] = ctx[u] /\ x \notin pending_chain[ctx[u]]
    BY <1>2 DEF TakenApart
  <2>1. Unheld(x) /\ pageDir[PageOf(x)] = ctx[u] /\ x \notin pending_chain[ctx[u]] /\ x \in Block
    BY DEF Places, TakenApart, MemoryTypes
  <2> QED
    BY <2>1, <1>1, <1>4, <1>7
<1>12. ChainsApart'
  <2> SUFFICES ASSUME NEW u \in Thread, ctx[u] # NULL, NEW c \in Chain, NEW x \in chain'[ctx[u]][c]
               PROVE  /\ PageOf(x) \in pageLive /\ pageDir[PageOf(x)] = ctx[u] /\ pageChain[PageOf(x)] = c
                      /\ Unheld(x)' /\ x \notin pending_chain[ctx[u]] /\ x \notin taken[u]
    BY <1>2 DEF ChainsApart
  <2>1. ctx[u] \in Dir
    BY DEF OwnerInv, Types
  <2>2. x \in chain[ctx[u]][c] /\ ~(x = b /\ ctx[u] = ctx[t] /\ c = want[t])
    BY <1>6, <2>1
  <2>3. x \in Block
    BY <2>1, <2>2, ChainType
  <2>4. /\ PageOf(x) \in pageLive /\ pageDir[PageOf(x)] = ctx[u] /\ pageChain[PageOf(x)] = c
        /\ Unheld(x) /\ x \notin pending_chain[ctx[u]] /\ x \notin taken[u]
    BY <2>2 DEF Places, ChainsApart
  <2> QED
    BY <1>4, <1>7, <2>2, <2>3, <2>4
<1> QED
  BY <1>8, <1>9, <1>10, <1>11, <1>12 DEF Places

\* A page nobody had yields one block for the application; the rest become the chain.
LEMMA CarvePlaces ==
  ASSUME OwnerInv, MemoryTypes, Places, Living, NEW t \in Thread, Carve(t)
  PROVE  Places'
<1>1. ctx[t] \in Dir /\ want[t] \in Chain /\ ctx[t] # NULL /\ \A u \in Thread : ctx[u] = ctx[t] => u = t
  BY InAllocFacts DEF Carve, InAlloc
<1>2. PICK p \in Page \ pageLive, s \in Slots :
         /\ pageLive' = pageLive \cup {p}
         /\ pageDir' = [pageDir EXCEPT ![p] = ctx[t]]
         /\ pageChain' = [pageChain EXCEPT ![p] = want[t]]
         /\ chain' = [chain EXCEPT ![ctx[t]][want[t]] = {p} \X (Slots \ {s})]
         /\ held' = [held EXCEPT ![<<p, s>>] = @ + 1]
         /\ UNCHANGED <<blk, dirs, pending_chain, taken, ctx>>
  BY DEF Carve, Give
<1> DEFINE b == <<p, s>>
<1>3. \A x \in {p} \X Slots : x \in Block /\ PageOf(x) = p
  BY DEF Block, PageOf
<1>4. b \in {p} \X Slots /\ b \in Block
  BY <1>3
<1>5. \A x \in {p} \X Slots :
         /\ Unheld(x)
         /\ \A d \in dirs : x \notin pending_chain[d]
         /\ \A u \in Thread : x \notin taken[u]
  BY <1>2, <1>3, ThreadAllocAssumption DEF Living, Unheld, MemoryTypes
<1> HIDE DEF b
<1>6. held'[b] = 1 /\ \A x \in Block \cup Big : x # b => held'[x] = held[x]
  BY <1>2, <1>4, <1>5 DEF MemoryTypes, Unheld, b
<1>7. \A e \in Dir, i \in Chain :
         chain'[e][i] = IF e = ctx[t] /\ i = want[t] THEN {p} \X (Slots \ {s}) ELSE chain[e][i]
  BY <1>1, <1>2 DEF MemoryTypes
<1>8. \A x \in Block : x # b => (Unheld(x) => Unheld(x)')
  BY <1>2, <1>6 DEF Unheld
<1>9. \A x \in Block : PageOf(x) \in pageLive =>
         PageOf(x) # p /\ pageDir'[PageOf(x)] = pageDir[PageOf(x)] /\ pageChain'[PageOf(x)] = pageChain[PageOf(x)]
  BY <1>2, PageOfType DEF OwnerInv, Types, MemoryTypes
<1>10. HeldOnce'
  BY <1>6 DEF Places, HeldOnce
<1>11. CallsApart'
  BY <1>2, <1>4, <1>5, <1>6 DEF Places, CallsApart, Unheld, OwnerInv, Types
<1>12. PendingApart'
  <2> SUFFICES ASSUME NEW d \in dirs, NEW x \in pending_chain[d]
               PROVE  Unheld(x)' /\ pageDir'[PageOf(x)] = d
    BY <1>2 DEF PendingApart
  <2>1. Unheld(x) /\ pageDir[PageOf(x)] = d /\ x \in Block /\ PageOf(x) \in pageLive
    BY DEF Places, PendingApart, MemoryTypes, OwnerInv, Types, Living
  <2> QED
    BY <2>1, <1>4, <1>5, <1>8, <1>9
<1>13. TakenApart'
  <2> SUFFICES ASSUME NEW u \in Thread, NEW x \in taken[u]
               PROVE  Unheld(x)' /\ pageDir'[PageOf(x)] = ctx[u] /\ x \notin pending_chain[ctx[u]]
    BY <1>2 DEF TakenApart
  <2>1. Unheld(x) /\ pageDir[PageOf(x)] = ctx[u] /\ x \notin pending_chain[ctx[u]] /\ x \in Block
        /\ PageOf(x) \in pageLive
    BY DEF Places, TakenApart, MemoryTypes, Living
  <2> QED
    BY <2>1, <1>4, <1>5, <1>8, <1>9
<1>14. ChainsApart'
  <2> SUFFICES ASSUME NEW u \in Thread, ctx[u] # NULL, NEW c \in Chain, NEW x \in chain'[ctx[u]][c]
               PROVE  /\ PageOf(x) \in pageLive' /\ pageDir'[PageOf(x)] = ctx[u] /\ pageChain'[PageOf(x)] = c
                      /\ Unheld(x)' /\ x \notin pending_chain[ctx[u]] /\ x \notin taken[u]
    BY <1>2 DEF ChainsApart
  <2>1. ctx[u] \in Dir /\ ctx[u] \in dirs
    BY DEF OwnerInv, Types, Ownership
  <2>2. CASE ctx[u] = ctx[t] /\ c = want[t]
    <3>1. x \in {p} \X Slots /\ x # b
      BY <1>7, <2>1, <2>2 DEF b
    <3>2. PageOf(x) = p /\ x \in Block /\ Unheld(x)
      BY <1>3, <1>5, <3>1
    <3> QED
      BY <1>1, <1>2, <1>5, <1>8, <2>1, <2>2, <3>1, <3>2 DEF OwnerInv, Types, MemoryTypes
  <2>3. CASE ~(ctx[u] = ctx[t] /\ c = want[t])
    <3>1. x \in chain[ctx[u]][c]
      BY <1>7, <2>1, <2>3
    <3>2. x \in Block
      BY <2>1, <3>1, ChainType
    <3>3. /\ PageOf(x) \in pageLive /\ pageDir[PageOf(x)] = ctx[u] /\ pageChain[PageOf(x)] = c
          /\ Unheld(x) /\ x \notin pending_chain[ctx[u]] /\ x \notin taken[u]
      BY <3>1 DEF Places, ChainsApart
    <3>4. x # b
      BY <1>3, <1>4, <1>9, <3>2, <3>3
    <3> QED
      BY <1>2, <1>8, <1>9, <3>2, <3>3, <3>4
  <2> QED
    BY <2>2, <2>3
<1> QED
  BY <1>10, <1>11, <1>12, <1>13, <1>14 DEF Places

\* The block that thread_free() is called with, by the application or at the end of
\* thread_realloc().
LEMMA FreedBlock ==
  ASSUME OwnerInv, MemoryTypes, Places, NEW t \in Thread, Free(t) \/ FreeOld(t)
  PROVE  \E b \in Block :
            /\ BeginFree(t, b)
            /\ held' = [held EXCEPT ![b] = 0]
            /\ held[b] = 1 \/ blk[t] = b
            /\ UNCHANGED <<dirs, pending_chain, taken, ctx, pageLive, pageDir, pageChain>>
<1>1. CASE Free(t)
  <2> PICK b \in Held : Take(b) /\ BeginFree(t, b)
    BY <1>1 DEF Free
  <2>1. b \in Block /\ held[b] = 1
    BY DEF Held, Places, HeldOnce
  <2>2. held' = [held EXCEPT ![b] = 0]
    BY <2>1 DEF Take
  <2> QED
    BY <1>1, <2>1, <2>2 DEF Free, FreeFrame
<1>2. CASE FreeOld(t)
  <2>1. blk[t] \in Block /\ held[blk[t]] = 0
    BY <1>2 DEF FreeOld, OwnerInv, Types, Stages, Places, CallsApart
  <2>2. held = [held EXCEPT ![blk[t]] = 0]
    BY <2>1 DEF MemoryTypes
  <2> QED
    BY <1>2, <2>1, <2>2 DEF FreeOld, FreeFrame
<1> QED
  BY <1>1, <1>2

\* A block that is freed leaves the hands of a thread first.
LEMMA BeginFreePlaces ==
  ASSUME OwnerInv, MemoryTypes, Places, Living, Listed,
         NEW t \in Thread, Free(t) \/ FreeOld(t)
  PROVE  ChainsApart'
<1>1. PICK b \in Block :
         /\ BeginFree(t, b)
         /\ held' = [held EXCEPT ![b] = 0]
         /\ held[b] = 1 \/ blk[t] = b
         /\ UNCHANGED <<dirs, pending_chain, taken, ctx, pageLive, pageDir, pageChain>>
  BY FreedBlock
<1>2. PageOf(b) \in pageLive /\ pageDir[PageOf(b)] \in dirs
  BY <1>1, PageOfType DEF Living, Listed
<1>3. \A x \in Block : x # b => (Unheld(x) => Unheld(x)')
  <2>1. blk' = [blk EXCEPT ![t] = NULL] \/ blk' = [blk EXCEPT ![t] = b]
    BY <1>1 DEF BeginFree
  <2>2. \A x \in Block : x # b => held'[x] = held[x]
    BY <1>1 DEF MemoryTypes
  <2> QED
    BY <2>1, <2>2, PageOfType DEF Unheld, OwnerInv, Types
<1>4. \A u \in Thread : u # t => blk[u] # b
  BY <1>1, PageOfType DEF Places, CallsApart
<1>5. ~Unheld(b)
  BY <1>1 DEF Unheld
<1>6. \A d \in dirs : b \notin pending_chain[d]
  BY <1>5 DEF Places, PendingApart
<1>7. \A u \in Thread : b \notin taken[u]
  BY <1>5 DEF Places, TakenApart
<1> SUFFICES ASSUME NEW u \in Thread, ctx[u] # NULL, NEW c \in Chain, NEW x \in chain'[ctx[u]][c]
             PROVE  /\ PageOf(x) \in pageLive /\ pageDir[PageOf(x)] = ctx[u] /\ pageChain[PageOf(x)] = c
                    /\ Unheld(x)' /\ x \notin pending_chain[ctx[u]] /\ x \notin taken[u]
  BY <1>1 DEF ChainsApart
<1>8. ctx[u] \in Dir /\ ctx[u] \in dirs
  BY DEF OwnerInv, Types, Ownership
<1>9. CASE x \in chain[ctx[u]][c]
  <2>1. x \in Block
    BY <1>8, <1>9, ChainType
  <2>2. /\ PageOf(x) \in pageLive /\ pageDir[PageOf(x)] = ctx[u] /\ pageChain[PageOf(x)] = c
        /\ Unheld(x) /\ x \notin pending_chain[ctx[u]] /\ x \notin taken[u]
    BY <1>9 DEF Places, ChainsApart
  <2> QED
    BY <1>3, <1>5, <2>1, <2>2
<1>10. CASE x \notin chain[ctx[u]][c]
  <2>1. /\ pageDir[PageOf(b)] = ctx[t]
        /\ chain' = [chain EXCEPT ![ctx[t]][pageChain[PageOf(b)]] = @ \cup {b}]
        /\ blk' = [blk EXCEPT ![t] = NULL]
    BY <1>1, <1>10 DEF BeginFree
  <2>2. \A e \in Dir, i \in Chain : chain'[e][i] = IF e = ctx[t] /\ i = pageChain[PageOf(b)]
                                                   THEN chain[e][i] \cup {b} ELSE chain[e][i]
    BY <1>2, <2>1 DEF OwnerInv, Types, MemoryTypes
  <2>3. x = b /\ ctx[u] = ctx[t] /\ c = pageChain[PageOf(b)]
    <3>1. ctx[u] \in Dir /\ c \in Chain /\ x \in chain'[ctx[u]][c] /\ x \notin chain[ctx[u]][c]
      BY <1>8, <1>10
    <3>2. CASE ctx[u] = ctx[t] /\ c = pageChain[PageOf(b)]
      <4>1. chain'[ctx[u]][c] = chain[ctx[u]][c] \cup {b}
        BY <2>2, <3>1, <3>2
      <4> QED
        BY <3>1, <3>2, <4>1
    <3>3. CASE ~(ctx[u] = ctx[t] /\ c = pageChain[PageOf(b)])
      <4>1. chain'[ctx[u]][c] = chain[ctx[u]][c]
        BY <2>2, <3>1, <3>3
      <4> QED
        BY <3>1, <4>1
    <3> QED
      BY <3>2, <3>3
  <2>4. Unheld(b)'
    BY <1>1, <1>4, <2>1, PageOfType DEF Unheld, MemoryTypes, OwnerInv, Types
  <2> QED
    BY <1>2, <1>6, <1>7, <1>8, <2>1, <2>3, <2>4
<1> QED
  BY <1>9, <1>10

\* A block freed for another thread goes to the pending chain, or away.
LEMMA FreeRemotePlaces ==
  ASSUME OwnerInv, MemoryTypes, Locals, Places, Living, Listed, NEW t \in Thread, FreeRemote(t)
  PROVE  ChainsApart'
<1> DEFINE b == blk[t]
           d == target[t]
<1>1. /\ b \in Block /\ d = pageDir[PageOf(b)] /\ PageOf(b) \in pageLive /\ d \in dirs
  BY DEF FreeRemote, Goto, OwnerInv, Types, Stages, Locals, Living, Listed
<1>2. /\ UNCHANGED <<chain, held, ctx, taken, pageDir, pageChain>>
      /\ blk' = [blk EXCEPT ![t] = NULL]
      /\ pending_chain' = pending_chain \/ pending_chain' = [pending_chain EXCEPT ![d] = @ \cup {b}]
      /\ pageLive' = pageLive \/ (terminated[d] /\ pageLive' = pageLive \ {PageOf(b)})
  BY DEF FreeRemote
<1>3. \A x \in Block : Unheld(x) => Unheld(x)' /\ x # b
  BY <1>2, PageOfType DEF Unheld, OwnerInv, Types
<1> SUFFICES ASSUME NEW u \in Thread, ctx[u] # NULL, NEW c \in Chain, NEW x \in chain[ctx[u]][c]
             PROVE  /\ PageOf(x) \in pageLive' /\ pageDir[PageOf(x)] = ctx[u] /\ pageChain[PageOf(x)] = c
                    /\ Unheld(x)' /\ x \notin pending_chain'[ctx[u]] /\ x \notin taken[u]
  BY <1>2 DEF ChainsApart
<1>4. ctx[u] \in Dir /\ ~terminated[ctx[u]]
  BY DEF OwnerInv, Types, Ownership
<1>5. x \in Block
  BY <1>4, ChainType
<1>6. /\ PageOf(x) \in pageLive /\ pageDir[PageOf(x)] = ctx[u] /\ pageChain[PageOf(x)] = c
      /\ Unheld(x) /\ x \notin pending_chain[ctx[u]] /\ x \notin taken[u]
  BY DEF Places, ChainsApart
<1>7. x \notin pending_chain'[ctx[u]]
  BY <1>2, <1>3, <1>4, <1>5, <1>6 DEF MemoryTypes
<1>8. PageOf(x) \in pageLive'
  BY <1>1, <1>2, <1>4, <1>6
<1> QED
  BY <1>3, <1>5, <1>6, <1>7, <1>8

\* A stranger's free puts its block, which nobody has then, on the pending chain.
LEMMA FreeRemotePending ==
  ASSUME OwnerInv, MemoryTypes, Locals, Places, Living, Listed, NEW t \in Thread, FreeRemote(t)
  PROVE  PendingApart' /\ TakenApart'
<1>0. PICK b, d : b = blk[t] /\ d = target[t]
  OBVIOUS
<1>1. /\ b \in Block /\ b # NULL /\ d = pageDir[PageOf(b)] /\ d \in dirs
  BY <1>0, ThreadAllocAssumption DEF FreeRemote, Goto, OwnerInv, Types, Stages, Locals, Living, Listed
<1>2. /\ UNCHANGED <<held, ctx, taken, pageDir>> /\ dirs' \subseteq dirs
      /\ blk' = [blk EXCEPT ![t] = NULL]
      /\ pending_chain' = pending_chain \/ pending_chain' = [pending_chain EXCEPT ![d] = @ \cup {b}]
  BY <1>0 DEF FreeRemote
<1>b. \A u \in Thread : blk'[u] = IF u = t THEN NULL ELSE blk[u]
  BY <1>2 DEF OwnerInv, Types
<1>3. \A x \in Block : Unheld(x) => Unheld(x)' /\ x # b
  <2> SUFFICES ASSUME NEW x \in Block, Unheld(x)
               PROVE  Unheld(x)' /\ x # b
    OBVIOUS
  <2>1. held[x] = 0 /\ (\A u \in Thread : blk[u] # x) /\ x # NULL
    BY ThreadAllocAssumption DEF Unheld
  <2> QED
    BY <1>0, <1>2, <1>b, <2>1 DEF Unheld
<1>4. \A e \in Dir : /\ pending_chain'[e] \subseteq pending_chain[e] \cup {b}
                     /\ e # d => pending_chain'[e] = pending_chain[e]
  BY <1>2 DEF MemoryTypes
<1>d. dirs \subseteq Dir /\ \A u \in Thread : ctx[u] \in Dir \cup {NULL}
  BY DEF OwnerInv, Types
<1>5. Unheld(b)'
  <2>1. held[b] = 0 /\ \A u \in Thread : blk[u] = b => u = t
    BY <1>0, <1>1 DEF Places, CallsApart
  <2> QED
    BY <1>1, <1>2, <1>b, <2>1 DEF Unheld
<1>6. PendingApart'
  <2> SUFFICES ASSUME NEW e \in dirs', NEW x \in pending_chain'[e]
               PROVE  Unheld(x)' /\ pageDir[PageOf(x)] = e
    BY <1>2 DEF PendingApart
  <2>1. e \in dirs /\ e \in Dir /\ (x \in pending_chain[e] \/ (x = b /\ e = d))
    BY <1>2, <1>4, <1>d
  <2>2. ASSUME x \in pending_chain[e]
        PROVE  x \in Block /\ Unheld(x) /\ pageDir[PageOf(x)] = e
    <3>1. x \in Block
      BY <2>1, <2>2 DEF MemoryTypes
    <3> QED
      BY <3>1, <2>1, <2>2 DEF Places, PendingApart
  <2> QED
    BY <1>1, <1>3, <1>5, <2>1, <2>2
<1>7. TakenApart'
  <2> SUFFICES ASSUME NEW u \in Thread, NEW x \in taken[u]
               PROVE  Unheld(x)' /\ pageDir[PageOf(x)] = ctx[u] /\ x \notin pending_chain'[ctx[u]]
    BY <1>2 DEF TakenApart
  <2>1. /\ x \in Block /\ Unheld(x) /\ pageDir[PageOf(x)] = ctx[u]
        /\ x \notin pending_chain[ctx[u]]
    BY DEF MemoryTypes, Places, TakenApart
  <2>2. Unheld(x)' /\ x # b
    BY <1>3, <2>1
  <2>3. ctx[u] \in Dir
    <3>1. pc[u] = "drain"
      BY DEF Locals
    <3> QED
      BY <1>d, <3>1 DEF OwnerInv, Stages, InAlloc
  <2> QED
    BY <1>4, <2>1, <2>2, <2>3
<1> QED
  BY <1>6, <1>7

\* The realloc() of the C library leaves every large block with one user or none.
LEMMA ReallocBigOnce ==
  ASSUME MemoryTypes, HeldOnce, NEW t \in Thread, ReallocBig(t)
  PROVE  HeldOnce'
<1> PICK b \in HeldBig, g \in Big :
       /\ g = b \/ g \notin HeldBig
       /\ held' = [held EXCEPT ![b] = @ - 1, ![g] = @ + 1]
  BY DEF ReallocBig, HeldBig
<1>1. b \in Big /\ held[b] = 1 /\ (g # b => held[g] = 0)
  BY DEF HeldOnce, HeldBig
<1>2. CASE g = b
  BY <1>1, <1>2 DEF HeldOnce, MemoryTypes
<1>3. CASE g # b
  BY <1>1, <1>3 DEF HeldOnce, MemoryTypes
<1> QED
  BY <1>2, <1>3

\* A new directory has nothing pending and nothing on its chains.
LEMMA BeginAllocPlaces ==
  ASSUME OwnerInv, MemoryTypes, Locals, Places, Living,
         NEW t \in Thread, NEW c \in Chain, Alloc(t, c) \/ Realloc(t, c)
  PROVE  Places'
<1>1. /\ BeginAlloc(t, c)
      /\ UNCHANGED <<taken, pageLive, pageDir, pageChain>>
      /\ \/ UNCHANGED <<held, blk>>
         \/ \E b \in Block : /\ held[b] > 0 /\ held' = [held EXCEPT ![b] = @ - 1]
                             /\ blk' = [blk EXCEPT ![t] = b]
      /\ pc[t] = "run"
  BY DEF Alloc, Realloc, Held, Take, pageVars
<1>2. \A x \in Block : Unheld(x) => Unheld(x)'
  BY <1>1 DEF Unheld, MemoryTypes, OwnerInv, Types
<1>3. HeldOnce' /\ CallsApart'
  <2>1. CASE UNCHANGED <<held, blk>>
    BY <2>1 DEF Places, HeldOnce, CallsApart
  <2>2. CASE ~UNCHANGED <<held, blk>>
    <3> PICK b \in Block : /\ held[b] > 0 /\ held' = [held EXCEPT ![b] = @ - 1]
                           /\ blk' = [blk EXCEPT ![t] = b]
      BY <1>1, <2>2
    <3>1. held[b] = 1 /\ held'[b] = 0 /\ \A u \in Thread : blk[u] # b
      BY PageOfType DEF Places, HeldOnce, CallsApart, MemoryTypes
    <3>2. \A x \in Block \cup Big : x # b => held'[x] = held[x]
      BY DEF MemoryTypes
    <3> QED
      BY <3>1, <3>2 DEF Places, HeldOnce, CallsApart, OwnerInv, Types
  <2> QED
    BY <2>1, <2>2
<1>4. CASE UNCHANGED <<dirVars, ctx>>
  <2>1. PendingApart'
    BY <1>1, <1>2, <1>4 DEF Places, PendingApart, dirVars, OwnerInv, Types, MemoryTypes
  <2>2. TakenApart'
    BY <1>1, <1>2, <1>4 DEF Places, TakenApart, dirVars, MemoryTypes
  <2>3. ChainsApart'
    <3> SUFFICES ASSUME NEW u \in Thread, ctx[u] # NULL, NEW i \in Chain, NEW x \in chain[ctx[u]][i]
                 PROVE  Unheld(x)' /\ x \in Block
      BY <1>1, <1>4 DEF Places, ChainsApart, dirVars
    <3>1. ctx[u] \in Dir
      BY DEF OwnerInv, Types
    <3> QED
      BY <1>2, <3>1, ChainType DEF Places, ChainsApart
  <2> QED
    BY <1>3, <2>1, <2>2, <2>3 DEF Places
<1>5. CASE ~UNCHANGED <<dirVars, ctx>>
  <2> PICK d \in Dir \ dirs :
         /\ dirs' = dirs \cup {d} /\ ctx' = [ctx EXCEPT ![t] = d]
         /\ chain' = [chain EXCEPT ![d] = [i \in Chain |-> {}]]
         /\ pending_chain' = [pending_chain EXCEPT ![d] = {}]
    BY <1>1, <1>5 DEF BeginAlloc
  <2>1. /\ \A e \in Dir : e # d => pending_chain'[e] = pending_chain[e] /\ chain'[e] = chain[e]
        /\ pending_chain'[d] = {} /\ \A i \in Chain : chain'[d][i] = {}
        /\ \A u \in Thread : u # t => ctx'[u] = ctx[u]
        /\ ctx'[t] = d
    BY DEF MemoryTypes, OwnerInv, Types
  <2>2. PendingApart'
    BY <1>1, <1>2, <2>1 DEF Places, PendingApart, OwnerInv, Types, MemoryTypes
  <2>3. taken[t] = {}
    BY <1>1 DEF Locals
  <2>4. TakenApart'
    <3> SUFFICES ASSUME NEW u \in Thread, NEW x \in taken[u]
                 PROVE  Unheld(x)' /\ pageDir[PageOf(x)] = ctx'[u] /\ x \notin pending_chain'[ctx'[u]]
      BY <1>1 DEF TakenApart
    <3>1. u # t /\ x \in Block
      BY <2>3 DEF MemoryTypes
    <3>2. pc[u] = "drain"
      BY DEF Locals
    <3>3. ctx[u] \in Dir /\ ctx[u] \in dirs
      BY <3>2, InAllocFacts DEF InAlloc
    <3>4. Unheld(x) /\ pageDir[PageOf(x)] = ctx[u] /\ x \notin pending_chain[ctx[u]]
      BY DEF Places, TakenApart
    <3> QED
      BY <1>2, <2>1, <3>1, <3>3, <3>4
  <2>5. ChainsApart'
    <3> SUFFICES ASSUME NEW u \in Thread, u # t, ctx[u] # NULL, NEW i \in Chain, NEW x \in chain'[ctx[u]][i]
                 PROVE  /\ PageOf(x) \in pageLive /\ pageDir[PageOf(x)] = ctx[u] /\ pageChain[PageOf(x)] = i
                        /\ Unheld(x)' /\ x \notin pending_chain'[ctx[u]] /\ x \notin taken[u]
      BY <1>1, <2>1 DEF ChainsApart
    <3>1. ctx[u] \in Dir /\ ctx[u] \in dirs
      BY DEF OwnerInv, Types, Ownership
    <3>2. x \in chain[ctx[u]][i] /\ x \in Block
      BY <2>1, <3>1, ChainType
    <3>3. /\ PageOf(x) \in pageLive /\ pageDir[PageOf(x)] = ctx[u] /\ pageChain[PageOf(x)] = i
          /\ Unheld(x) /\ x \notin pending_chain[ctx[u]] /\ x \notin taken[u]
      BY <3>2 DEF Places, ChainsApart
    <3> QED
      BY <1>2, <2>1, <3>1, <3>2, <3>3
  <2> QED
    BY <1>3, <2>2, <2>4, <2>5 DEF Places
<1> QED
  BY <1>4, <1>5

\* Every action moves a block from one place to one other.
LEMMA PlacesStep == ASSUME OwnerInv, MemoryTypes, Locals, Places, Living, Listed, [Next]_vars PROVE Places'
<1> USE ThreadAllocAssumption, PageOfType DEF OwnerInv, Types, MemoryTypes, Stages, Ownership, Locals, Places, HeldOnce, CallsApart, PendingApart, TakenApart, ChainsApart, Unheld,
       InAlloc, Cleaning, PC, pageVars, dirVars, threadVars, winVars, countVars, listVars
<1> SUFFICES ASSUME Next PROVE Places'
  BY DEF vars
<1> PICK t \in Thread : Step(t) \/ Call(t)
  BY DEF Next
<1>1. CASE Register(t)
  BY <1>1 DEF Register, Goto
<1>2. CASE TakePending(t)
  BY <1>2 DEF TakePending, Goto
<1>3. CASE Drain(t)
  <2>1. HeldOnce'
    BY <1>3 DEF Drain, Goto, Living, OfChain
  <2>2. CallsApart'
    BY <1>3 DEF Drain, Goto, Living, OfChain
  <2>3. PendingApart'
    BY <1>3 DEF Drain, Goto, Living, OfChain
  <2>4. TakenApart'
    BY <1>3 DEF Drain, Goto, Living, OfChain
  <2>5. ChainsApart'
    BY <1>3 DEF Drain, Goto, Living, OfChain
  <2> QED
    BY <2>1, <2>2, <2>3, <2>4, <2>5
<1>4. CASE TakeFromChain(t)
  BY <1>4, TakeFromChainPlaces
<1>5. CASE ChainEmpty(t)
  BY <1>5 DEF ChainEmpty, Goto
<1>6. CASE Carve(t)
  BY <1>6, CarvePlaces
<1>7. CASE FreeOld(t)
  <2>1. HeldOnce'
    BY <1>7 DEF FreeOld, Goto, BeginFree, FreeFrame
  <2>2. CallsApart'
    BY <1>7 DEF FreeOld, Goto, BeginFree, FreeFrame
  <2>3. PendingApart'
    BY <1>7 DEF FreeOld, Goto, BeginFree, FreeFrame
  <2>4. TakenApart'
    BY <1>7 DEF FreeOld, Goto, BeginFree, FreeFrame
  <2>5. ChainsApart'
    BY <1>7, BeginFreePlaces
  <2> QED
    BY <2>1, <2>2, <2>3, <2>4, <2>5
<1>8. CASE FreeRemote(t)
  <2>1. HeldOnce'
    BY <1>8 DEF FreeRemote, Goto, Living, Listed
  <2>2. CallsApart'
    BY <1>8 DEF FreeRemote, Goto, Living, Listed
  <2>3. PendingApart' /\ TakenApart'
    BY <1>8, FreeRemotePending
  <2>4. ChainsApart'
    BY <1>8, FreeRemotePlaces
  <2> QED
    BY <2>1, <2>2, <2>3, <2>4
<1>9. CASE CleanupStart(t)
  BY <1>9 DEF CleanupStart, Goto, DropPending, CleanupFrame
<1>10. CASE CleanupSweep(t)
  BY <1>10 DEF CleanupSweep, Goto, CleanupFrame, Unused, Listed
<1>11. CASE CleanupCheck(t)
  BY <1>11 DEF CleanupCheck, Goto, CleanupDone, DropPending, CleanupFrame
<1>12. CASE ReadCount(t)
  BY <1>12 DEF ReadCount, Goto
<1>13. CASE WriteCount(t)
  BY <1>13 DEF WriteCount, Goto
<1>14. CASE ScanStart(t)
  BY <1>14 DEF ScanStart, Goto
<1>15. CASE ScanVisit(t)
  BY <1>15 DEF ScanVisit, Goto, ThreadEnded
<1>16. CASE ScanEnd(t)
  BY <1>16 DEF ScanEnd, Goto
<1>17. CASE Free(t)
  <2>1. HeldOnce'
    BY <1>17 DEF Free, Goto, Held, Take, BeginFree, FreeFrame
  <2>2. CallsApart'
    BY <1>17 DEF Free, Goto, Held, Take, BeginFree, FreeFrame
  <2>3. PendingApart'
    BY <1>17 DEF Free, Goto, Held, Take, BeginFree, FreeFrame
  <2>4. TakenApart'
    BY <1>17 DEF Free, Goto, Held, Take, BeginFree, FreeFrame
  <2>5. ChainsApart'
    BY <1>17, BeginFreePlaces
  <2> QED
    BY <2>1, <2>2, <2>3, <2>4, <2>5
<1>18. CASE AllocBig(t)
  BY <1>18 DEF AllocBig, Goto, HeldBig, Give
<1>19. CASE FreeBig(t)
  BY <1>19 DEF FreeBig, Goto, HeldBig, Take
<1>20. CASE ReallocBig(t)
  <2>1. HeldOnce'
    BY <1>20, ReallocBigOnce
  <2>2. CallsApart'
    BY <1>20 DEF ReallocBig, Goto, HeldBig
  <2>3. PendingApart'
    BY <1>20 DEF ReallocBig, Goto, HeldBig
  <2>4. TakenApart'
    BY <1>20 DEF ReallocBig, Goto, HeldBig
  <2>5. ChainsApart'
    BY <1>20 DEF ReallocBig, Goto, HeldBig
  <2> QED
    BY <2>1, <2>2, <2>3, <2>4, <2>5
<1>21. CASE ReallocToBig(t)
  <2>1. HeldOnce'
    BY <1>21 DEF ReallocToBig, Goto, Held, HeldBig
  <2>2. CallsApart'
    BY <1>21 DEF ReallocToBig, Goto, Held, HeldBig
  <2>3. PendingApart'
    BY <1>21 DEF ReallocToBig, Goto, Held, HeldBig
  <2>4. TakenApart'
    BY <1>21 DEF ReallocToBig, Goto, Held, HeldBig
  <2>5. ChainsApart'
    BY <1>21 DEF ReallocToBig, Goto, Held, HeldBig
  <2> QED
    BY <2>1, <2>2, <2>3, <2>4, <2>5
<1>22. CASE Exit(t)
  BY <1>22 DEF Exit, Goto, SlotAfterExit
<1>23. CASE Spawn(t)
  BY <1>23 DEF Spawn, Goto
<1>24. ASSUME NEW c \in Chain, Alloc(t, c) PROVE Places'
  BY <1>24, BeginAllocPlaces
<1>25. ASSUME NEW c \in Chain, Realloc(t, c) PROVE Places'
  BY <1>25, BeginAllocPlaces
<1> QED
  BY <1>1, <1>2, <1>3, <1>4, <1>5, <1>6, <1>7, <1>8, <1>9, <1>10, <1>11, <1>12, <1>13, <1>14, <1>15, <1>16, <1>17, <1>18, <1>19, <1>20, <1>21, <1>22, <1>23, <1>24, <1>25 DEF Step, Call

-----------------------------------------------------------------------------
(* The counters. *)

\* The four ways to be outstanding, before and after a step.
LEMMA OutMember ==
  /\ \A x : x \in OutstandingBlocks <=>
        \/ x \in Block /\ held[x] > 0
        \/ x # NULL /\ \E u \in Thread : blk[u] = x
        \/ \E d \in dirs : x \in pending_chain[d]
        \/ \E u \in Thread : x \in taken[u]
  /\ \A x : x \in OutstandingBlocks' <=>
        \/ x \in Block /\ held'[x] > 0
        \/ x # NULL /\ \E u \in Thread : blk'[u] = x
        \/ \E d \in dirs' : x \in pending_chain'[d]
        \/ \E u \in Thread : x \in taken'[u]
<1> DEFINE InCalls == {blk[u] : u \in Thread}
           Pending == UNION {pending_chain[d] : d \in dirs}
           Taken   == UNION {taken[u] : u \in Thread}
<1>1. OutstandingBlocks = Held \cup (InCalls \ {NULL}) \cup Pending \cup Taken
  BY DEF OutstandingBlocks
<1>6. OutstandingBlocks' = Held' \cup (InCalls' \ {NULL}) \cup Pending' \cup Taken'
  BY DEF OutstandingBlocks
<1>2. \A x : /\ x \in InCalls <=> \E u \in Thread : blk[u] = x
             /\ x \in InCalls' <=> \E u \in Thread : blk'[u] = x
  OBVIOUS
<1>3. \A x : /\ x \in Pending <=> \E d \in dirs : x \in pending_chain[d]
             /\ x \in Pending' <=> \E d \in dirs' : x \in pending_chain'[d]
  OBVIOUS
<1>4. \A x : /\ x \in Taken <=> \E u \in Thread : x \in taken[u]
             /\ x \in Taken' <=> \E u \in Thread : x \in taken'[u]
  OBVIOUS
<1>5. \A x : /\ x \in Held <=> x \in Block /\ held[x] > 0
             /\ x \in Held' <=> x \in Block /\ held'[x] > 0
  BY DEF Held
<1> HIDE DEF InCalls, Pending, Taken
<1> QED
  BY <1>1, <1>2, <1>3, <1>4, <1>5, <1>6

\* Blocks outstanding are blocks, on pages that are there, of directories that are there.
LEMMA OutFacts ==
  ASSUME OwnerInv, MemoryTypes, Living, Listed
  PROVE  /\ OutstandingBlocks \in SUBSET Block
         /\ \A x \in OutstandingBlocks : PageOf(x) \in pageLive /\ pageDir[PageOf(x)] \in dirs
<1>1. \A x \in OutstandingBlocks : x \in Block
  BY OutMember DEF OwnerInv, Types, MemoryTypes
<1>2. \A x \in OutstandingBlocks : PageOf(x) \in pageLive
  BY OutMember, <1>1 DEF Living
<1> QED
  BY <1>1, <1>2 DEF Listed

\* What is outstanding depends on five variables.
LEMMA OutUnchanged ==
  ASSUME UNCHANGED <<held, blk, dirs, pending_chain, taken>>
  PROVE  OutstandingBlocks' = OutstandingBlocks
  BY DEF OutstandingBlocks, Held

\* Nothing changes hands, so the counters stay exact; pages and directories may go.
LEMMA CountsSame ==
  ASSUME CountersExact, OutstandingBlocks' = OutstandingBlocks,
         pageLive' \in SUBSET pageLive, dirs' \in SUBSET dirs,
         UNCHANGED <<n_allocated_blocks, n_allocated_objects, pageDir>>
  PROVE  CountersExact'
  BY DEF CountersExact

\* Cardinalities: a subset taken away,
LEMMA CountMinus ==
  ASSUME NEW A \in SUBSET Block, NEW B \in SUBSET A
  PROVE  Cardinality(A \ B) = Cardinality(A) - Cardinality(B)
<1>1. A \cap B = B
  OBVIOUS
<1>2. IsFiniteSet(A)
  BY BlocksFinite
<1>3. Cardinality(A \ B) = Cardinality(A) - Cardinality(A \cap B)
  BY <1>2, FS_Difference
<1> QED
  BY <1>1, <1>3

\* ... an element added,
LEMMA CountPlus ==
  ASSUME NEW A \in SUBSET Block, NEW b, b \notin A
  PROVE  Cardinality(A \cup {b}) = Cardinality(A) + 1
  BY BlocksFinite, FS_AddElement

\* ... one block, seen from a page.
LEMMA CountOne ==
  ASSUME NEW b, NEW p
  PROVE  Cardinality(InPage({b}, p)) = IF PageOf(b) = p THEN 1 ELSE 0
<1>1. InPage({b}, p) = IF PageOf(b) = p THEN {b} ELSE {}
  BY DEF InPage
<1> QED
  BY <1>1, FS_Singleton, FS_EmptySet

\* Some blocks of directory d come back: its counter and those of the pages go down.
LEMMA CountsRemove ==
  ASSUME CountersExact, OutstandingBlocks \in SUBSET Block,
         NEW S \in SUBSET OutstandingBlocks, OutstandingBlocks' = OutstandingBlocks \ S,
         NEW d, \A b \in S : pageDir[PageOf(b)] = d,
         pageLive' \in SUBSET pageLive, dirs' \in SUBSET dirs, pageDir' = pageDir,
         \A p \in pageLive' : n_allocated_blocks'[p] = n_allocated_blocks[p] - Cardinality(InPage(S, p)),
         \A e \in dirs' : n_allocated_objects'[e] =
                             IF e = d THEN n_allocated_objects[e] - Cardinality(S) ELSE n_allocated_objects[e]
  PROVE  CountersExact'
<1> DEFINE Of(T, e) == {b \in T : pageDir[PageOf(b)] = e}
<1>1. ASSUME NEW p \in pageLive'
      PROVE  n_allocated_blocks'[p] = Cardinality(InPage(OutstandingBlocks', p))
  <2>1. InPage(OutstandingBlocks', p) = InPage(OutstandingBlocks, p) \ InPage(S, p)
        /\ InPage(S, p) \in SUBSET InPage(OutstandingBlocks, p)
        /\ InPage(OutstandingBlocks, p) \in SUBSET Block
    BY DEF InPage
  <2>2. Cardinality(InPage(OutstandingBlocks', p)) =
          Cardinality(InPage(OutstandingBlocks, p)) - Cardinality(InPage(S, p))
    BY <2>1, CountMinus
  <2> QED
    BY <2>2, <1>1 DEF CountersExact
<1>2. ASSUME NEW e \in dirs'
      PROVE  n_allocated_objects'[e] = Cardinality(Of(OutstandingBlocks', e))
  <2>1. n_allocated_objects[e] = Cardinality(Of(OutstandingBlocks, e))
    BY <1>2 DEF CountersExact
  <2>2. Of(OutstandingBlocks', e) = Of(OutstandingBlocks, e) \ Of(S, e)
        /\ Of(S, e) \in SUBSET Of(OutstandingBlocks, e)
        /\ Of(OutstandingBlocks, e) \in SUBSET Block
    OBVIOUS
  <2>3. Of(S, e) = IF e = d THEN S ELSE {}
    OBVIOUS
  <2>4. Cardinality(Of(OutstandingBlocks', e)) =
          Cardinality(Of(OutstandingBlocks, e)) - Cardinality(Of(S, e))
    <3> HIDE DEF Of
    <3> QED
      BY <2>2, CountMinus
  <2>5. Cardinality(Of(S, e)) = IF e = d THEN Cardinality(S) ELSE 0
    BY <2>3, FS_EmptySet
  <2>6. Cardinality(Of(OutstandingBlocks, e)) \in Nat
    <3> HIDE DEF Of
    <3> QED
      BY <2>2, BlocksFinite
  <2> HIDE DEF Of
  <2> QED
    BY <2>1, <2>4, <2>5, <2>6, <1>2
<1> QED
  BY <1>1, <1>2 DEF CountersExact

\* Block b of directory d, which was not outstanding, is handed out.
LEMMA CountsAdd ==
  ASSUME CountersExact, OutstandingBlocks \in SUBSET Block,
         NEW b \in Block, b \notin OutstandingBlocks,
         OutstandingBlocks' = OutstandingBlocks \cup {b},
         NEW d, pageDir'[PageOf(b)] = d,
         \A x \in OutstandingBlocks : pageDir'[PageOf(x)] = pageDir[PageOf(x)],
         \A p \in pageLive' : n_allocated_blocks'[p] =
            Cardinality(InPage(OutstandingBlocks, p)) + (IF PageOf(b) = p THEN 1 ELSE 0),
         dirs' = dirs,
         \A e \in dirs : n_allocated_objects'[e] = n_allocated_objects[e] + (IF e = d THEN 1 ELSE 0)
  PROVE  CountersExact'
<1>1. ASSUME NEW p \in pageLive'
      PROVE  n_allocated_blocks'[p] = Cardinality(InPage(OutstandingBlocks', p))
  <2>1. InPage(OutstandingBlocks', p) =
           IF PageOf(b) = p THEN InPage(OutstandingBlocks, p) \cup {b} ELSE InPage(OutstandingBlocks, p)
    BY DEF InPage
  <2>2. b \notin InPage(OutstandingBlocks, p) /\ InPage(OutstandingBlocks, p) \in SUBSET Block
        /\ Cardinality(InPage(OutstandingBlocks, p)) \in Nat
    <3>1. b \notin InPage(OutstandingBlocks, p) /\ InPage(OutstandingBlocks, p) \in SUBSET Block
      BY DEF InPage
    <3> QED
      BY <3>1, BlocksFinite
  <2>3. Cardinality(InPage(OutstandingBlocks', p)) =
           Cardinality(InPage(OutstandingBlocks, p)) + (IF PageOf(b) = p THEN 1 ELSE 0)
    <3>1. CASE PageOf(b) = p
      BY <2>1, <2>2, <3>1, CountPlus
    <3>2. CASE PageOf(b) # p
      BY <2>1, <2>2, <3>2
    <3> QED
      BY <3>1, <3>2
  <2> QED
    BY <2>3, <1>1
<1>2. ASSUME NEW e \in dirs
      PROVE  n_allocated_objects'[e] = Cardinality({x \in OutstandingBlocks' : pageDir'[PageOf(x)] = e})
  <2> DEFINE Old == {x \in OutstandingBlocks : pageDir[PageOf(x)] = e}
             New == {x \in OutstandingBlocks' : pageDir'[PageOf(x)] = e}
  <2>1. n_allocated_objects[e] = Cardinality(Old)
    BY DEF CountersExact
  <2>2. New = (IF e = d THEN Old \cup {b} ELSE Old) /\ b \notin Old /\ Old \in SUBSET Block
    OBVIOUS
  <2> HIDE DEF Old
  <2>3. IsFiniteSet(Old) /\ Cardinality(Old) \in Nat
    BY <2>2, BlocksFinite
  <2>4. Cardinality(New) = Cardinality(Old) + (IF e = d THEN 1 ELSE 0)
    <3> HIDE DEF New
    <3> QED
      BY <2>2, <2>3, CountPlus
  <2> QED
    BY <2>1, <2>4
<1> QED
  BY <1>1, <1>2 DEF CountersExact

\* A block on the chain of its page is not outstanding.
LEMMA NotOutside ==
  ASSUME OwnerInv, Places, NEW t \in Thread, ctx[t] # NULL, NEW b \in Block,
         Unheld(b), pageDir[PageOf(b)] = ctx[t], b \notin pending_chain[ctx[t]], b \notin taken[t]
  PROVE  b \notin OutstandingBlocks
<1>1. \A d \in dirs : b \notin pending_chain[d]
  BY DEF Places, PendingApart
<1>2. \A u \in Thread : b \notin taken[u]
  BY DEF Places, TakenApart, OwnerInv, Ownership
<1> QED
  BY <1>1, <1>2, OutMember DEF Unheld

\* A block off a chain is counted once more.
LEMMA TakeFromChainCounts ==
  ASSUME MemoryInv, NEW t \in Thread, TakeFromChain(t)
  PROVE  CountersExact'
<1> USE DEF MemoryInv
<1>1. ctx[t] \in Dir /\ want[t] \in Chain /\ ctx[t] # NULL
  BY InAllocFacts DEF TakeFromChain, InAlloc
<1>2. PICK b \in chain[ctx[t]][want[t]] :
         /\ held' = [held EXCEPT ![b] = @ + 1]
         /\ n_allocated_blocks' = [n_allocated_blocks EXCEPT ![PageOf(b)] = @ + 1]
         /\ n_allocated_objects' = [n_allocated_objects EXCEPT ![ctx[t]] = @ + 1]
         /\ UNCHANGED <<blk, dirs, pending_chain, taken, pageLive, pageDir>>
  BY DEF TakeFromChain, HandOut, Give
<1>3. b \in Block /\ PageOf(b) \in Page
  BY <1>1, ChainType, PageOfType
<1>4. PageOf(b) \in pageLive /\ pageDir[PageOf(b)] = ctx[t] /\ Unheld(b)
      /\ b \notin pending_chain[ctx[t]] /\ b \notin taken[t]
  BY <1>1 DEF Places, ChainsApart
<1>5. b \notin OutstandingBlocks
  BY <1>1, <1>3, <1>4, NotOutside
<1>6. \A x \in Block : held'[x] > 0 <=> held[x] > 0 \/ x = b
  BY <1>2, <1>3, <1>4 DEF Unheld, MemoryTypes
<1>7. OutstandingBlocks' = OutstandingBlocks \cup {b}
  BY <1>2, <1>3, <1>6, OutMember
<1>8. \A p \in pageLive : n_allocated_blocks'[p] =
         Cardinality(InPage(OutstandingBlocks, p)) + (IF PageOf(b) = p THEN 1 ELSE 0)
  BY <1>2, <1>3 DEF MemoryTypes, CountersExact
<1>9. \A e \in dirs : n_allocated_objects'[e] = n_allocated_objects[e] + (IF e = ctx[t] THEN 1 ELSE 0)
  BY <1>1, <1>2 DEF MemoryTypes, OwnerInv, Types
<1> QED
  BY <1>2, <1>3, <1>4, <1>5, <1>7, <1>8, <1>9, OutFacts, CountsAdd

\* A new page starts with one block outstanding.
LEMMA CarveCounts ==
  ASSUME MemoryInv, NEW t \in Thread, Carve(t)
  PROVE  CountersExact'
<1> USE DEF MemoryInv
<1>1. ctx[t] \in Dir /\ ctx[t] # NULL
  BY InAllocFacts DEF Carve, InAlloc
<1>2. PICK p \in Page \ pageLive, s \in Slots :
         /\ pageLive' = pageLive \cup {p}
         /\ pageDir' = [pageDir EXCEPT ![p] = ctx[t]]
         /\ n_allocated_blocks' = [n_allocated_blocks EXCEPT ![p] = 1]
         /\ n_allocated_objects' = [n_allocated_objects EXCEPT ![ctx[t]] = @ + 1]
         /\ held' = [held EXCEPT ![<<p, s>>] = @ + 1]
         /\ UNCHANGED <<blk, dirs, pending_chain, taken>>
  BY DEF Carve, Give
<1> DEFINE b == <<p, s>>
<1>3. b \in Block /\ PageOf(b) = p
  BY DEF Block, PageOf
<1>4. b \notin OutstandingBlocks /\ InPage(OutstandingBlocks, p) = {}
  BY <1>3, OutFacts DEF InPage
<1> HIDE DEF b
<1>5. held' = [held EXCEPT ![b] = @ + 1]
  BY <1>2 DEF b
<1>6. \A x \in Block : held'[x] > 0 <=> held[x] > 0 \/ x = b
  BY <1>3, <1>5 DEF MemoryTypes
<1>7. OutstandingBlocks' = OutstandingBlocks \cup {b}
  BY <1>2, <1>3, <1>6, OutMember
<1>8. ASSUME NEW q \in pageLive'
      PROVE  n_allocated_blocks'[q] =
                Cardinality(InPage(OutstandingBlocks, q)) + (IF PageOf(b) = q THEN 1 ELSE 0)
  <2>1. CASE q = p
    <3>1. n_allocated_blocks'[p] = 1
      BY <1>2 DEF MemoryTypes
    <3>2. Cardinality(InPage(OutstandingBlocks, p)) = 0
      BY <1>4, FS_EmptySet
    <3> QED
      BY <1>3, <2>1, <3>1, <3>2
  <2>2. CASE q # p
    <3>1. q \in pageLive /\ q \in Page /\ n_allocated_blocks'[q] = n_allocated_blocks[q]
          /\ n_allocated_blocks[q] \in Int
      BY <1>2, <2>2 DEF MemoryTypes
    <3> QED
      BY <1>3, <2>2, <3>1 DEF CountersExact
  <2> QED
    BY <2>1, <2>2
<1>9. \A e \in dirs : n_allocated_objects'[e] = n_allocated_objects[e] + (IF e = ctx[t] THEN 1 ELSE 0)
  BY <1>1, <1>2 DEF MemoryTypes, OwnerInv, Types
<1>10. pageDir'[PageOf(b)] = ctx[t]
       /\ \A x \in OutstandingBlocks : pageDir'[PageOf(x)] = pageDir[PageOf(x)]
  BY <1>2, <1>3, OutFacts, PageOfType DEF OwnerInv, Types
<1>11. OutstandingBlocks \in SUBSET Block /\ dirs' = dirs
  BY <1>2, OutFacts
<1> QED
  BY <1>3, <1>4, <1>7, <1>8, <1>9, <1>10, <1>11, CountsAdd

\* The pending blocks taken back leave the counters of their pages and directory.
LEMMA DrainCounts ==
  ASSUME MemoryInv, NEW t \in Thread, Drain(t)
  PROVE  CountersExact'
<1> USE DEF MemoryInv
<1>1. ctx[t] \in Dir /\ \A u \in Thread : ctx[u] = ctx[t] => u = t
  BY InAllocFacts DEF Drain, Goto, InAlloc
<1>2. taken[t] \in SUBSET Block
  BY DEF MemoryTypes
<1>3. taken[t] \in SUBSET OutstandingBlocks /\ \A b \in taken[t] : pageDir[PageOf(b)] = ctx[t]
  BY OutMember DEF Places, TakenApart
<1>4. /\ \A u \in Thread : taken'[u] = IF u = t THEN {} ELSE taken[u]
      /\ UNCHANGED <<held, blk, dirs, pending_chain, pageLive, pageDir>>
      /\ n_allocated_blocks' = LessBlocks(taken[t])
      /\ n_allocated_objects' = [n_allocated_objects EXCEPT ![ctx[t]] = @ - Cardinality(taken[t])]
  BY DEF Drain, MemoryTypes
<1>5. \A x \in taken[t] : /\ Unheld(x) /\ \A d \in dirs : x \notin pending_chain[d]
                          /\ \A u \in Thread : u # t => x \notin taken[u]
  BY <1>1 DEF Places, TakenApart, PendingApart
<1>6. OutstandingBlocks' = OutstandingBlocks \ taken[t]
  <2>1. \A x \in taken[t] : x \notin OutstandingBlocks'
    BY <1>4, <1>5, OutMember DEF Unheld
  <2>2. \A x : x \notin taken[t] => (x \in OutstandingBlocks' <=> x \in OutstandingBlocks)
    BY <1>4, OutMember
  <2>3. \A x : x \in OutstandingBlocks' => x \in OutstandingBlocks
    BY <2>1, <2>2
  <2> QED
    BY <2>1, <2>2, <2>3
<1>7. \A p \in pageLive' : n_allocated_blocks'[p] = n_allocated_blocks[p] - Cardinality(InPage(taken[t], p))
  BY <1>2, <1>4, LessBlocksType DEF MemoryTypes
<1>8. \A e \in dirs' : n_allocated_objects'[e] = IF e = ctx[t] THEN n_allocated_objects[e] - Cardinality(taken[t])
                                                ELSE n_allocated_objects[e]
  BY <1>1, <1>4 DEF MemoryTypes, OwnerInv, Types
<1> QED
  BY <1>3, <1>4, <1>6, <1>7, <1>8, OutFacts, CountsRemove

\* So do those that cleanup() drops.
LEMMA DropPendingCounts ==
  ASSUME MemoryInv, NEW d \in dirs, DropPending(d),
         UNCHANGED <<held, blk, taken, pageLive, pageDir>>, dirs' = dirs
  PROVE  CountersExact'
<1> USE DEF MemoryInv
<1>1. pending_chain[d] \in SUBSET Block /\ d \in Dir
  BY DEF MemoryTypes, OwnerInv, Types
<1>2. pending_chain[d] \in SUBSET OutstandingBlocks
      /\ \A b \in pending_chain[d] : pageDir[PageOf(b)] = d
  BY OutMember DEF Places, PendingApart
<1>3. \A e \in dirs : pending_chain'[e] = IF e = d THEN {} ELSE pending_chain[e]
  BY DEF DropPending, MemoryTypes, OwnerInv, Types
<1>4. \A x \in pending_chain[d] : /\ Unheld(x) /\ \A e \in dirs : e # d => x \notin pending_chain[e]
                                  /\ \A u \in Thread : x \notin taken[u]
  BY DEF Places, TakenApart, PendingApart
<1>5. OutstandingBlocks' = OutstandingBlocks \ pending_chain[d]
  <2>1. \A x \in pending_chain[d] : x \notin OutstandingBlocks'
    BY <1>3, <1>4, OutMember DEF Unheld
  <2>2. \A x : x \notin pending_chain[d] => (x \in OutstandingBlocks' <=> x \in OutstandingBlocks)
    BY <1>3, OutMember
  <2>3. \A x : x \in OutstandingBlocks' => x \in OutstandingBlocks
    BY <2>1, <2>2
  <2> QED
    BY <2>1, <2>2, <2>3
<1>6. \A p \in pageLive' : n_allocated_blocks'[p] =
                              n_allocated_blocks[p] - Cardinality(InPage(pending_chain[d], p))
  BY <1>1, LessBlocksType DEF DropPending, MemoryTypes
<1>7. \A e \in dirs' : n_allocated_objects'[e] =
         IF e = d THEN n_allocated_objects[e] - Cardinality(pending_chain[d]) ELSE n_allocated_objects[e]
  BY <1>1 DEF DropPending, MemoryTypes, OwnerInv, Types
<1> QED
  BY <1>2, <1>5, <1>6, <1>7, OutFacts, CountsRemove

\* The large blocks are not counted.
LEMMA BigCounts ==
  ASSUME MemoryInv, NEW t \in Thread, AllocBig(t) \/ FreeBig(t) \/ ReallocBig(t)
  PROVE  CountersExact'
<1>1. UNCHANGED <<blk, dirs, pending_chain, taken, pageLive, pageDir, n_allocated_blocks, n_allocated_objects>>
  BY DEF AllocBig, FreeBig, ReallocBig, dirVars, pageVars, threadVars
<1>2. \A x \in Block : held'[x] = held[x]
  BY ThreadAllocAssumption DEF AllocBig, FreeBig, ReallocBig, HeldBig, Give, Take, MemoryInv, MemoryTypes
<1>3. OutstandingBlocks' = OutstandingBlocks
  BY <1>1, <1>2, OutMember
<1> QED
  BY <1>1, <1>3, CountsSame DEF MemoryInv

\* The pending blocks change hands.
LEMMA TakePendingCounts ==
  ASSUME MemoryInv, NEW t \in Thread, TakePending(t)
  PROVE  CountersExact'
<1> DEFINE d == ctx[t]
<1>1. d \in dirs /\ d \in Dir /\ taken[t] = {}
  BY InAllocFacts DEF TakePending, Goto, InAlloc, MemoryInv, Locals
<1>2. /\ \A u \in Thread : taken'[u] = IF u = t THEN pending_chain[d] ELSE taken[u]
      /\ \A e \in Dir : pending_chain'[e] = IF e = d THEN {} ELSE pending_chain[e]
      /\ UNCHANGED <<held, blk, dirs, pageLive, pageDir, n_allocated_blocks, n_allocated_objects>>
  BY DEF TakePending, MemoryInv, MemoryTypes, pageVars
<1>3. \A e \in dirs : e \in Dir
  BY DEF MemoryInv, OwnerInv, Types
<1> HIDE DEF d
<1>4. \A x : (\E e \in dirs : x \in pending_chain[e]) \/ (\E u \in Thread : x \in taken[u])
             <=> (\E e \in dirs : x \in pending_chain'[e]) \/ (\E u \in Thread : x \in taken'[u])
  BY <1>1, <1>2, <1>3
<1>5. OutstandingBlocks' = OutstandingBlocks
  BY <1>2, <1>4, OutMember
<1> QED
  BY <1>2, <1>5, CountsSame DEF MemoryInv

\* The block a realloc moves away from goes from the application to the call.
LEMMA MovedBlock ==
  ASSUME MemoryInv, NEW t \in Thread, NEW b \in Block, held[b] > 0, blk[t] = NULL,
         held'[b] \in Nat, \A x \in Block : x # b => held'[x] = held[x],
         blk' = [blk EXCEPT ![t] = b],
         \A x : (\E e \in dirs' : x \in pending_chain'[e]) <=> (\E e \in dirs : x \in pending_chain[e]),
         taken' = taken
  PROVE  OutstandingBlocks' = OutstandingBlocks
<1>1. \A u \in Thread : blk'[u] = IF u = t THEN b ELSE blk[u]
  BY DEF MemoryInv, OwnerInv, Types
<1>2. ASSUME NEW x, x # b
      PROVE  x \in OutstandingBlocks' <=> x \in OutstandingBlocks
  <2>1. x \in Block => held'[x] = held[x]
    BY <1>2
  <2>2. (x # NULL /\ \E u \in Thread : blk'[u] = x) <=> (x # NULL /\ \E u \in Thread : blk[u] = x)
    BY <1>1, <1>2
  <2>3. (\E e \in dirs' : x \in pending_chain'[e]) <=> (\E e \in dirs : x \in pending_chain[e])
    OBVIOUS
  <2> QED
    BY <2>1, <2>2, <2>3, OutMember, Zenon
<1>3. b \in OutstandingBlocks' /\ b \in OutstandingBlocks
  BY <1>1, OutMember, PageOfType
<1>4. \A x : x \in OutstandingBlocks' <=> x \in OutstandingBlocks
  BY <1>2, <1>3, Zenon
<1> QED
  BY <1>4, Zenon

\* ... and so it does when the new block is malloc()'s.
LEMMA ReallocToBigCounts ==
  ASSUME MemoryInv, NEW t \in Thread, ReallocToBig(t)
  PROVE  CountersExact'
<1>1. blk[t] = NULL
  BY DEF ReallocToBig, Goto, MemoryInv, Locals, InAlloc, Cleaning
<1>2. PICK b \in Held, g \in Big : /\ held' = [held EXCEPT ![b] = @ - 1, ![g] = @ + 1]
                                  /\ blk' = [blk EXCEPT ![t] = b]
  BY DEF ReallocToBig
<1>3. b \in Block /\ held[b] > 0 /\ g \notin Block /\ held[b] \in Nat
  BY ThreadAllocAssumption DEF Held, MemoryInv, MemoryTypes
<1>4. held'[b] \in Nat /\ \A x \in Block : x # b => held'[x] = held[x]
  BY <1>2, <1>3 DEF MemoryInv, MemoryTypes
<1>5. UNCHANGED <<dirs, pending_chain, taken, pageLive, pageDir, n_allocated_blocks, n_allocated_objects>>
  BY DEF ReallocToBig, dirVars, pageVars
<1>6. OutstandingBlocks' = OutstandingBlocks
  BY <1>1, <1>2, <1>3, <1>4, <1>5, MovedBlock
<1> QED
  BY <1>5, <1>6, CountsSame DEF MemoryInv

\* A new directory has no block outstanding.
LEMMA BeginAllocCounts ==
  ASSUME MemoryInv, NEW t \in Thread, NEW c \in Chain, Alloc(t, c) \/ Realloc(t, c)
  PROVE  CountersExact'
<1>1. /\ BeginAlloc(t, c) /\ UNCHANGED <<taken, pageLive, pageDir, n_allocated_blocks>>
      /\ blk[t] = NULL
      /\ \/ UNCHANGED <<held, blk>>
         \/ \E b \in Held : held' = [held EXCEPT ![b] = @ - 1] /\ blk' = [blk EXCEPT ![t] = b]
  BY DEF Alloc, Realloc, Take, pageVars, MemoryInv, Locals, InAlloc, Cleaning
<1>2. \/ UNCHANGED <<dirs, pending_chain, n_allocated_objects>>
      \/ \E d \in Dir \ dirs : /\ dirs' = dirs \cup {d}
                               /\ pending_chain' = [pending_chain EXCEPT ![d] = {}]
                               /\ n_allocated_objects' = [n_allocated_objects EXCEPT ![d] = 0]
  BY <1>1 DEF BeginAlloc, dirVars
<1>3. \A x : (\E e \in dirs' : x \in pending_chain'[e]) <=> (\E e \in dirs : x \in pending_chain[e])
  <2>1. CASE UNCHANGED <<dirs, pending_chain>>
    BY <2>1
  <2>2. ASSUME NEW d \in Dir \ dirs, dirs' = dirs \cup {d}, pending_chain' = [pending_chain EXCEPT ![d] = {}]
        PROVE  \A x : (\E e \in dirs' : x \in pending_chain'[e]) <=> (\E e \in dirs : x \in pending_chain[e])
    <3>1. \A e \in dirs' : pending_chain'[e] = IF e = d THEN {} ELSE pending_chain[e]
      BY <2>2 DEF MemoryInv, MemoryTypes, OwnerInv, Types
    <3> QED
      BY <2>2, <3>1
  <2> QED
    BY <1>2, <2>1, <2>2
<1>4. OutstandingBlocks' = OutstandingBlocks
  <2>1. CASE UNCHANGED <<held, blk>>
    BY <1>1, <1>3, <2>1, OutMember
  <2>2. CASE \E b \in Held : held' = [held EXCEPT ![b] = @ - 1] /\ blk' = [blk EXCEPT ![t] = b]
    <3> PICK b \in Held : held' = [held EXCEPT ![b] = @ - 1] /\ blk' = [blk EXCEPT ![t] = b]
      BY <2>2
    <3>1. b \in Block /\ held[b] > 0 /\ held'[b] \in Nat /\ \A x \in Block : x # b => held'[x] = held[x]
      BY DEF Held, MemoryInv, MemoryTypes
    <3> QED
      BY <1>1, <1>3, <3>1, MovedBlock
  <2> QED
    BY <1>1, <2>1, <2>2
<1>5. CASE UNCHANGED <<dirs, pending_chain, n_allocated_objects>>
  BY <1>1, <1>4, <1>5, CountsSame DEF MemoryInv
<1>6. CASE ~UNCHANGED <<dirs, pending_chain, n_allocated_objects>>
  <2> PICK d \in Dir \ dirs : dirs' = dirs \cup {d} /\ n_allocated_objects' = [n_allocated_objects EXCEPT ![d] = 0]
    BY <1>2, <1>6
  <2>1. \A p \in pageLive : n_allocated_blocks'[p] = Cardinality(InPage(OutstandingBlocks', p))
    BY <1>1, <1>4 DEF MemoryInv, CountersExact
  <2>2. ASSUME NEW e \in dirs
        PROVE  n_allocated_objects'[e] = Cardinality({x \in OutstandingBlocks' : pageDir'[PageOf(x)] = e})
    <3>1. n_allocated_objects'[e] = n_allocated_objects[e]
      BY <2>2 DEF MemoryInv, MemoryTypes, OwnerInv, Types
    <3> QED
      BY <1>1, <1>4, <3>1 DEF MemoryInv, CountersExact
  <2>3. n_allocated_objects'[d] = Cardinality({x \in OutstandingBlocks' : pageDir'[PageOf(x)] = d})
    <3>1. {x \in OutstandingBlocks' : pageDir'[PageOf(x)] = d} = {}
      BY <1>1, <1>4, OutFacts DEF MemoryInv
    <3>2. n_allocated_objects'[d] = 0
      BY DEF MemoryInv, MemoryTypes
    <3> QED
      BY <3>1, <3>2, FS_EmptySet
  <2> QED
    BY <1>1, <2>1, <2>2, <2>3 DEF CountersExact
<1> QED
  BY <1>5, <1>6

\* What one block takes off the counters of its page.
LEMMA CountOneLess ==
  ASSUME MemoryTypes, NEW b \in Block,
         n_allocated_blocks' = [n_allocated_blocks EXCEPT ![PageOf(b)] = @ - 1]
  PROVE  \A p \in Page : n_allocated_blocks'[p] = n_allocated_blocks[p] - Cardinality(InPage({b}, p))
  BY CountOne, PageOfType DEF MemoryTypes

\* The owner's free is counted at once; a stranger's block stays outstanding.
LEMMA FreeCounts ==
  ASSUME MemoryInv, NEW t \in Thread, Free(t) \/ FreeOld(t)
  PROVE  CountersExact'
<1> USE DEF MemoryInv
<1>1. PICK b \in Block :
         /\ BeginFree(t, b)
         /\ held' = [held EXCEPT ![b] = 0]
         /\ held[b] = 1 \/ blk[t] = b
         /\ UNCHANGED <<dirs, pending_chain, taken, ctx, pageLive, pageDir, pageChain>>
  BY FreedBlock
<1>2. b # NULL /\ PageOf(b) \in Page /\ (\A u \in Thread : u # t => blk[u] # b)
  BY <1>1, PageOfType DEF Places, CallsApart
<1>3. b \in OutstandingBlocks
  BY <1>1, <1>2, OutMember
<1>4. \A x \in Block : held'[x] = IF x = b THEN 0 ELSE held[x]
  BY <1>1 DEF MemoryTypes
<1>5. ~Unheld(b)
  BY <1>1 DEF Unheld
<1>6. (\A e \in dirs : b \notin pending_chain[e]) /\ (\A u \in Thread : b \notin taken[u])
  BY <1>5 DEF Places, PendingApart, TakenApart
<1>7. blk[t] = b \/ blk[t] = NULL
  <2>1. CASE Free(t)
    BY <2>1 DEF Free, Locals, InAlloc, Cleaning
  <2>2. CASE FreeOld(t)
    <3>1. blk[t] \in Block /\ held[blk[t]] = 0
      BY <2>2 DEF FreeOld, OwnerInv, Types, Stages, Places, CallsApart
    <3>2. CASE held[b] = 1
      <4>1. FreeOld(t) => held' = held
        BY DEF FreeOld
      <4> QED
        BY <1>4, <2>2, <3>2, <4>1
    <3> QED
      BY <1>1, <3>2
  <2> QED
    BY <2>1, <2>2
<1>8. pageDir[PageOf(b)] \in dirs /\ PageOf(b) \in pageLive
  BY <1>3, OutFacts
<1>9. CASE pageDir[PageOf(b)] = ctx[t]
  <2>1. /\ n_allocated_blocks' = [n_allocated_blocks EXCEPT ![PageOf(b)] = @ - 1]
        /\ n_allocated_objects' = [n_allocated_objects EXCEPT ![ctx[t]] = @ - 1]
        /\ blk' = [blk EXCEPT ![t] = NULL]
    BY <1>1, <1>9 DEF BeginFree
  <2>2. \A u \in Thread : blk'[u] = IF u = t THEN NULL ELSE blk[u]
    BY <2>1 DEF OwnerInv, Types
  <2>3. b \notin OutstandingBlocks'
    BY <1>1, <1>2, <1>4, <1>6, <2>2, OutMember
  <2>4. \A x : x # b => (x \in OutstandingBlocks' <=> x \in OutstandingBlocks)
    BY <1>1, <1>4, <1>7, <2>2, OutMember
  <2>5. OutstandingBlocks' = OutstandingBlocks \ {b}
    BY <2>3, <2>4
  <2>6. \A p \in pageLive' : n_allocated_blocks'[p] = n_allocated_blocks[p] - Cardinality(InPage({b}, p))
    BY <1>1, <2>1, CountOneLess DEF MemoryTypes
  <2>7. \A e \in dirs' : n_allocated_objects'[e] =
           IF e = ctx[t] THEN n_allocated_objects[e] - Cardinality({b}) ELSE n_allocated_objects[e]
    BY <1>1, <2>1, FS_Singleton DEF MemoryTypes, OwnerInv, Types
  <2>8. {b} \in SUBSET OutstandingBlocks /\ \A x \in {b} : pageDir[PageOf(x)] = ctx[t]
    BY <1>3, <1>9
  <2>9. pageLive' \in SUBSET pageLive /\ dirs' \in SUBSET dirs /\ pageDir' = pageDir
    BY <1>1
  <2> QED
    BY <2>5, <2>6, <2>7, <2>8, <2>9, OutFacts, CountsRemove
<1>10. CASE pageDir[PageOf(b)] # ctx[t]
  <2>1. /\ UNCHANGED <<n_allocated_blocks, n_allocated_objects>>
        /\ blk' = [blk EXCEPT ![t] = b]
    BY <1>1, <1>10 DEF BeginFree
  <2>2. \A u \in Thread : blk'[u] = IF u = t THEN b ELSE blk[u]
    BY <2>1 DEF OwnerInv, Types
  <2>3. b \in OutstandingBlocks'
    BY <1>2, <2>2, OutMember
  <2>4. \A x : x # b => (x \in OutstandingBlocks' <=> x \in OutstandingBlocks)
    BY <1>1, <1>4, <1>7, <2>2, OutMember
  <2>5. OutstandingBlocks' = OutstandingBlocks
    BY <1>3, <2>3, <2>4
  <2> QED
    BY <1>1, <2>1, <2>5, CountsSame
<1> QED
  BY <1>9, <1>10

\* The block thread_free() frees for another thread, and what the last free of a
\* terminated directory leaves of the blocks outstanding.
LEMMA RemoteFacts ==
  ASSUME MemoryInv, NEW t \in Thread, FreeRemote(t)
  PROVE  /\ blk[t] \in OutstandingBlocks /\ blk[t] \in Block /\ PageOf(blk[t]) \in pageLive
         /\ target[t] = pageDir[PageOf(blk[t])] /\ target[t] \in dirs /\ target[t] \in Dir
         /\ terminated[target[t]] => OutstandingBlocks' = OutstandingBlocks \ {blk[t]}
         /\ ~terminated[target[t]] => OutstandingBlocks' = OutstandingBlocks
<1> USE DEF MemoryInv
<1> DEFINE b == blk[t]
           d == target[t]
<1>1. b \in Block /\ b # NULL /\ d = pageDir[PageOf(b)]
  BY DEF FreeRemote, Goto, OwnerInv, Types, Stages, Locals
<1>2. b \in OutstandingBlocks
  BY <1>1, OutMember
<1>3. PageOf(b) \in pageLive /\ d \in dirs /\ d \in Dir
  BY <1>1, <1>2, OutFacts DEF OwnerInv, Types
<1>4. /\ \A u \in Thread : blk'[u] = IF u = t THEN NULL ELSE blk[u]
      /\ UNCHANGED <<held, taken>>
  BY DEF FreeRemote, OwnerInv, Types
<1>5. held[b] = 0 /\ \A u \in Thread : u # t => blk[u] # b
  BY <1>1 DEF Places, CallsApart
<1>6. ~Unheld(b)
  BY DEF Unheld
<1>7. (\A e \in dirs : b \notin pending_chain[e]) /\ (\A u \in Thread : b \notin taken[u])
  BY <1>6 DEF Places, PendingApart, TakenApart
<1> HIDE DEF b
<1>8. ASSUME terminated[d] PROVE OutstandingBlocks' = OutstandingBlocks \ {b}
  <2>1. pending_chain' = pending_chain /\ (dirs' = dirs \/ dirs' = dirs \ {d}) /\ pending_chain[d] = {}
    BY <1>3, <1>8 DEF FreeRemote, Listed
  <2>2. \A x : (\E e \in dirs' : x \in pending_chain'[e]) <=> (\E e \in dirs : x \in pending_chain[e])
    BY <2>1
  <2>3. b \notin OutstandingBlocks'
    BY <1>1, <1>4, <1>5, <1>7, <2>2, OutMember
  <2>4. \A x : x # b => (x \in OutstandingBlocks' <=> x \in OutstandingBlocks)
    BY <1>4, <2>2, OutMember DEF b
  <2> QED
    BY <2>3, <2>4
<1>9. ASSUME ~terminated[d] PROVE OutstandingBlocks' = OutstandingBlocks
  <2>1. dirs' = dirs /\ \A e \in Dir : pending_chain'[e] = IF e = d THEN pending_chain[e] \cup {b} ELSE pending_chain[e]
    BY <1>9 DEF FreeRemote, MemoryTypes, b
  <2>2. \A e \in dirs : e \in Dir
    BY DEF OwnerInv, Types
  <2>3. b \in OutstandingBlocks'
    BY <1>3, <2>1, OutMember
  <2>4. \A x : x # b => ((\E e \in dirs' : x \in pending_chain'[e]) <=> (\E e \in dirs : x \in pending_chain[e]))
    BY <2>1, <2>2
  <2>5. \A x : x # b => (x \in OutstandingBlocks' <=> x \in OutstandingBlocks)
    BY <1>4, <2>4, OutMember DEF b
  <2> QED
    BY <1>2, <2>3, <2>5
<1> QED
  BY <1>1, <1>2, <1>3, <1>8, <1>9 DEF b

\* The counters of a terminated directory go down with each free; of another they wait.
LEMMA FreeRemoteCounts ==
  ASSUME MemoryInv, NEW t \in Thread, FreeRemote(t)
  PROVE  CountersExact'
<1> USE DEF MemoryInv
<1> PICK b, d : b = blk[t] /\ d = target[t]
  OBVIOUS
<1>1. /\ b \in OutstandingBlocks /\ b \in Block /\ d = pageDir[PageOf(b)] /\ d \in Dir
      /\ terminated[d] => OutstandingBlocks' = OutstandingBlocks \ {b}
      /\ ~terminated[d] => OutstandingBlocks' = OutstandingBlocks
  BY RemoteFacts
<1>2. CASE terminated[d]
  <2>1. /\ n_allocated_blocks' = [n_allocated_blocks EXCEPT ![PageOf(b)] = @ - 1]
        /\ n_allocated_objects' = [n_allocated_objects EXCEPT ![d] = @ - 1]
        /\ pageLive' \in SUBSET pageLive /\ dirs' \in SUBSET dirs /\ pageDir' = pageDir
    BY <1>2 DEF FreeRemote
  <2>2. \A p \in pageLive' : n_allocated_blocks'[p] = n_allocated_blocks[p] - Cardinality(InPage({b}, p))
    BY <1>1, <2>1, CountOneLess DEF MemoryTypes
  <2>3. \A e \in dirs' : n_allocated_objects'[e] =
           IF e = d THEN n_allocated_objects[e] - Cardinality({b}) ELSE n_allocated_objects[e]
    BY <1>1, <2>1, FS_Singleton DEF MemoryTypes, OwnerInv, Types
  <2>4. /\ {b} \in SUBSET OutstandingBlocks /\ \A x \in {b} : pageDir[PageOf(x)] = d
        /\ OutstandingBlocks' = OutstandingBlocks \ {b}
    BY <1>1, <1>2
  <2>5. OutstandingBlocks \in SUBSET Block /\ CountersExact
    BY OutFacts
  <2>6. pageLive' \in SUBSET pageLive /\ dirs' \in SUBSET dirs /\ pageDir' = pageDir
    BY <2>1
  <2> DEFINE S == {b}
  <2>7. S \in SUBSET OutstandingBlocks /\ OutstandingBlocks' = OutstandingBlocks \ S
        /\ \A x \in S : pageDir[PageOf(x)] = d
    BY <2>4
  <2>8. \A p \in pageLive' : n_allocated_blocks'[p] = n_allocated_blocks[p] - Cardinality(InPage(S, p))
    BY <2>2
  <2>9. \A e \in dirs' : n_allocated_objects'[e] =
           IF e = d THEN n_allocated_objects[e] - Cardinality(S) ELSE n_allocated_objects[e]
    BY <2>3
  <2> HIDE DEF S
  <2> QED
    BY <2>5, <2>6, <2>7, <2>8, <2>9, CountsRemove
<1>3. CASE ~terminated[d]
  <2>1. UNCHANGED <<n_allocated_blocks, n_allocated_objects, pageLive, dirs, pageDir>>
    BY <1>3 DEF FreeRemote
  <2> QED
    BY <1>1, <1>3, <2>1, CountsSame
<1> QED
  BY <1>2, <1>3

\* What the counters tell: whether there is a block outstanding, and whether it is the last.
LEMMA PageCount ==
  ASSUME MemoryInv, NEW p \in pageLive
  PROVE  /\ n_allocated_blocks[p] \in Nat
         /\ n_allocated_blocks[p] = 0 <=> \A x \in OutstandingBlocks : PageOf(x) # p
         /\ n_allocated_blocks[p] = 1 =>
               \A x, y \in OutstandingBlocks : PageOf(x) = p /\ PageOf(y) = p => x = y
<1> DEFINE S == InPage(OutstandingBlocks, p)
<1>1. S \in SUBSET Block /\ n_allocated_blocks[p] = Cardinality(S)
      /\ \A x : x \in S <=> x \in OutstandingBlocks /\ PageOf(x) = p
  BY OutFacts DEF MemoryInv, CountersExact, InPage
<1> HIDE DEF S
<1>2. IsFiniteSet(S) /\ Cardinality(S) \in Nat
  BY <1>1, BlocksFinite
<1>3. Cardinality(S) = 0 <=> S = {}
  BY <1>2, FS_EmptySet
<1>4. Cardinality(S) = 1 => \E x : S = {x}
  BY <1>2, FS_Singleton
<1> QED
  BY <1>1, <1>2, <1>3, <1>4

\* The same for a directory.
LEMMA DirCount ==
  ASSUME MemoryInv, NEW d \in dirs
  PROVE  /\ n_allocated_objects[d] \in Nat
         /\ n_allocated_objects[d] = 0 <=> \A x \in OutstandingBlocks : pageDir[PageOf(x)] # d
         /\ n_allocated_objects[d] = 1 =>
               \A x, y \in OutstandingBlocks : pageDir[PageOf(x)] = d /\ pageDir[PageOf(y)] = d => x = y
<1> DEFINE S == {x \in OutstandingBlocks : pageDir[PageOf(x)] = d}
<1>1. S \in SUBSET Block /\ n_allocated_objects[d] = Cardinality(S)
      /\ \A x : x \in S <=> x \in OutstandingBlocks /\ pageDir[PageOf(x)] = d
  BY OutFacts DEF MemoryInv, CountersExact
<1> HIDE DEF S
<1>2. IsFiniteSet(S) /\ Cardinality(S) \in Nat
  BY <1>1, BlocksFinite
<1>3. Cardinality(S) = 0 <=> S = {}
  BY <1>2, FS_EmptySet
<1>4. Cardinality(S) = 1 => \E x : S = {x}
  BY <1>2, FS_Singleton
<1> QED
  BY <1>1, <1>2, <1>3, <1>4

\* cleanup() ends, or drops what came in meanwhile.
LEMMA CleanupCheckCounts ==
  ASSUME MemoryInv, NEW t \in Thread, CleanupCheck(t)
  PROVE  CountersExact'
<1> USE DEF MemoryInv
<1> DEFINE d == target[t]
<1>1. d \in dirs
  BY DEF CleanupCheck, Cleaning, OwnerInv, Ownership
<1>2. UNCHANGED <<held, blk, taken, pageLive, pageDir>>
  BY DEF CleanupCheck, CleanupFrame
<1>3. CASE n_allocated_objects[d] = 0
  <2>1. /\ dirs' = dirs \ {d}
        /\ UNCHANGED <<n_allocated_blocks, n_allocated_objects, pending_chain>>
    BY <1>3 DEF CleanupCheck, CleanupDone
  <2>2. pending_chain[d] = {}
    <3>1. \A x \in pending_chain[d] : x \in OutstandingBlocks /\ pageDir[PageOf(x)] = d
      BY <1>1, OutMember DEF Places, PendingApart
    <3> QED
      BY <1>1, <1>3, <3>1, DirCount
  <2>3. OutstandingBlocks' = OutstandingBlocks
    BY <1>2, <2>1, <2>2, OutMember
  <2> QED
    BY <1>2, <2>1, <2>3, CountsSame
<1>4. CASE n_allocated_objects[d] # 0 /\ CleanupDone(d)
  <2>1. UNCHANGED <<dirs, n_allocated_blocks, n_allocated_objects, pending_chain>>
    BY <1>4 DEF CleanupCheck
  <2> QED
    BY <1>2, <2>1, OutUnchanged, CountsSame
<1>5. CASE n_allocated_objects[d] # 0 /\ ~CleanupDone(d)
  <2>1. dirs' = dirs /\ DropPending(d)
    BY <1>5 DEF CleanupCheck
  <2> QED
    BY <1>1, <1>2, <2>1, DropPendingCounts
<1> QED
  BY <1>3, <1>4, <1>5

\* Which actions change what is outstanding, and how the counters follow.
LEMMA CountersExactStep == ASSUME MemoryInv, [Next]_vars PROVE CountersExact'
<1>1. CASE UNCHANGED vars
  <2>1. UNCHANGED <<held, blk, dirs, pending_chain, taken, pageLive, pageDir, n_allocated_blocks, n_allocated_objects>>
    BY <1>1 DEF vars, dirVars, pageVars, threadVars
  <2> QED
    BY <2>1, OutUnchanged, CountsSame DEF MemoryInv
<1> SUFFICES ASSUME Next PROVE CountersExact'
  BY <1>1
<1> PICK t \in Thread : Step(t) \/ Call(t)
  BY DEF Next
<1>2. CASE \/ Register(t) \/ ChainEmpty(t) \/ CleanupSweep(t) \/ ReadCount(t) \/ WriteCount(t)
           \/ ScanStart(t) \/ ScanVisit(t) \/ ScanEnd(t) \/ Exit(t) \/ Spawn(t)
  <2>1. /\ UNCHANGED <<held, blk, dirs, pending_chain, taken, pageDir, n_allocated_blocks, n_allocated_objects>>
        /\ pageLive' \in SUBSET pageLive
    BY <1>2 DEF dirVars, pageVars, threadVars, CleanupFrame, Register, ChainEmpty, CleanupSweep, ReadCount, WriteCount, ScanStart, ScanVisit, ScanEnd, Exit, Spawn
  <2> QED
    BY <2>1, OutUnchanged, CountsSame DEF MemoryInv
<1>3. CASE CleanupStart(t)
  <2>1. target[t] \in dirs
    BY <1>3 DEF CleanupStart, Goto, Cleaning, MemoryInv, OwnerInv, Ownership
  <2>2. DropPending(target[t]) /\ UNCHANGED <<held, blk, taken, pageLive, pageDir, dirs>>
    BY <1>3 DEF CleanupStart, CleanupFrame
  <2> QED
    BY <2>1, <2>2, DropPendingCounts
<1> QED
  BY <1>2, <1>3, TakePendingCounts, DrainCounts, TakeFromChainCounts, CarveCounts, FreeCounts,
     FreeRemoteCounts, CleanupCheckCounts, BigCounts, ReallocToBigCounts, BeginAllocCounts
     DEF Step, Call

\* If the blocks outstanding are on live pages, the four places they can be in have it so.
LEMMA LivingFromOut ==
  ASSUME Types', MemoryTypes', \A x \in OutstandingBlocks' : PageOf(x) \in pageLive'
  PROVE  Living'
<1>1. \A b \in Block : held'[b] > 0 => b \in OutstandingBlocks'
  BY OutMember
<1>2. \A u \in Thread : blk'[u] # NULL => blk'[u] \in OutstandingBlocks'
  BY OutMember
<1>3. \A d \in dirs' : \A b \in pending_chain'[d] : b \in OutstandingBlocks'
  BY OutMember
<1>4. \A u \in Thread : \A b \in taken'[u] : b \in OutstandingBlocks'
  BY OutMember
<1> QED
  BY <1>1, <1>2, <1>3, <1>4 DEF Living

\* thread_free() puts its block nowhere but in the hands of the call.
LEMMA FreeLiving ==
  ASSUME MemoryInv, NEW t \in Thread, Free(t) \/ FreeOld(t)
  PROVE  Living'
<1> USE DEF MemoryInv
<1>1. PICK b \in Block :
         /\ BeginFree(t, b)
         /\ held' = [held EXCEPT ![b] = 0]
         /\ held[b] = 1 \/ blk[t] = b
         /\ UNCHANGED <<dirs, pending_chain, taken, ctx, pageLive, pageDir, pageChain>>
  BY FreedBlock
<1>2. PageOf(b) \in pageLive
  BY <1>1, PageOfType DEF Living
<1>3. \A x \in Block : held'[x] > 0 => held[x] > 0
  BY <1>1 DEF MemoryTypes
<1>4. \A u \in Thread : blk'[u] = NULL \/ blk'[u] = b \/ blk'[u] = blk[u]
  BY <1>1 DEF BeginFree, OwnerInv, Types
<1> QED
  BY <1>1, <1>2, <1>3, <1>4 DEF Living

\* A page goes back to free() when its counter says that nothing on it is outstanding.
LEMMA SweepLiving ==
  ASSUME MemoryInv, Types', MemoryTypes', NEW t \in Thread, CleanupSweep(t)
  PROVE  Living'
<1> USE DEF MemoryInv
<1>1. OutstandingBlocks' = OutstandingBlocks
  BY OutUnchanged DEF CleanupSweep, CleanupFrame
<1>2. target[t] \in dirs /\ ~terminated[target[t]]
  BY DEF CleanupSweep, Goto, Cleaning, OwnerInv, Ownership
<1>3. \A p \in Unused(target[t]) : p \in pageLive /\ n_allocated_blocks[p] = 0
  BY <1>2 DEF Unused, Listed
<1>4. \A x \in OutstandingBlocks : PageOf(x) \in pageLive /\ PageOf(x) \notin Unused(target[t])
  BY <1>3, OutFacts, PageCount
<1>5. pageLive' = pageLive \ Unused(target[t])
  BY DEF CleanupSweep
<1> QED
  BY <1>1, <1>4, <1>5, LivingFromOut

\* The last free of a page of a terminated directory gives it back.
LEMMA FreeRemoteLiving ==
  ASSUME MemoryInv, Types', MemoryTypes', NEW t \in Thread, FreeRemote(t)
  PROVE  Living'
<1> USE DEF MemoryInv
<1> PICK b, d : b = blk[t] /\ d = target[t]
  OBVIOUS
<1>1. /\ b \in OutstandingBlocks /\ b \in Block /\ PageOf(b) \in pageLive
      /\ terminated[d] => OutstandingBlocks' = OutstandingBlocks \ {b}
      /\ ~terminated[d] => OutstandingBlocks' = OutstandingBlocks
  BY RemoteFacts
<1>2. CASE terminated[d] /\ n_allocated_blocks[PageOf(b)] = 1
  <2>1. pageLive' = pageLive \ {PageOf(b)}
    BY <1>2 DEF FreeRemote
  <2>2. \A x \in OutstandingBlocks : PageOf(x) = PageOf(b) => x = b
    BY <1>1, <1>2, PageCount
  <2>3. \A x \in OutstandingBlocks' : x \in OutstandingBlocks /\ x # b
    BY <1>1, <1>2
  <2>4. \A x \in OutstandingBlocks' : PageOf(x) \in pageLive'
    BY <2>1, <2>2, <2>3, OutFacts
  <2> QED
    BY <2>4, LivingFromOut
<1>3. CASE ~(terminated[d] /\ n_allocated_blocks[PageOf(b)] = 1)
  <2>1. pageLive' = pageLive
    BY <1>3 DEF FreeRemote
  <2>2. \A x \in OutstandingBlocks' : x \in OutstandingBlocks
    BY <1>1
  <2>3. \A x \in OutstandingBlocks' : PageOf(x) \in pageLive'
    BY <2>1, <2>2, OutFacts
  <2> QED
    BY <2>3, LivingFromOut
<1> QED
  BY <1>2, <1>3

\* Every action leaves what is outstanding on live pages.
LEMMA LivingStep == ASSUME MemoryInv, Types', MemoryTypes', [Next]_vars PROVE Living'
<1> USE ThreadAllocAssumption, PageOfType DEF MemoryInv, OwnerInv, Types, MemoryTypes, Stages, Ownership, Locals, Living, Unheld,
       InAlloc, Cleaning, PC, pageVars, dirVars, threadVars, winVars, countVars, listVars
<1> SUFFICES ASSUME Next PROVE Living'
  BY DEF vars
<1> PICK t \in Thread : Step(t) \/ Call(t)
  BY DEF Next
<1>1. CASE Register(t)
  BY <1>1 DEF Register, Goto
<1>2. CASE TakePending(t)
  BY <1>2 DEF TakePending, Goto
<1>3. CASE Drain(t)
  BY <1>3 DEF Drain, Goto
<1>4. CASE TakeFromChain(t)
  <2> PICK b \in chain[ctx[t]][want[t]] : HandOut(t, b)
    BY <1>4 DEF TakeFromChain
  <2>1. b \in Block /\ PageOf(b) \in pageLive
    <3>1. ctx[t] \in Dir /\ ctx[t] # NULL /\ want[t] \in Chain
      BY <1>4, InAllocFacts DEF TakeFromChain
    <3> QED
      BY <3>1, ChainType DEF Places, ChainsApart
  <2> QED
    BY <1>4, <2>1 DEF TakeFromChain, HandOut, Give
<1>5. CASE ChainEmpty(t)
  BY <1>5 DEF ChainEmpty, Goto
<1>6. CASE Carve(t)
  <2> PICK p \in Page \ pageLive, s \in Slots : pageLive' = pageLive \cup {p} /\ Give(<<p, s>>)
    BY <1>6 DEF Carve
  <2>1. <<p, s>> \in Block /\ PageOf(<<p, s>>) = p
    BY DEF Block, PageOf
  <2>2. \A x \in Block : held'[x] > 0 => held[x] > 0 \/ x = <<p, s>>
    BY <2>1 DEF Give
  <2>3. UNCHANGED <<blk, dirs, pending_chain, taken>>
    BY <1>6 DEF Carve
  <2> QED
    BY <2>1, <2>2, <2>3
<1>7. CASE FreeOld(t)
  BY <1>7, FreeLiving
<1>8. CASE FreeRemote(t)
  BY <1>8, FreeRemoteLiving
<1>9. CASE CleanupStart(t)
  BY <1>9 DEF CleanupStart, Goto, DropPending, CleanupFrame
<1>10. CASE CleanupSweep(t)
  BY <1>10, SweepLiving
<1>11. CASE CleanupCheck(t)
  BY <1>11 DEF CleanupCheck, Goto, CleanupDone, DropPending, CleanupFrame
<1>12. CASE ReadCount(t)
  BY <1>12 DEF ReadCount, Goto
<1>13. CASE WriteCount(t)
  BY <1>13 DEF WriteCount, Goto
<1>14. CASE ScanStart(t)
  BY <1>14 DEF ScanStart, Goto
<1>15. CASE ScanVisit(t)
  BY <1>15 DEF ScanVisit, Goto, ThreadEnded
<1>16. CASE ScanEnd(t)
  BY <1>16 DEF ScanEnd, Goto
<1>17. CASE Free(t)
  BY <1>17, FreeLiving
<1>18. CASE AllocBig(t)
  <2>1. \A b \in Block : held'[b] = held[b]
    BY <1>18 DEF AllocBig, FreeBig, ReallocBig, HeldBig, Give, Take
  <2> QED
    BY <1>18, <2>1 DEF AllocBig, FreeBig, ReallocBig
<1>19. CASE FreeBig(t)
  <2>1. \A b \in Block : held'[b] = held[b]
    BY <1>19 DEF AllocBig, FreeBig, ReallocBig, HeldBig, Give, Take
  <2> QED
    BY <1>19, <2>1 DEF AllocBig, FreeBig, ReallocBig
<1>20. CASE ReallocBig(t)
  <2>1. \A b \in Block : held'[b] = held[b]
    BY <1>20 DEF AllocBig, FreeBig, ReallocBig, HeldBig, Give, Take
  <2> QED
    BY <1>20, <2>1 DEF AllocBig, FreeBig, ReallocBig
<1>21. CASE ReallocToBig(t)
  BY <1>21 DEF ReallocToBig, Goto, Held, HeldBig
<1>22. CASE Exit(t)
  BY <1>22 DEF Exit, Goto, SlotAfterExit
<1>23. CASE Spawn(t)
  BY <1>23 DEF Spawn, Goto
<1>24. ASSUME NEW c \in Chain, Alloc(t, c) PROVE Living'
  <2>1. UNCHANGED <<held, blk, taken, pageLive>> /\ BeginAlloc(t, c)
    BY <1>24 DEF Alloc
  <2>2. CASE UNCHANGED <<dirs, pending_chain>>
    BY <2>1, <2>2
  <2>3. CASE ~UNCHANGED <<dirs, pending_chain>>
    <3> PICK d \in Dir \ dirs : dirs' = dirs \cup {d} /\ pending_chain' = [pending_chain EXCEPT ![d] = {}]
      BY <2>1, <2>3 DEF BeginAlloc
    <3> QED
      BY <2>1
  <2> QED
    BY <2>2, <2>3
<1>25. ASSUME NEW c \in Chain, Realloc(t, c) PROVE Living'
  BY <1>25 DEF Realloc, BeginAlloc, Held, Take
<1> QED
  BY <1>1, <1>2, <1>3, <1>4, <1>5, <1>6, <1>7, <1>8, <1>9, <1>10, <1>11, <1>12, <1>13, <1>14, <1>15, <1>16, <1>17, <1>18, <1>19, <1>20, <1>21, <1>22, <1>23, <1>24, <1>25 DEF Step, Call

-----------------------------------------------------------------------------
(* The lists, and what follows. *)

\* What happens to a directory that somebody owns shows on its own pages only.
LEMMA OwnPages ==
  ASSUME MemoryInv, NEW d \in dirs, ~terminated[d],
         \A u \in Thread : pc'[u] = "check" => pc[u] = "check" /\ target'[u] = target[u] /\ target[u] # d,
         UNCHANGED <<dirs, pageLive, pageDir, pages, terminated>>,
         \A e \in dirs : e # d => /\ pending_chain'[e] = pending_chain[e]
                                  /\ n_allocated_objects'[e] = n_allocated_objects[e],
         \A p \in pageLive : pageDir[p] # d => n_allocated_blocks'[p] = n_allocated_blocks[p]
  PROVE  Listed'
<1> USE DEF MemoryInv, Listed
<1>1. \A p \in pageLive' : pageDir'[p] \in dirs' /\ p \in pages'[pageDir'[p]]
  OBVIOUS
<1>2. \A e \in dirs' : ~terminated'[e] => \A p \in pages'[e] : p \in pageLive' /\ pageDir'[p] = e
  OBVIOUS
<1>3. ASSUME NEW e \in dirs', terminated'[e]
      PROVE  /\ pending_chain'[e] = {} /\ n_allocated_objects'[e] > 0
             /\ \A p \in pageLive' : pageDir'[p] = e => n_allocated_blocks'[p] > 0
  <2>1. e # d /\ e \in dirs /\ terminated[e]
    BY <1>3
  <2> QED
    BY <2>1
<1>4. ASSUME NEW u \in Thread, pc'[u] = "check", NEW p \in pageLive', pageDir'[p] = target'[u]
      PROVE  n_allocated_blocks'[p] > 0
  <2>1. pc[u] = "check" /\ target'[u] = target[u] /\ target[u] # d
    BY <1>4
  <2>2. p \in pageLive /\ pageDir[p] = target[u] /\ pageDir[p] # d
    BY <1>4, <2>1
  <2>3. n_allocated_blocks'[p] = n_allocated_blocks[p] /\ n_allocated_blocks[p] > 0
    BY <2>1, <2>2
  <2> QED
    BY <2>3
<1> QED
  BY <1>1, <1>2, <1>3, <1>4

\* Blocks of one directory do not count on the pages of another.
LEMMA LessBlocksOther ==
  ASSUME MemoryTypes, NEW S \in SUBSET Block, NEW d, \A b \in S : pageDir[PageOf(b)] = d
  PROVE  \A p \in Page : pageDir[p] # d => LessBlocks(S)[p] = n_allocated_blocks[p]
<1> SUFFICES ASSUME NEW p \in Page, pageDir[p] # d
             PROVE  LessBlocks(S)[p] = n_allocated_blocks[p]
  OBVIOUS
<1>1. InPage(S, p) = {}
  BY DEF InPage
<1>2. LessBlocks(S)[p] = n_allocated_blocks[p] - 0
  BY <1>1, LessBlocksType, FS_EmptySet
<1> QED
  BY <1>2 DEF MemoryTypes

\* cleanup() drops the pending blocks of the directory it has to itself.
LEMMA DropPendingListed ==
  ASSUME MemoryInv, NEW t \in Thread, Cleaning(t), DropPending(target[t]), pc' = [pc EXCEPT ![t] = "sweep"],
         UNCHANGED <<dirs, pageLive, pageDir, pages, terminated, target>>
  PROVE  Listed'
<1> USE DEF MemoryInv
<1> PICK d : d = target[t]
  OBVIOUS
<1>1. d \in dirs /\ d \in Dir /\ ~terminated[d]
  BY DEF OwnerInv, Types, Ownership
<1>2. \A u \in Thread : pc'[u] = "check" => pc[u] = "check" /\ target'[u] = target[u] /\ target[u] # d
  BY DEF OwnerInv, Types, Ownership, Cleaning
<1>3. \A e \in dirs : e # d => /\ pending_chain'[e] = pending_chain[e]
                               /\ n_allocated_objects'[e] = n_allocated_objects[e]
  BY DEF DropPending, OwnerInv, Types, MemoryTypes
<1>4. pending_chain[d] \in SUBSET Block /\ \A b \in pending_chain[d] : pageDir[PageOf(b)] = d
  BY <1>1 DEF MemoryTypes, Places, PendingApart
<1>5. \A p \in pageLive : pageDir[p] # d => n_allocated_blocks'[p] = n_allocated_blocks[p]
  BY <1>4, LessBlocksOther DEF DropPending, MemoryTypes
<1> QED
  BY <1>1, <1>2, <1>3, <1>5, OwnPages

\* process_pending_requests() touches the pages of its own directory.
LEMMA DrainListed ==
  ASSUME MemoryInv, NEW t \in Thread, Drain(t)
  PROVE  Listed'
<1> USE DEF MemoryInv
<1> PICK d : d = ctx[t]
  OBVIOUS
<1>1. d \in dirs /\ d \in Dir /\ ~terminated[d] /\ d # NULL
  BY InAllocFacts DEF Drain, Goto, InAlloc
<1>2. \A u \in Thread : pc'[u] = "check" => pc[u] = "check" /\ target'[u] = target[u] /\ target[u] # d
  BY <1>1 DEF Drain, Goto, OwnerInv, Types, Ownership, Cleaning
<1>3. \A e \in dirs : e # d => /\ pending_chain'[e] = pending_chain[e]
                               /\ n_allocated_objects'[e] = n_allocated_objects[e]
  BY DEF Drain, OwnerInv, Types, MemoryTypes
<1>4. taken[t] \in SUBSET Block /\ \A b \in taken[t] : pageDir[PageOf(b)] = d
  BY <1>1 DEF MemoryTypes, Places, TakenApart
<1>5. \A p \in pageLive : pageDir[p] # d => n_allocated_blocks'[p] = n_allocated_blocks[p]
  BY <1>4, LessBlocksOther DEF Drain, MemoryTypes
<1>6. UNCHANGED <<dirs, pageLive, pageDir, pages, terminated>>
  BY DEF Drain
<1> QED
  BY <1>1, <1>2, <1>3, <1>5, <1>6, OwnPages

\* thread_alloc() counts a block on a page of its own directory.
LEMMA TakeFromChainListed ==
  ASSUME MemoryInv, NEW t \in Thread, TakeFromChain(t)
  PROVE  Listed'
<1> USE DEF MemoryInv
<1> PICK d : d = ctx[t]
  OBVIOUS
<1>1. d \in dirs /\ d \in Dir /\ ~terminated[d] /\ d # NULL /\ want[t] \in Chain
  BY InAllocFacts DEF TakeFromChain, InAlloc
<1>2. PICK b \in chain[d][want[t]] : HandOut(t, b)
  BY DEF TakeFromChain
<1>3. pageDir[PageOf(b)] = d /\ PageOf(b) \in Page
  <2>1. b \in chain[ctx[t]][want[t]] /\ ctx[t] # NULL
    BY <1>1, <1>2
  <2>2. b \in Block
    BY <1>1, <2>1, ChainType
  <2> QED
    BY <1>1, <2>1, <2>2, PageOfType DEF Places, ChainsApart
<1>4. \A u \in Thread : pc'[u] = "check" => pc[u] = "check" /\ target'[u] = target[u] /\ target[u] # d
  BY <1>1, <1>2 DEF TakeFromChain, HandOut, OwnerInv, Types, Ownership, Cleaning
<1>5. \A e \in dirs : e # d => /\ pending_chain'[e] = pending_chain[e]
                               /\ n_allocated_objects'[e] = n_allocated_objects[e]
  BY <1>2 DEF TakeFromChain, HandOut, OwnerInv, Types, MemoryTypes
<1>6. \A p \in pageLive : pageDir[p] # d => n_allocated_blocks'[p] = n_allocated_blocks[p]
  BY <1>2, <1>3 DEF HandOut, MemoryTypes
<1>7. UNCHANGED <<dirs, pageLive, pageDir, pages, terminated>>
  BY DEF TakeFromChain
<1> QED
  BY <1>1, <1>4, <1>5, <1>6, <1>7, OwnPages

\* thread_free() uncounts a block of its own directory, or none.
LEMMA FreeListed ==
  ASSUME MemoryInv, NEW t \in Thread, Free(t) \/ FreeOld(t)
  PROVE  Listed'
<1> USE DEF MemoryInv
<1>1. PICK b \in Block :
         /\ BeginFree(t, b)
         /\ held[b] = 1 \/ blk[t] = b
         /\ UNCHANGED <<dirs, pending_chain, pageLive, pageDir>>
  BY FreedBlock
<1>2. UNCHANGED <<pages, terminated>>
  BY DEF Free, FreeOld, FreeFrame
<1>3. PageOf(b) \in pageLive /\ PageOf(b) \in Page /\ pageDir[PageOf(b)] \in dirs
  BY <1>1, PageOfType DEF Living, Listed
<1> PICK d : d = pageDir[PageOf(b)]
  OBVIOUS
<1>4. CASE d = ctx[t]
  <2>1. d \in dirs /\ d \in Dir /\ d # NULL /\ ~terminated[d]
    BY <1>3, <1>4, ThreadAllocAssumption DEF OwnerInv, Types, Ownership
  <2>2. /\ n_allocated_blocks' = [n_allocated_blocks EXCEPT ![PageOf(b)] = @ - 1]
        /\ n_allocated_objects' = [n_allocated_objects EXCEPT ![d] = @ - 1]
        /\ pc' = [pc EXCEPT ![t] = "run"] /\ UNCHANGED target
    BY <1>1, <1>4 DEF BeginFree
  <2>3. \A u \in Thread : pc'[u] = "check" => pc[u] = "check" /\ target'[u] = target[u] /\ target[u] # d
    BY <1>4, <2>1, <2>2 DEF OwnerInv, Types, Ownership, Cleaning
  <2>4. \A e \in dirs : e # d => n_allocated_objects'[e] = n_allocated_objects[e]
    BY <2>2 DEF OwnerInv, Types, MemoryTypes
  <2>5. \A p \in pageLive : pageDir[p] # d => n_allocated_blocks'[p] = n_allocated_blocks[p]
    BY <2>2, <1>3 DEF MemoryTypes
  <2> QED
    BY <1>1, <1>2, <2>1, <2>3, <2>4, <2>5, OwnPages
<1>5. CASE d # ctx[t]
  <2>1. /\ UNCHANGED <<n_allocated_blocks, n_allocated_objects>>
        /\ pc' = [pc EXCEPT ![t] = "remote"] /\ target' = [target EXCEPT ![t] = d]
    BY <1>1, <1>5 DEF BeginFree
  <2>2. \A u \in Thread : pc'[u] = "check" => pc[u] = "check" /\ target'[u] = target[u]
    BY <2>1 DEF OwnerInv, Types
  <2> QED
    BY <1>1, <1>2, <2>1, <2>2 DEF Listed
<1> QED
  BY <1>4, <1>5

\* The last free of a terminated directory leaves no page of it behind.
LEMMA FreeRemoteListed ==
  ASSUME MemoryInv, NEW t \in Thread, FreeRemote(t)
  PROVE  Listed'
<1> USE DEF MemoryInv
<1> PICK b, d, q : b = blk[t] /\ d = target[t] /\ q = PageOf(b)
  OBVIOUS
<1>1. /\ b \in OutstandingBlocks /\ b \in Block /\ q \in pageLive /\ q \in Page
      /\ d = pageDir[q] /\ d \in dirs /\ d \in Dir
  BY RemoteFacts, PageOfType
<1>2. /\ pc' = [pc EXCEPT ![t] = "run"] /\ target' = [target EXCEPT ![t] = NULL]
      /\ UNCHANGED <<terminated, pages, pageDir>>
  BY DEF FreeRemote, Goto
<1>3. \A u \in Thread : pc'[u] = "check" => pc[u] = "check" /\ target'[u] = target[u]
  BY <1>2 DEF OwnerInv, Types
<1>4. CASE ~terminated[d]
  <2>1. /\ pending_chain' = [pending_chain EXCEPT ![d] = @ \cup {b}]
        /\ UNCHANGED <<n_allocated_blocks, n_allocated_objects, pageLive, dirs>>
    BY <1>4 DEF FreeRemote
  <2>2. \A e \in dirs : terminated[e] => pending_chain'[e] = pending_chain[e]
    BY <1>4, <2>1 DEF OwnerInv, Types, MemoryTypes
  <2> QED
    BY <1>2, <1>3, <2>1, <2>2 DEF Listed
<1>5. CASE terminated[d]
  <2>1. /\ n_allocated_blocks' = [n_allocated_blocks EXCEPT ![q] = @ - 1]
        /\ pageLive' = IF n_allocated_blocks[q] = 1 THEN pageLive \ {q} ELSE pageLive
        /\ n_allocated_objects' = [n_allocated_objects EXCEPT ![d] = @ - 1]
        /\ dirs' = IF n_allocated_objects[d] = 1 THEN dirs \ {d} ELSE dirs
        /\ UNCHANGED pending_chain
    BY <1>5 DEF FreeRemote
  <2>2. \A p \in pageLive : p # q => n_allocated_blocks'[p] = n_allocated_blocks[p]
    BY <2>1 DEF MemoryTypes
  <2>3. n_allocated_blocks[q] \in Nat /\ n_allocated_blocks[q] > 0
    BY <1>1, <1>5, PageCount DEF Listed
  <2>4. q \in pageLive' => n_allocated_blocks'[q] > 0
    BY <1>1, <2>1, <2>3 DEF MemoryTypes
  <2>5. ASSUME n_allocated_objects[d] = 1 PROVE \A p \in pageLive' : pageDir[p] # d
    <3> SUFFICES ASSUME NEW p \in pageLive', pageDir[p] = d PROVE FALSE
      OBVIOUS
    <3>1. p \in pageLive /\ n_allocated_blocks[p] > 0
      BY <1>1, <1>5, <2>1 DEF Listed
    <3>2. PICK x \in OutstandingBlocks : PageOf(x) = p
      BY <3>1, PageCount
    <3>3. \A y \in OutstandingBlocks : pageDir[PageOf(y)] = d => y = b
      BY <1>1, <2>5, DirCount
    <3>4. p = q
      BY <3>2, <3>3
    <3>5. n_allocated_blocks[q] # 1
      BY <2>1, <3>4
    <3> DEFINE S == InPage(OutstandingBlocks, q)
    <3>6. S = {b}
      <4>1. \A y \in S : y = b
        BY <1>1, <3>3 DEF InPage
      <4>2. b \in S
        BY <1>1 DEF InPage
      <4> HIDE DEF S
      <4> QED
        BY <4>1, <4>2
    <3>7. n_allocated_blocks[q] = Cardinality(S)
      BY <1>1 DEF CountersExact
    <3> HIDE DEF S
    <3> QED
      BY <3>5, <3>6, <3>7, FS_Singleton
  <2>6. n_allocated_objects[d] \in Nat /\ n_allocated_objects[d] > 0
    BY <1>1, <1>5, DirCount DEF Listed
  <2>7. \A e \in dirs' : e # d => n_allocated_objects'[e] = n_allocated_objects[e]
    BY <2>1 DEF OwnerInv, Types, MemoryTypes
  <2>8. d \in dirs' => n_allocated_objects'[d] > 0
    BY <1>1, <2>1, <2>6 DEF MemoryTypes
  <2>9. \A p \in pageLive' : p \in pageLive /\ pageDir[p] \in dirs' /\ p \in pages[pageDir[p]]
    BY <2>1, <2>5 DEF Listed
  <2>10. \A e \in dirs' : ~terminated[e] => \A p \in pages[e] : p \in pageLive' /\ pageDir[p] = e
    BY <1>1, <1>5, <2>1 DEF Listed
  <2>11. \A p \in pageLive' : n_allocated_blocks[p] > 0 => n_allocated_blocks'[p] > 0
    BY <2>2, <2>4, <2>9
  <2>12. dirs' \in SUBSET dirs
    BY <2>1
  <2>13. \A e \in dirs' : terminated[e] =>
            /\ pending_chain'[e] = {} /\ n_allocated_objects'[e] > 0
            /\ \A p \in pageLive' : pageDir[p] = e => n_allocated_blocks'[p] > 0
    BY <2>1, <2>7, <2>8, <2>9, <2>11, <2>12 DEF Listed
  <2>14. \A u \in Thread : pc'[u] = "check" =>
            \A p \in pageLive' : pageDir[p] = target'[u] => n_allocated_blocks'[p] > 0
    BY <1>3, <2>9, <2>11 DEF Listed
  <2> QED
    BY <1>2, <2>9, <2>10, <2>13, <2>14 DEF Listed
<1> QED
  BY <1>4, <1>5

\* A new page enters the list of its directory.
LEMMA CarveListed ==
  ASSUME MemoryInv, NEW t \in Thread, Carve(t)
  PROVE  Listed'
<1> USE DEF MemoryInv
<1> PICK d : d = ctx[t]
  OBVIOUS
<1>1. d \in dirs /\ d \in Dir /\ ~terminated[d] /\ d # NULL
  BY InAllocFacts DEF Carve, InAlloc
<1>2. PICK q \in Page \ pageLive :
         /\ pageLive' = pageLive \cup {q}
         /\ pageDir' = [pageDir EXCEPT ![q] = d]
         /\ pages' = [pages EXCEPT ![d] = @ \cup {q}]
         /\ n_allocated_blocks' = [n_allocated_blocks EXCEPT ![q] = 1]
         /\ n_allocated_objects' = [n_allocated_objects EXCEPT ![d] = @ + 1]
         /\ UNCHANGED <<dirs, pending_chain, terminated>>
  BY DEF Carve
<1>3. \A u \in Thread : pc'[u] = "check" => pc[u] = "check" /\ target'[u] = target[u] /\ target[u] # d
  BY <1>1 DEF Carve, OwnerInv, Types, Ownership, Cleaning
<1>4. \A e \in dirs : /\ pages'[e] = (IF e = d THEN pages[e] \cup {q} ELSE pages[e])
                      /\ e # d => n_allocated_objects'[e] = n_allocated_objects[e]
  BY <1>2 DEF OwnerInv, Types, MemoryTypes
<1>5. /\ pageDir'[q] = d /\ n_allocated_blocks'[q] = 1
      /\ \A p \in pageLive : pageDir'[p] = pageDir[p] /\ n_allocated_blocks'[p] = n_allocated_blocks[p]
  BY <1>2 DEF OwnerInv, Types, MemoryTypes
<1>6. ASSUME NEW p \in pageLive' PROVE pageDir'[p] \in dirs /\ p \in pages'[pageDir'[p]]
  <2>1. CASE p = q
    BY <1>1, <1>4, <1>5, <2>1
  <2>2. CASE p # q
    <3>1. p \in pageLive
      BY <1>2, <2>2
    <3> PICK e : e = pageDir[p]
      OBVIOUS
    <3>2. pageDir'[p] = e /\ e \in dirs /\ p \in pages[e]
      BY <1>5, <3>1 DEF Listed
    <3> QED
      BY <1>4, <3>2
  <2> QED
    BY <2>1, <2>2
<1>7. \A e \in dirs : ~terminated[e] => \A p \in pages'[e] : p \in pageLive' /\ pageDir'[p] = e
  BY <1>2, <1>4, <1>5 DEF Listed
<1>8. \A e \in dirs : terminated[e] =>
         /\ pending_chain[e] = {} /\ n_allocated_objects'[e] > 0
         /\ \A p \in pageLive' : pageDir'[p] = e => n_allocated_blocks'[p] > 0
  BY <1>1, <1>2, <1>4, <1>5 DEF Listed
<1>9. \A u \in Thread : pc'[u] = "check" =>
         \A p \in pageLive' : pageDir'[p] = target'[u] => n_allocated_blocks'[p] > 0
  BY <1>2, <1>3, <1>5 DEF Listed
<1> QED
  BY <1>2, <1>6, <1>7, <1>8, <1>9 DEF Listed

\* A new directory has no page.
LEMMA BeginAllocListed ==
  ASSUME MemoryInv, NEW t \in Thread, NEW c \in Chain, Alloc(t, c) \/ Realloc(t, c)
  PROVE  Listed'
<1> USE DEF MemoryInv
<1>1. BeginAlloc(t, c) /\ UNCHANGED <<pageLive, pageDir, n_allocated_blocks, target>>
  BY DEF Alloc, Realloc, pageVars
<1>2. \A u \in Thread : pc'[u] = "check" => pc[u] = "check" /\ target'[u] = target[u]
  BY <1>1 DEF BeginAlloc, OwnerInv, Types
<1>3. CASE UNCHANGED dirVars
  BY <1>1, <1>2, <1>3 DEF dirVars, Listed
<1>4. CASE ~UNCHANGED dirVars
  <2>1. PICK d \in Dir \ dirs :
           /\ dirs' = dirs \cup {d}
           /\ pending_chain' = [pending_chain EXCEPT ![d] = {}]
           /\ n_allocated_objects' = [n_allocated_objects EXCEPT ![d] = 0]
           /\ terminated' = [terminated EXCEPT ![d] = FALSE]
           /\ pages' = [pages EXCEPT ![d] = {}]
    BY <1>1, <1>4 DEF BeginAlloc
  <2>2. \A e \in dirs : UNCHANGED <<pending_chain[e], n_allocated_objects[e], terminated[e], pages[e]>>
    BY <2>1 DEF OwnerInv, Types, MemoryTypes
  <2>3. terminated'[d] = FALSE /\ pages'[d] = {}
    BY <2>1 DEF OwnerInv, Types, MemoryTypes
  <2>4. \A p \in pageLive' : pageDir'[p] \in dirs' /\ p \in pages'[pageDir'[p]]
    BY <1>1, <2>1, <2>2 DEF Listed
  <2>5. \A e \in dirs' : ~terminated'[e] => \A p \in pages'[e] : p \in pageLive' /\ pageDir'[p] = e
    BY <1>1, <2>1, <2>2, <2>3 DEF Listed
  <2>6. \A e \in dirs' : terminated'[e] =>
           /\ pending_chain'[e] = {} /\ n_allocated_objects'[e] > 0
           /\ \A p \in pageLive' : pageDir'[p] = e => n_allocated_blocks'[p] > 0
    BY <1>1, <2>1, <2>2, <2>3 DEF Listed
  <2>7. \A u \in Thread : pc'[u] = "check" =>
           \A p \in pageLive' : pageDir'[p] = target'[u] => n_allocated_blocks'[p] > 0
    BY <1>1, <1>2 DEF Listed
  <2> QED
    BY <2>4, <2>5, <2>6, <2>7 DEF Listed
<1> QED
  BY <1>3, <1>4

\* The sweep leaves the pages in use ...
LEMMA SweepListed ==
  ASSUME MemoryInv, NEW t \in Thread, CleanupSweep(t)
  PROVE  Listed'
<1> USE DEF MemoryInv
<1> PICK d, S : d = target[t] /\ S = Unused(d)
  OBVIOUS
<1>1. d \in dirs /\ d \in Dir /\ ~terminated[d]
  BY DEF CleanupSweep, Goto, Cleaning, OwnerInv, Types, Ownership
<1>2. /\ \A p : p \in S <=> p \in pages[d] /\ n_allocated_blocks[p] = 0
      /\ \A p \in S : p \in pageLive /\ pageDir[p] = d
  BY <1>1 DEF Unused, Listed
<1>3. /\ pageLive' = pageLive \ S
      /\ pages' = [pages EXCEPT ![d] = @ \ S]
      /\ UNCHANGED <<dirs, pending_chain, n_allocated_objects, terminated, n_allocated_blocks, target, pageDir>>
      /\ pc' = [pc EXCEPT ![t] = "check"]
  BY DEF CleanupSweep, CleanupFrame, Goto
<1>4. \A e \in dirs : pages'[e] = IF e = d THEN pages[e] \ S ELSE pages[e]
  BY <1>3 DEF OwnerInv, Types, MemoryTypes
<1>5. \A p \in pageLive' : pageDir[p] \in dirs /\ p \in pages'[pageDir[p]]
  BY <1>3, <1>4 DEF Listed
<1>6. \A e \in dirs : ~terminated[e] => \A p \in pages'[e] : p \in pageLive' /\ pageDir[p] = e
  BY <1>2, <1>3, <1>4 DEF Listed
<1>7. \A p \in pageLive' : pageDir[p] = d => n_allocated_blocks[p] > 0
  BY <1>2, <1>3, PageCount DEF Listed
<1>8. \A u \in Thread : pc'[u] = "check" => u = t \/ pc[u] = "check"
  BY <1>3 DEF OwnerInv, Types
<1>9. \A u \in Thread : pc'[u] = "check" =>
         \A p \in pageLive' : pageDir[p] = target[u] => n_allocated_blocks[p] > 0
  BY <1>3, <1>7, <1>8 DEF Listed
<1> QED
  BY <1>3, <1>5, <1>6, <1>9 DEF Listed

\* ... so that a directory without a block outstanding has no page when it goes.
LEMMA CheckListed ==
  ASSUME MemoryInv, NEW t \in Thread, CleanupCheck(t)
  PROVE  Listed'
<1> USE DEF MemoryInv
<1> PICK d : d = target[t]
  OBVIOUS
<1>1. d \in dirs /\ d \in Dir /\ ~terminated[d] /\ pc[t] = "check" /\ Cleaning(t)
  BY DEF CleanupCheck, Cleaning, OwnerInv, Types, Ownership
<1>2. UNCHANGED <<pages, pageLive, pageDir>>
  BY DEF CleanupCheck, CleanupFrame
<1>3. \A p \in pageLive : pageDir[p] = d => n_allocated_blocks[p] > 0
  BY <1>1 DEF Listed
<1>4. CASE ~CleanupDone(d)
  <2>1. /\ DropPending(d) /\ pc' = [pc EXCEPT ![t] = "sweep"] /\ target' = target
        /\ n_allocated_objects[d] # 0
    BY <1>4 DEF CleanupCheck, CleanupDone
  <2>2. dirs' = dirs /\ terminated' = terminated
    BY <1>1, <1>4, <2>1 DEF CleanupCheck, OwnerInv, Types
  <2> QED
    BY <1>1, <1>2, <2>1, <2>2, DropPendingListed
<1>5. CASE CleanupDone(d)
  <2>1. /\ UNCHANGED <<n_allocated_blocks, n_allocated_objects, pending_chain>>
        /\ dirs' = IF n_allocated_objects[d] = 0 THEN dirs \ {d} ELSE dirs
        /\ terminated' = [terminated EXCEPT ![d] = n_allocated_objects[d] # 0]
        /\ target' = [target EXCEPT ![t] = NULL]
        /\ pc' = [pc EXCEPT ![t] = IF Win32 THEN "scan" ELSE "dead"]
    BY <1>5 DEF CleanupCheck
  <2>2. \A u \in Thread : pc'[u] = "check" => pc[u] = "check" /\ target'[u] = target[u]
    BY <2>1 DEF OwnerInv, Types
  <2>3. \A e \in dirs' : e \in dirs /\ terminated'[e] = (IF e = d THEN n_allocated_objects[d] # 0 ELSE terminated[e])
    BY <1>1, <2>1 DEF OwnerInv, Types
  <2>4. n_allocated_objects[d] = 0 => \A p \in pageLive : pageDir[p] # d
    <3> SUFFICES ASSUME n_allocated_objects[d] = 0, NEW p \in pageLive, pageDir[p] = d PROVE FALSE
      OBVIOUS
    <3>1. PICK x \in OutstandingBlocks : PageOf(x) = p
      BY <1>3, PageCount
    <3> QED
      BY <1>1, <3>1, DirCount
  <2>5. n_allocated_objects[d] # 0 => n_allocated_objects[d] > 0 /\ pending_chain[d] = {}
    BY <1>1, <1>5, DirCount DEF CleanupDone
  <2>6. \A p \in pageLive' : pageDir'[p] \in dirs' /\ p \in pages'[pageDir'[p]]
    BY <1>2, <2>1, <2>4 DEF Listed
  <2>7. \A e \in dirs' : ~terminated'[e] => \A p \in pages'[e] : p \in pageLive' /\ pageDir'[p] = e
    BY <1>1, <1>2, <2>3 DEF Listed
  <2>8. \A e \in dirs' : terminated'[e] =>
           /\ pending_chain'[e] = {} /\ n_allocated_objects'[e] > 0
           /\ \A p \in pageLive' : pageDir'[p] = e => n_allocated_blocks'[p] > 0
    BY <1>2, <1>3, <2>1, <2>3, <2>5 DEF Listed
  <2>9. \A u \in Thread : pc'[u] = "check" =>
           \A p \in pageLive' : pageDir'[p] = target'[u] => n_allocated_blocks'[p] > 0
    BY <1>2, <2>1, <2>2 DEF Listed
  <2> QED
    BY <2>6, <2>7, <2>8, <2>9 DEF Listed
<1> QED
  BY <1>4, <1>5

\* The first section of cleanup().
LEMMA CleanupStartListed ==
  ASSUME MemoryInv, NEW t \in Thread, CleanupStart(t)
  PROVE  Listed'
  BY DropPendingListed DEF CleanupStart, CleanupFrame, Goto, Cleaning

\* Every action keeps the pages on the lists.
LEMMA ListedStep == ASSUME MemoryInv, [Next]_vars PROVE Listed'
<1> USE ThreadAllocAssumption DEF MemoryInv, OwnerInv, Types, MemoryTypes, Stages, Ownership, Listed,
       InAlloc, Cleaning, PC, pageVars, dirVars, threadVars, winVars, countVars, listVars
<1> SUFFICES ASSUME Next PROVE Listed'
  BY DEF vars
<1> PICK t \in Thread : Step(t) \/ Call(t)
  BY DEF Next
<1>1. CASE Register(t)
  BY <1>1 DEF Register, Goto
<1>2. CASE TakePending(t)
  BY <1>2 DEF TakePending, Goto
<1>3. CASE Drain(t)
  BY <1>3, DrainListed
<1>4. CASE TakeFromChain(t)
  BY <1>4, TakeFromChainListed
<1>5. CASE ChainEmpty(t)
  BY <1>5 DEF ChainEmpty, Goto
<1>6. CASE Carve(t)
  BY <1>6, CarveListed
<1>7. CASE FreeOld(t)
  BY <1>7, FreeListed
<1>8. CASE FreeRemote(t)
  BY <1>8, FreeRemoteListed
<1>9. CASE CleanupStart(t)
  BY <1>9, CleanupStartListed
<1>10. CASE CleanupSweep(t)
  BY <1>10, SweepListed
<1>11. CASE CleanupCheck(t)
  BY <1>11, CheckListed
<1>12. CASE ReadCount(t)
  BY <1>12 DEF ReadCount, Goto
<1>13. CASE WriteCount(t)
  BY <1>13 DEF WriteCount, Goto
<1>14. CASE ScanStart(t)
  BY <1>14 DEF ScanStart, Goto
<1>15. CASE ScanVisit(t)
  BY <1>15 DEF ScanVisit, Goto, ThreadEnded
<1>16. CASE ScanEnd(t)
  BY <1>16 DEF ScanEnd, Goto
<1>17. CASE Free(t)
  BY <1>17, FreeListed
<1>18. CASE AllocBig(t)
  BY <1>18 DEF AllocBig, Goto, HeldBig, Give
<1>19. CASE FreeBig(t)
  BY <1>19 DEF FreeBig, Goto, HeldBig, Take
<1>20. CASE ReallocBig(t)
  BY <1>20 DEF ReallocBig, Goto, HeldBig
<1>21. CASE ReallocToBig(t)
  BY <1>21 DEF ReallocToBig, Goto, Held, HeldBig
<1>22. CASE Exit(t)
  BY <1>22 DEF Exit, Goto, SlotAfterExit
<1>23. CASE Spawn(t)
  BY <1>23 DEF Spawn, Goto
<1>24. ASSUME NEW c \in Chain, Alloc(t, c) PROVE Listed'
  BY <1>24, BeginAllocListed
<1>25. ASSUME NEW c \in Chain, Realloc(t, c) PROVE Listed'
  BY <1>25, BeginAllocListed
<1> QED
  BY <1>1, <1>2, <1>3, <1>4, <1>5, <1>6, <1>7, <1>8, <1>9, <1>10, <1>11, <1>12, <1>13, <1>14, <1>15, <1>16, <1>17, <1>18, <1>19, <1>20, <1>21, <1>22, <1>23, <1>24, <1>25 DEF Step, Call

\* cleanup() leaves its directory only when it is gone or terminated.
LEMMA CheckAttended ==
  ASSUME MemoryInv, NEW t \in Thread, CleanupCheck(t)
  PROVE  Attended'
<1> USE DEF MemoryInv
<1> PICK d : d = target[t]
  OBVIOUS
<1>1. d \in dirs /\ d \in Dir /\ Cleaning(t) /\ d # NULL
  BY ThreadAllocAssumption DEF CleanupCheck, Cleaning, OwnerInv, Types, Ownership
<1>2. d \notin thread_list
  BY <1>1 DEF Attended
<1>3. /\ UNCHANGED <<ctx, orphans, thread_list>>
      /\ dirs' = IF n_allocated_objects[d] = 0 THEN dirs \ {d} ELSE dirs
      /\ terminated' = [terminated EXCEPT ![d] = n_allocated_objects[d] # 0 /\ CleanupDone(d)]
      /\ pc' = [pc EXCEPT ![t] = IF ~CleanupDone(d) THEN "sweep" ELSE IF Win32 THEN "scan" ELSE "dead"]
      /\ target' = IF CleanupDone(d) THEN [target EXCEPT ![t] = NULL] ELSE target
  BY DEF CleanupCheck, CleanupFrame, winVars, listVars
<1>4. \A e \in dirs : e # d => terminated'[e] = terminated[e]
  BY <1>3 DEF OwnerInv, Types
<1>5. \A u \in Thread : u # t => pc'[u] = pc[u] /\ target'[u] = target[u]
  BY <1>3 DEF OwnerInv, Types
<1>6. /\ CleanupDone(d) => pc'[t] \notin {"cleanup", "sweep", "check"}
      /\ ~CleanupDone(d) => pc'[t] = "sweep" /\ target'[t] = d
  BY <1>3 DEF OwnerInv, Types
<1>7. ASSUME NEW e \in dirs'
      PROVE  terminated'[e] \/ UnlockedUsers(e)' # {} \/ e \in orphans'
  <2>1. CASE e = d
    <3>1. n_allocated_objects[d] # 0
      BY <1>3, <1>7, <2>1
    <3>2. CASE CleanupDone(d)
      <4>1. terminated'[d]
        BY <1>1, <1>3, <3>1, <3>2 DEF OwnerInv, Types
      <4> QED
        BY <2>1, <4>1
    <3>3. CASE ~CleanupDone(d)
      <4>1. t \in UnlockedUsers(e)'
        BY <1>6, <2>1, <3>3 DEF UnlockedUsers, Cleaning
      <4> QED
        BY <4>1
    <3> QED
      BY <3>2, <3>3
  <2>2. CASE e # d
    <3>1. e \in dirs /\ terminated'[e] = terminated[e]
      BY <1>3, <1>4, <1>7, <2>2
    <3>2. \A u \in UnlockedUsers(e) : u \in UnlockedUsers(e)'
      BY <1>1, <1>3, <1>5, <2>2 DEF UnlockedUsers, Cleaning
    <3> QED
      BY <1>3, <3>1, <3>2 DEF Attended
  <2> QED
    BY <2>1, <2>2
<1>8. ASSUME NEW e \in thread_list'
      PROVE  e \in dirs' /\ ~terminated'[e] /\ \A u \in Thread : Cleaning(u)' => target'[u] # e
  <2>1. e \in thread_list /\ e # d /\ e \in dirs /\ ~terminated[e]
        /\ \A u \in Thread : Cleaning(u) => target[u] # e
    BY <1>2, <1>3, <1>8 DEF Attended
  <2> QED
    BY <1>3, <1>4, <1>5, <1>6, <2>1 DEF Cleaning
<1> QED
  BY <1>3, <1>7, <1>8 DEF Attended

\* Every action leaves a directory attended.
LEMMA AttendedStep == ASSUME MemoryInv, [Next]_vars PROVE Attended'
<1> USE ThreadAllocAssumption DEF MemoryInv, OwnerInv, Types, Stages, Ownership, Locals, Attended, UnlockedUsers,
       InAlloc, Cleaning, PC, pageVars, dirVars, threadVars, winVars, countVars, listVars
<1> SUFFICES ASSUME Next PROVE Attended'
  BY DEF vars
<1> PICK t \in Thread : Step(t) \/ Call(t)
  BY DEF Next
<1>1. CASE Register(t)
  BY <1>1 DEF Register, Goto
<1>2. CASE TakePending(t)
  BY <1>2 DEF TakePending, Goto
<1>3. CASE Drain(t)
  BY <1>3 DEF Drain, Goto
<1>4. CASE TakeFromChain(t)
  BY <1>4 DEF TakeFromChain, Goto, HandOut, Give
<1>5. CASE ChainEmpty(t)
  BY <1>5 DEF ChainEmpty, Goto
<1>6. CASE Carve(t)
  BY <1>6 DEF Carve, Goto, Give
<1>7. CASE FreeOld(t)
  BY <1>7 DEF FreeOld, Goto, BeginFree, FreeFrame
<1>8. CASE FreeRemote(t)
  BY <1>8 DEF FreeRemote, Goto
<1>9. CASE CleanupStart(t)
  BY <1>9 DEF CleanupStart, Goto, DropPending, CleanupFrame
<1>10. CASE CleanupSweep(t)
  BY <1>10 DEF CleanupSweep, Goto, CleanupFrame
<1>11. CASE CleanupCheck(t)
  BY <1>11, CheckAttended
<1>12. CASE ReadCount(t)
  BY <1>12 DEF ReadCount, Goto
<1>13. CASE WriteCount(t)
  BY <1>13 DEF WriteCount, Goto
<1>14. CASE ScanStart(t)
  BY <1>14 DEF ScanStart, Goto
<1>15. CASE ScanVisit(t)
  BY <1>15 DEF ScanVisit, Goto, ThreadEnded
<1>16. CASE ScanEnd(t)
  BY <1>16 DEF ScanEnd, Goto
<1>17. CASE Free(t)
  BY <1>17 DEF Free, Goto, Held, Take, BeginFree, FreeFrame
<1>18. CASE AllocBig(t)
  BY <1>18 DEF AllocBig, Goto, HeldBig, Give
<1>19. CASE FreeBig(t)
  BY <1>19 DEF FreeBig, Goto, HeldBig, Take
<1>20. CASE ReallocBig(t)
  BY <1>20 DEF ReallocBig, Goto, HeldBig
<1>21. CASE ReallocToBig(t)
  BY <1>21 DEF ReallocToBig, Goto, Held, HeldBig
<1>22. CASE Exit(t)
  BY <1>22 DEF Exit, Goto, SlotAfterExit
<1>23. CASE Spawn(t)
  BY <1>23 DEF Spawn, Goto
<1>24. ASSUME NEW c \in Chain, Alloc(t, c) PROVE Attended'
  BY <1>24 DEF Alloc, BeginAlloc
<1>25. ASSUME NEW c \in Chain, Realloc(t, c) PROVE Attended'
  BY <1>25 DEF Realloc, BeginAlloc, Held, Take
<1> QED
  BY <1>1, <1>2, <1>3, <1>4, <1>5, <1>6, <1>7, <1>8, <1>9, <1>10, <1>11, <1>12, <1>13, <1>14, <1>15, <1>16, <1>17, <1>18, <1>19, <1>20, <1>21, <1>22, <1>23, <1>24, <1>25 DEF Step, Call

-----------------------------------------------------------------------------
\* The invariant at the start ...
LEMMA MemoryInvInit == Init => MemoryInv
<1> SUFFICES ASSUME Init PROVE MemoryInv
  OBVIOUS
<1>1. OwnerInv
  BY OwnerInvInit
<1>2. MemoryTypes
  BY ThreadAllocAssumption DEF Init, MemoryTypes
<1>3. Locals /\ Living /\ Listed /\ Attended
  BY DEF Init, Locals, Living, Listed, Attended
<1>4. Places
  BY DEF Init, Places, HeldOnce, CallsApart, PendingApart, TakenApart, ChainsApart
<1>5. CountersExact
  BY DEF Init, CountersExact
<1> QED
  BY <1>1, <1>2, <1>3, <1>4, <1>5 DEF MemoryInv

\* ... and after every step.
LEMMA MemoryInvStep == MemoryInv /\ [Next]_vars => MemoryInv'
<1> SUFFICES ASSUME MemoryInv, [Next]_vars PROVE MemoryInv'
  OBVIOUS
<1> USE DEF MemoryInv
<1>1. OwnerInv' /\ Types'
  BY OwnerInvStep DEF OwnerInv
<1>2. MemoryTypes'
  BY MemoryTypesStep
<1>3. Locals' /\ Places'
  BY LocalsStep, PlacesStep
<1>4. CountersExact' /\ Listed' /\ Attended'
  BY CountersExactStep, ListedStep, AttendedStep
<1>5. Living'
  BY <1>1, <1>2, LivingStep
<1> QED
  BY <1>1, <1>2, <1>3, <1>4, <1>5

\* The inductive invariant: where the blocks of every directory are, what they keep
\* alive and what the counters of thread_alloc_dir and alloc_page say of them.
THEOREM MemoryInvariant == Spec => []MemoryInv
<1>1. Init => MemoryInv
  BY MemoryInvInit
<1>2. MemoryInv /\ [Next]_vars => MemoryInv'
  BY MemoryInvStep
<1> QED
  BY <1>1, <1>2, PTL DEF Spec

\* Every variable has its type, and neither n_allocated_blocks, a size_t, nor
\* n_allocated_objects is ever decremented below zero.
THEOREM TypeOKTheorem == Spec => []TypeOK
<1>1. ASSUME MemoryInv PROVE TypeOK
  <2>1. (\A p \in pageLive : n_allocated_blocks[p] >= 0) /\ (\A d \in dirs : n_allocated_objects[d] >= 0)
    BY <1>1, PageCount, DirCount
  <2> QED
    BY <1>1, <2>1 DEF MemoryInv, OwnerInv, Types, MemoryTypes, TypeOK
<1>2. MemoryInv => TypeOK
  BY <1>1
<1> QED
  BY <1>2, MemoryInvariant, PTL

\* n_allocated_blocks and n_allocated_objects count the blocks that are not back on a
\* chain, whichever of the three functions decremented them.
THEOREM CountersExactTheorem == Spec => []CountersExact
<1>1. MemoryInv => CountersExact
  BY DEF MemoryInv
<1> QED
  BY <1>1, MemoryInvariant, PTL

\* No thread can reach a page or a directory that cleanup() or the last thread_free()
\* of a terminated directory gave back to free().
THEOREM NoUseAfterFreeTheorem == Spec => []NoUseAfterFree
<1>1. ASSUME MemoryInv PROVE NoUseAfterFree
  <2> USE <1>1 DEF MemoryInv
  <2>1. \A b \in OutstandingBlocks : PageOf(b) \in pageLive /\ pageDir[PageOf(b)] \in dirs
    BY OutFacts
  <2>2. ASSUME NEW t \in Thread PROVE ctx[t] \in dirs \cup {NULL} /\ target[t] \in dirs \cup {NULL}
    <3>1. ctx[t] \in dirs \cup {NULL}
      BY DEF OwnerInv, Types, Ownership
    <3>2. CASE pc[t] = "remote"
      <4>1. blk[t] # NULL /\ target[t] = pageDir[PageOf(blk[t])]
        BY <3>2 DEF OwnerInv, Stages, Locals
      <4> QED
        BY <3>1, <4>1 DEF Living, Listed
    <3>3. CASE pc[t] # "remote"
      BY <3>1, <3>3 DEF OwnerInv, Ownership, Cleaning, Locals
    <3> QED
      BY <3>2, <3>3
  <2>3. \A t \in Thread : ctx[t] # NULL =>
           \A c \in Chain : \A b \in chain[ctx[t]][c] :
              PageOf(b) \in pageLive /\ pageDir[PageOf(b)] = ctx[t] /\ pageChain[PageOf(b)] = c
    BY DEF Places, ChainsApart
  <2>4. thread_list \in SUBSET dirs
    BY DEF Attended
  <2> QED
    BY <2>1, <2>2, <2>3, <2>4 DEF NoUseAfterFree
<1>2. MemoryInv => NoUseAfterFree
  BY <1>1
<1> QED
  BY <1>2, MemoryInvariant, PTL

\* Every directory has a thread that will see to it, or waits for a scan, or is
\* terminated with blocks whose last free takes it apart; every page is on its list.
THEOREM NothingLostTheorem == Spec => []NothingLost
<1>1. ASSUME MemoryInv PROVE NothingLost
  BY <1>1 DEF MemoryInv, Listed, Attended, NothingLost
<1>2. MemoryInv => NothingLost
  BY <1>1
<1> QED
  BY <1>2, MemoryInvariant, PTL

-----------------------------------------------------------------------------
\* HeapContract counts the users of a block.  There is never more than one: the
\* application, or a call of thread_realloc() that has not freed it yet.
InUse(b) == held[b] = 1 \/ \E t \in Thread : blk[t] = b /\ pc[t] # "remote"

Users == [b \in Block \cup Big |->
            held[b] + Cardinality({t \in Thread : blk[t] = b /\ pc[t] # "remote"})]

\* The number of users is one or zero,
LEMMA UsersInUse ==
  MemoryInv => Users = [b \in Block \cup Big |-> IF InUse(b) THEN 1 ELSE 0]
<1> SUFFICES ASSUME MemoryInv, NEW b \in Block \cup Big
             PROVE  held[b] + Cardinality({t \in Thread : blk[t] = b /\ pc[t] # "remote"}) =
                       IF InUse(b) THEN 1 ELSE 0
  BY DEF Users
<1> DEFINE S == {t \in Thread : blk[t] = b /\ pc[t] # "remote"}
<1>1. held[b] \in {0, 1} /\ b # NULL
  BY ThreadAllocAssumption DEF MemoryInv, Places, HeldOnce
<1>2. CASE S = {}
  <2>1. InUse(b) <=> held[b] = 1
    BY <1>2 DEF InUse
  <2>2. Cardinality(S) = 0
    BY <1>2, FS_EmptySet
  <2> HIDE DEF S
  <2>3. held[b] + Cardinality(S) = IF InUse(b) THEN 1 ELSE 0
    BY <1>1, <2>1, <2>2
  <2> QED
    BY <2>3 DEF S
<1>3. CASE S # {}
  <2> PICK t \in S : TRUE
    BY <1>3
  <2>1. t \in Thread /\ blk[t] = b /\ pc[t] # "remote"
    OBVIOUS
  <2>2. InUse(b)
    BY <2>1 DEF InUse
  <2>3. held[b] = 0 /\ \A u \in Thread : blk[u] = b => u = t
    BY <1>1, <2>1 DEF MemoryInv, Places, CallsApart
  <2>4. S = {t}
    BY <2>1, <2>3
  <2>5. Cardinality(S) = 1
    BY <2>4, FS_Singleton
  <2> HIDE DEF S
  <2>6. held[b] + Cardinality(S) = IF InUse(b) THEN 1 ELSE 0
    BY <2>2, <2>3, <2>5
  <2> QED
    BY <2>6 DEF S
<1> QED
  BY <1>2, <1>3

\* ... in the next state too.
LEMMA UsersInUseNext ==
  MemoryInv' => (Users = [b \in Block \cup Big |-> IF InUse(b) THEN 1 ELSE 0])'
<1>1. MemoryInv => Users = [b \in Block \cup Big |-> IF InUse(b) THEN 1 ELSE 0]
  BY UsersInUse
<1> QED
  BY <1>1, PTL

\* The steps of the contract, in terms of InUse.
LEMMA MallocStep ==
  ASSUME MemoryInv, MemoryInv', NEW b \in Block \cup Big, ~InUse(b), InUse(b)',
         \A x \in Block \cup Big : x # b => (InUse(x)' <=> InUse(x))
  PROVE  Contract!HNext
<1>1. Users[b] = 0 /\ Users' = [Users EXCEPT ![b] = 1]
  BY UsersInUse, UsersInUseNext
<1>2. Contract!Malloc(b)
  BY <1>1 DEF Users, Contract!Malloc
<1> QED
  BY <1>2 DEF Contract!HNext

\* A use ends: the contract's Free.
LEMMA FreeStep ==
  ASSUME MemoryInv, MemoryInv', NEW b \in Block \cup Big, InUse(b), ~InUse(b)',
         \A x \in Block \cup Big : x # b => (InUse(x)' <=> InUse(x))
  PROVE  Contract!HNext
<1>1. Users[b] = 1 /\ Users' = [Users EXCEPT ![b] = 0]
  BY UsersInUse, UsersInUseNext
<1>2. Contract!Free(b)
  BY <1>1 DEF Users, Contract!Free
<1> QED
  BY <1>2 DEF Contract!HNext

\* One use ends and another begins: its Move.
LEMMA MoveStep ==
  ASSUME MemoryInv, MemoryInv', NEW b \in Block \cup Big, NEW c \in Block \cup Big, b # c,
         InUse(b), ~InUse(b)', ~InUse(c), InUse(c)',
         \A x \in Block \cup Big : x # b /\ x # c => (InUse(x)' <=> InUse(x))
  PROVE  Contract!HNext
<1>1. Users[b] = 1 /\ Users[c] = 0 /\ Users' = [Users EXCEPT ![b] = 0, ![c] = 1]
  BY UsersInUse, UsersInUseNext
<1>2. Contract!Move(b, c)
  BY <1>1 DEF Users, Contract!Move
<1> QED
  BY <1>2 DEF Contract!HNext

\* No use begins or ends: a stutter.
LEMMA SameUsers ==
  ASSUME MemoryInv, MemoryInv', \A x \in Block \cup Big : InUse(x)' <=> InUse(x)
  PROVE  UNCHANGED Users
  BY UsersInUse, UsersInUseNext

\* Neither the application's blocks nor the calls' changed.
LEMMA QuietStep ==
  ASSUME MemoryInv, MemoryInv', UNCHANGED <<held, blk>>,
         \A u \in Thread : pc'[u] = "remote" <=> pc[u] = "remote"
  PROVE  UNCHANGED Users
  BY SameUsers DEF InUse

\* thread_alloc() hands out a block that was on a chain or on no page.
LEMMA HandOutStep ==
  ASSUME MemoryInv, MemoryInv', NEW t \in Thread, TakeFromChain(t) \/ Carve(t)
  PROVE  Contract!HNext
<1> USE DEF MemoryInv
<1>1. PICK b \in Block : /\ Unheld(b) /\ held' = [held EXCEPT ![b] = @ + 1] /\ blk' = blk
                         /\ pc' = [pc EXCEPT ![t] = IF blk[t] = NULL THEN "run" ELSE "free"]
  <2>1. CASE TakeFromChain(t)
    <3> PICK b \in chain[ctx[t]][want[t]] : HandOut(t, b)
      BY <2>1 DEF TakeFromChain
    <3>1. ctx[t] \in Dir /\ ctx[t] # NULL /\ want[t] \in Chain
      BY <2>1, InAllocFacts DEF TakeFromChain, InAlloc
    <3>2. b \in Block /\ Unheld(b)
      BY <3>1, ChainType DEF Places, ChainsApart
    <3> QED
      BY <2>1, <3>2 DEF TakeFromChain, HandOut, Give
  <2>2. CASE Carve(t)
    <3> PICK p \in Page \ pageLive, s \in Slots : Give(<<p, s>>)
      BY <2>2 DEF Carve
    <3> DEFINE b == <<p, s>>
    <3>1. b \in Block /\ PageOf(b) = p
      BY DEF Block, PageOf
    <3> HIDE DEF b
    <3>2. Unheld(b)
      BY <3>1, ThreadAllocAssumption DEF Living, Unheld, MemoryTypes
    <3>3. held' = [held EXCEPT ![b] = @ + 1]
      BY DEF Give, b
    <3> QED
      BY <2>2, <3>1, <3>2, <3>3 DEF Carve
  <2> QED
    BY <2>1, <2>2
<1>2. \A x \in Block \cup Big : held'[x] = IF x = b THEN 1 ELSE held[x]
  BY <1>1 DEF Unheld, MemoryTypes
<1>3. \A u \in Thread : pc'[u] = "remote" <=> pc[u] = "remote"
  BY <1>1 DEF TakeFromChain, Carve, OwnerInv, Types
<1>4. ~InUse(b) /\ InUse(b)'
  BY <1>1, <1>2 DEF InUse, Unheld
<1>5. \A x \in Block \cup Big : x # b => (InUse(x)' <=> InUse(x))
  BY <1>1, <1>2, <1>3 DEF InUse
<1> QED
  BY <1>4, <1>5, MallocStep

\* thread_free() ends the use of its block, whoever owns the page.
LEMMA GiveBackStep ==
  ASSUME MemoryInv, MemoryInv', NEW t \in Thread, Free(t) \/ FreeOld(t)
  PROVE  Contract!HNext
<1> USE DEF MemoryInv
<1>1. PICK b \in Block :
         /\ BeginFree(t, b)
         /\ held' = [held EXCEPT ![b] = 0]
         /\ held[b] = 1 \/ blk[t] = b
  BY FreedBlock
<1>2. pc[t] # "remote" /\ b # NULL
  BY <1>1, PageOfType DEF Free, FreeOld
<1>3. InUse(b)
  BY <1>1, <1>2 DEF InUse
<1>4. \A x \in Block \cup Big : held'[x] = IF x = b THEN 0 ELSE held[x]
  BY <1>1 DEF MemoryTypes
<1>5. \A u \in Thread : u # t => blk[u] # b
  BY <1>1, <1>2 DEF Places, CallsApart
<1>6. blk[t] = NULL \/ blk[t] = b
  <2>1. CASE Free(t)
    BY <2>1 DEF Free, Locals, InAlloc, Cleaning
  <2>2. CASE FreeOld(t)
    <3>1. blk[t] \in Block /\ held[blk[t]] = 0 /\ held' = held
      BY <2>2 DEF FreeOld, OwnerInv, Types, Stages, Places, CallsApart
    <3> QED
      BY <1>1, <1>4, <3>1
  <2> QED
    BY <2>1, <2>2
<1>7. /\ \A u \in Thread : u # t => blk'[u] = blk[u] /\ pc'[u] = pc[u]
      /\ blk'[t] = NULL \/ (blk'[t] = b /\ pc'[t] = "remote")
  BY <1>1 DEF BeginFree, OwnerInv, Types
<1>8. ~InUse(b)'
  BY <1>2, <1>4, <1>5, <1>7 DEF InUse
<1>9. ASSUME NEW x \in Block \cup Big, x # b PROVE InUse(x)' <=> InUse(x)
  <2>1. x # NULL
    BY ThreadAllocAssumption
  <2>2. blk[t] # x /\ blk'[t] # x
    BY <1>6, <1>7, <1>9, <2>1
  <2> QED
    BY <1>4, <1>7, <1>9, <2>2 DEF InUse
<1> QED
  BY <1>3, <1>8, <1>9, FreeStep

\* A remote free was the end of the use when it was decided.
LEMMA FreeRemoteQuiet ==
  ASSUME MemoryInv, MemoryInv', NEW t \in Thread, FreeRemote(t)
  PROVE  UNCHANGED Users
<1> USE DEF MemoryInv
<1>1. /\ held' = held /\ pc[t] = "remote" /\ blk'[t] = NULL
      /\ \A u \in Thread : u # t => blk'[u] = blk[u] /\ pc'[u] = pc[u]
  BY DEF FreeRemote, Goto, OwnerInv, Types
<1>2. ASSUME NEW x \in Block \cup Big PROVE InUse(x)' <=> InUse(x)
  <2>1. x # NULL
    BY ThreadAllocAssumption
  <2> QED
    BY <1>1, <2>1 DEF InUse
<1> QED
  BY <1>2, SameUsers

\* The block a realloc moves away from stays in use.
LEMMA ReallocQuiet ==
  ASSUME MemoryInv, MemoryInv', NEW t \in Thread, NEW c \in Chain, Realloc(t, c)
  PROVE  UNCHANGED Users
<1> USE DEF MemoryInv
<1>1. PICK b \in Held : /\ held' = [held EXCEPT ![b] = @ - 1]
                        /\ blk' = [blk EXCEPT ![t] = b]
  BY DEF Realloc, Take
<1>2. b \in Block /\ held[b] = 1 /\ b # NULL
  BY PageOfType DEF Held, Places, HeldOnce
<1>3. \A x \in Block \cup Big : held'[x] = IF x = b THEN 0 ELSE held[x]
  BY <1>1, <1>2 DEF MemoryTypes
<1>4. /\ pc[t] = "run" /\ pc'[t] # "remote"
      /\ \A u \in Thread : u # t => blk'[u] = blk[u] /\ pc'[u] = pc[u]
      /\ blk'[t] = b
  BY <1>1 DEF Realloc, BeginAlloc, OwnerInv, Types
<1>5. blk[t] = NULL
  BY <1>4 DEF Locals, InAlloc, Cleaning
<1>6. InUse(b) /\ InUse(b)'
  BY <1>2, <1>4 DEF InUse
<1>7. ASSUME NEW x \in Block \cup Big, x # b PROVE InUse(x)' <=> InUse(x)
  <2>1. x # NULL
    BY ThreadAllocAssumption
  <2> QED
    BY <1>3, <1>4, <1>5, <1>7, <2>1 DEF InUse
<1>8. \A x \in Block \cup Big : InUse(x)' <=> InUse(x)
  BY <1>6, <1>7
<1> QED
  BY <1>8, SameUsers

\* The large block a realloc moves to is handed out.
LEMMA ReallocToBigStep ==
  ASSUME MemoryInv, MemoryInv', NEW t \in Thread, ReallocToBig(t)
  PROVE  Contract!HNext
<1> USE DEF MemoryInv
<1>1. PICK b \in Held, g \in Big \ HeldBig : /\ held' = [held EXCEPT ![b] = @ - 1, ![g] = @ + 1]
                                            /\ blk' = [blk EXCEPT ![t] = b]
  BY DEF ReallocToBig
<1>2. b \in Block /\ held[b] = 1 /\ b # NULL /\ held[g] = 0 /\ g \notin Block /\ b # g /\ g # NULL
  BY PageOfType, ThreadAllocAssumption DEF Held, HeldBig, Places, HeldOnce
<1>3. \A x \in Block \cup Big : held'[x] = IF x = b THEN 0 ELSE IF x = g THEN 1 ELSE held[x]
  BY <1>1, <1>2 DEF MemoryTypes
<1>4. /\ pc[t] = "run" /\ pc'[t] = "free"
      /\ \A u \in Thread : u # t => blk'[u] = blk[u] /\ pc'[u] = pc[u]
      /\ blk'[t] = b
  BY <1>1 DEF ReallocToBig, Goto, OwnerInv, Types
<1>5. blk[t] = NULL
  BY <1>4 DEF Locals, InAlloc, Cleaning
<1>6. ~InUse(g) /\ InUse(g)'
  BY <1>2, <1>3 DEF InUse, OwnerInv, Types
<1>7. ASSUME NEW x \in Block \cup Big, x # g PROVE InUse(x)' <=> InUse(x)
  <2>1. x # NULL
    BY ThreadAllocAssumption
  <2>2. CASE x = b
    BY <1>2, <1>4, <2>2 DEF InUse
  <2>3. CASE x # b
    BY <1>3, <1>4, <1>5, <1>7, <2>1, <2>3 DEF InUse
  <2> QED
    BY <2>2, <2>3
<1> QED
  BY <1>6, <1>7, MallocStep

\* Large requests: malloc(), free() and realloc() of the C library.
LEMMA BigStep ==
  ASSUME MemoryInv, MemoryInv', NEW t \in Thread, AllocBig(t) \/ FreeBig(t) \/ ReallocBig(t)
  PROVE  Contract!HNext \/ UNCHANGED Users
<1> USE DEF MemoryInv
<1>1. blk' = blk /\ pc' = pc
  BY DEF AllocBig, FreeBig, ReallocBig, threadVars
<1>2. \A g \in Big : held[g] \in {0, 1} /\ (g \in HeldBig <=> held[g] = 1) /\ \A u \in Thread : blk[u] # g
  BY ThreadAllocAssumption DEF HeldBig, Places, HeldOnce, OwnerInv, Types
<1>3. CASE AllocBig(t)
  <2> PICK g \in Big \ HeldBig : held' = [held EXCEPT ![g] = @ + 1]
    BY <1>3 DEF AllocBig, Give
  <2>1. \A x \in Block \cup Big : held'[x] = IF x = g THEN 1 ELSE held[x]
    BY <1>2 DEF MemoryTypes
  <2>2. ~InUse(g) /\ InUse(g)' /\ \A x \in Block \cup Big : x # g => (InUse(x)' <=> InUse(x))
    BY <1>1, <1>2, <2>1 DEF InUse
  <2> QED
    BY <2>2, MallocStep
<1>4. CASE FreeBig(t)
  <2> PICK g \in HeldBig : held' = [held EXCEPT ![g] = @ - 1]
    BY <1>4 DEF FreeBig, Take
  <2>0. g \in Big
    BY DEF HeldBig
  <2>1. \A x \in Block \cup Big : held'[x] = IF x = g THEN 0 ELSE held[x]
    BY <1>2, <2>0 DEF MemoryTypes
  <2>2. InUse(g) /\ ~InUse(g)' /\ \A x \in Block \cup Big : x # g => (InUse(x)' <=> InUse(x))
    BY <1>1, <1>2, <2>0, <2>1 DEF InUse
  <2> QED
    BY <2>0, <2>2, FreeStep
<1>5. CASE ReallocBig(t)
  <2> PICK b \in HeldBig, g \in Big : g \in {b} \cup (Big \ HeldBig) /\ held' = [held EXCEPT ![b] = @ - 1, ![g] = @ + 1]
    BY <1>5 DEF ReallocBig, HeldBig
  <2>0. b \in Big /\ g \in Big /\ held[b] = 1
    BY <1>2 DEF HeldBig
  <2>1. CASE g = b
    <3>1. held' = held
      BY <2>0, <2>1 DEF MemoryTypes
    <3> QED
      BY <1>1, <3>1, QuietStep
  <2>2. CASE g # b
    <3>1. held[g] = 0
      BY <1>2, <2>0, <2>2
    <3>2. \A x \in Block \cup Big : held'[x] = IF x = b THEN 0 ELSE IF x = g THEN 1 ELSE held[x]
      BY <2>0, <2>2, <3>1 DEF MemoryTypes
    <3>3. InUse(b) /\ ~InUse(b)' /\ ~InUse(g) /\ InUse(g)'
      BY <1>1, <1>2, <2>0, <2>2, <3>1, <3>2 DEF InUse
    <3>4. \A x \in Block \cup Big : x # b /\ x # g => (InUse(x)' <=> InUse(x))
      BY <1>1, <3>2 DEF InUse
    <3> QED
      BY <2>0, <2>2, <3>3, <3>4, MoveStep
  <2> QED
    BY <2>1, <2>2
<1> QED
  BY <1>3, <1>4, <1>5

\* Every action is a step of the contract or a stutter.
LEMMA ContractStep ==
  ASSUME MemoryInv, MemoryInv', [Next]_vars
  PROVE  Contract!HNext \/ UNCHANGED Users
<1>1. CASE UNCHANGED vars
  <2>1. UNCHANGED <<held, blk, pc>>
    BY <1>1 DEF vars, threadVars
  <2> QED
    BY <2>1, QuietStep
<1> SUFFICES ASSUME Next PROVE Contract!HNext \/ UNCHANGED Users
  BY <1>1
<1> PICK t \in Thread : Step(t) \/ Call(t)
  BY DEF Next
<1>2. CASE \/ Register(t) \/ TakePending(t) \/ Drain(t) \/ ChainEmpty(t) \/ CleanupStart(t)
           \/ CleanupSweep(t) \/ CleanupCheck(t) \/ ReadCount(t) \/ WriteCount(t) \/ ScanStart(t)
           \/ ScanVisit(t) \/ ScanEnd(t) \/ Exit(t) \/ Spawn(t) \/ \E c \in Chain : Alloc(t, c)
  <2>1. UNCHANGED <<held, blk>>
    BY <1>2 DEF Register, TakePending, Drain, ChainEmpty, CleanupStart, CleanupSweep, CleanupCheck,
                ReadCount, WriteCount, ScanStart, ScanVisit, ScanEnd, Exit, Spawn, Alloc, CleanupFrame
  <2>2. pc[t] # "remote" /\ pc'[t] # "remote" /\ \A u \in Thread : u # t => pc'[u] = pc[u]
    BY <1>2 DEF Register, TakePending, Drain, ChainEmpty, CleanupStart, CleanupSweep, CleanupCheck,
                ReadCount, WriteCount, ScanStart, ScanVisit, ScanEnd, Exit, Spawn, Alloc, BeginAlloc,
                Goto, MemoryInv, OwnerInv, Types
  <2> QED
    BY <2>1, <2>2, QuietStep
<1> QED
  BY <1>2, HandOutStep, GiveBackStep, FreeRemoteQuiet, ReallocQuiet, ReallocToBigStep, BigStep
     DEF Step, Call

\* Whatever threads free each other's blocks, and whoever ends meanwhile, threadalloc
\* implements HeapContract: a block that is handed out had no user.
THEOREM KeepsContractTheorem == Spec => KeepsContract
<1>1. Init => Contract!HInit
  <2> SUFFICES ASSUME Init PROVE Contract!HInit
    OBVIOUS
  <2>1. MemoryInv
    BY MemoryInvInit
  <2>2. \A b \in Block \cup Big : ~InUse(b)
    BY ThreadAllocAssumption DEF Init, InUse
  <2>3. Users = [b \in Block \cup Big |-> 0]
    BY <2>1, <2>2, UsersInUse
  <2> QED
    BY <2>3 DEF Users, Contract!HInit
<1>2. MemoryInv /\ MemoryInv' /\ [Next]_vars => [Contract!HNext]_Users
  BY ContractStep
<1> QED
  BY <1>1, <1>2, MemoryInvariant, PTL DEF Spec, Users, KeepsContract, Contract!HSpec

=============================================================================
