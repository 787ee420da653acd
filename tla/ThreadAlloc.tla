---------------------------- MODULE ThreadAlloc -----------------------------
(***************************************************************************)
(* threadalloc: every thread owns a directory (thread_alloc_dir) of pages  *)
(* that it carves into blocks of one size chain.  The owner allocates and  *)
(* frees without a lock; a block freed by another thread is pushed on the  *)
(* directory's pending_chain under its critical section `cs', and the      *)
(* owner takes that chain back in bulk.  When a thread ends, cleanup()     *)
(* gives up the pages nobody uses; what is left is freed by whoever frees  *)
(* the last block of it.                                                   *)
(*                                                                         *)
(* Atomicity.  pending_chain, n_pending_requests and terminated are        *)
(* written under `cs' only and every `cs' section runs from enter() to     *)
(* leave() without waiting for anything else, so a section is one step.    *)
(* Between the sections a thread touches memory only it can reach, which   *)
(* is one step too.  The free lists are sets: their order is invisible.    *)
(*                                                                         *)
(* Requests above MAX_BLOCK_SIZE go straight to malloc() and meet none of  *)
(* this state: they are the blocks of Big.                                 *)
(***************************************************************************)
EXTENDS Integers, FiniteSets

CONSTANTS
    Thread, Dir, Page, Chain,   \* threads; addresses of directories and pages; size chains
    Main,                       \* the thread that runs main()
    Slots,                      \* the places of a block in its page
    Big,                        \* blocks malloc() can serve for large requests
    PENDING_THRESHOLD,
    Win32,                      \* TRUE for the _WIN32 build, FALSE for pthreads
    CHECK_FREQUENCY,            \* CHECK_FOR_DEAD_THREADS_FREQUENCY
    COUNT_BOUND,                \* bound on check_for_dead_threads_count
    NULL

Block == Page \X Slots
PageOf(b) == b[1]

ASSUME ThreadAllocAssumption ==
    /\ IsFiniteSet(Page) /\ IsFiniteSet(Slots) /\ Slots # {}
    /\ Main \in Thread
    /\ Chain \subseteq Nat         \* a longer request is never served from a smaller chain
    /\ NULL \notin Thread /\ NULL \notin Dir /\ NULL \notin Block
    /\ NULL \notin Big /\ Big \cap Block = {} /\ NULL \notin Chain /\ NULL \notin Page
    /\ PENDING_THRESHOLD \in Nat
    /\ CHECK_FREQUENCY \in Nat /\ COUNT_BOUND \in Nat
    /\ Win32 \in BOOLEAN

VARIABLES
    \* what malloc() has given out
    dirs, pageLive,
    \* thread_alloc_dir
    chain, pending_chain, n_pending_requests, n_allocated_objects, terminated, pages,
    \* alloc_page
    pageDir, pageChain, n_allocated_blocks,
    \* per thread: the TLS slot ctx and where the thread stands in the code
    ctx, pc, want, blk, target, taken,
    \* how often a block is in the hands of the application
    held,
    \* _WIN32: check_for_dead_threads_count and what each thread read of it
    check_count, seen,
    \* directories that a thread left behind when it ended; _WIN32: thread_list, the
    \* owner of global_cs and what is left of its walk along the list
    orphans, thread_list, global_cs, scan

dirVars    == <<dirs, chain, pending_chain, n_pending_requests,
                n_allocated_objects, terminated, pages>>
pageVars   == <<pageLive, pageDir, pageChain, n_allocated_blocks>>
threadVars == <<ctx, pc, want, blk, target, taken>>
countVars  == <<check_count, seen>>
listVars   == <<thread_list, orphans, global_cs, scan>>
winVars    == <<countVars, listVars>>
vars == <<dirVars, pageVars, threadVars, winVars, held>>

-----------------------------------------------------------------------------
Init ==
    /\ dirs = {} /\ pageLive = {} /\ held = [b \in Block \cup Big |-> 0]
    /\ chain = [d \in Dir |-> [c \in Chain |-> {}]]
    /\ pending_chain = [d \in Dir |-> {}]
    /\ n_pending_requests = [d \in Dir |-> 0]
    /\ n_allocated_objects = [d \in Dir |-> 0]
    /\ terminated = [d \in Dir |-> FALSE]
    /\ pages = [d \in Dir |-> {}]
    /\ pageDir = [p \in Page |-> NULL]
    /\ pageChain = [p \in Page |-> NULL]
    /\ n_allocated_blocks = [p \in Page |-> 0]
    /\ ctx = [t \in Thread |-> NULL]
    /\ pc = [t \in Thread |-> "run"]
    /\ want = [t \in Thread |-> NULL]
    /\ blk = [t \in Thread |-> NULL]
    /\ target = [t \in Thread |-> NULL]
    /\ taken = [t \in Thread |-> {}]
    /\ check_count = 0 /\ seen = [t \in Thread |-> 0]
    /\ thread_list = {} /\ orphans = {} /\ global_cs = NULL /\ scan = {}

Held == {b \in Block : held[b] > 0}
HeldBig == {b \in Big : held[b] > 0}
Give(b) == held' = [held EXCEPT ![b] = @ + 1]
Take(b) == held' = [held EXCEPT ![b] = @ - 1]

Goto(t, from, to) == pc[t] = from /\ pc' = [pc EXCEPT ![t] = to]

\* The block list returned to its pages' counters: blocks of S in page p.
InPage(S, p) == {b \in S : PageOf(b) = p}
LessBlocks_Lost(S) == n_allocated_blocks
LessBlocks(S) ==
    [p \in Page |-> n_allocated_blocks[p] - Cardinality(InPage(S, p))]

-----------------------------------------------------------------------------
(* thread_alloc *)

\* The first half of thread_alloc(size) for a request served from chain c: find
\* the directory of this thread or make one, and decide whether to take the
\* pending requests back.  The test reads n_pending_requests without the lock.
BeginAlloc(t, c) ==
    /\ want' = [want EXCEPT ![t] = c]
    /\ \/ /\ ctx[t] # NULL
          /\ IF n_pending_requests[ctx[t]] > PENDING_THRESHOLD
             THEN pc' = [pc EXCEPT ![t] = "pending"]
             ELSE pc' = [pc EXCEPT ![t] = "take"]
          /\ UNCHANGED <<dirVars, ctx>>
       \/ /\ ctx[t] = NULL
          /\ \E d \in Dir \ dirs :
                /\ dirs' = dirs \cup {d}
                /\ ctx' = [ctx EXCEPT ![t] = d]
                /\ chain' = [chain EXCEPT ![d] = [i \in Chain |-> {}]]
                /\ pending_chain' = [pending_chain EXCEPT ![d] = {}]
                /\ n_pending_requests' = [n_pending_requests EXCEPT ![d] = 0]
                /\ n_allocated_objects' = [n_allocated_objects EXCEPT ![d] = 0]
                /\ terminated' = [terminated EXCEPT ![d] = FALSE]
                /\ pages' = [pages EXCEPT ![d] = {}]
          /\ pc' = [pc EXCEPT ![t] = IF Win32 THEN "register" ELSE "take"]

Alloc(t, c) ==
    /\ pc[t] = "run"
    /\ BeginAlloc(t, c)
    /\ UNCHANGED <<pageVars, winVars, blk, target, taken, held>>

\* The new directory enters thread_list under global_cs.
Register(t) ==
    /\ Goto(t, "register", "take")
    /\ global_cs = NULL
    /\ thread_list' = thread_list \cup {ctx[t]}
    /\ UNCHANGED <<dirVars, pageVars, ctx, want, blk, target, taken, held,
                   countVars, orphans, global_cs, scan>>

TakePending_KeepsChain(t) ==
    /\ Goto(t, "pending", "drain")
    /\ taken' = [taken EXCEPT ![t] = pending_chain[ctx[t]]]
    /\ n_pending_requests' = [n_pending_requests EXCEPT ![ctx[t]] = 0]
    /\ UNCHANGED <<dirs, chain, n_allocated_objects, terminated, pages, pageVars,
                   pending_chain, ctx, want, blk, target, winVars, held>>
\* process_pending_requests(), the section under cs ...
TakePending(t) ==
    LET d == ctx[t] IN
    /\ Goto(t, "pending", "drain")
    /\ taken' = [taken EXCEPT ![t] = pending_chain[d]]
    /\ pending_chain' = [pending_chain EXCEPT ![d] = {}]
    /\ n_pending_requests' = [n_pending_requests EXCEPT ![d] = 0]
    /\ UNCHANGED <<dirs, chain, n_allocated_objects, terminated, pages, pageVars,
                   ctx, want, blk, target, winVars, held>>

OfChain_Last(S, c) == IF \A i \in Chain : i <= c THEN S ELSE {}
OfChain(S, c) == {b \in S : pageChain[PageOf(b)] = c}

\* ... and the loop after it, which puts the blocks back on their chains.
Drain(t) ==
    LET d == ctx[t] IN
    /\ Goto(t, "drain", "take")
    /\ n_allocated_blocks' = LessBlocks(taken[t])
    /\ n_allocated_objects' = [n_allocated_objects EXCEPT ![d] = @ - Cardinality(taken[t])]
    /\ chain' = [chain EXCEPT ![d] = [c \in Chain |-> @[c] \cup OfChain(taken[t], c)]]
    /\ taken' = [taken EXCEPT ![t] = {}]
    /\ UNCHANGED <<dirs, pending_chain, n_pending_requests, terminated, pages,
                   pageLive, pageDir, pageChain, ctx, want, blk, target, winVars, held>>

\* After the block is found: count it, hand it out.  A realloc goes on to free
\* the block it moves away from.
HandOut(t, b) ==
    /\ n_allocated_blocks' = [n_allocated_blocks EXCEPT ![PageOf(b)] = @ + 1]
    /\ n_allocated_objects' = [n_allocated_objects EXCEPT ![ctx[t]] = @ + 1]
    /\ Give(b)
    /\ want' = [want EXCEPT ![t] = NULL]
    /\ pc' = [pc EXCEPT ![t] = IF blk[t] = NULL THEN "run" ELSE "free"]

\* The chain has a free block.
TakeFromChain(t) ==
    LET d == ctx[t] IN
    /\ pc[t] = "take"
    /\ \E b \in chain[d][want[t]] :
          /\ chain' = [chain EXCEPT ![d][want[t]] = @ \ {b}]
          /\ HandOut(t, b)
    /\ UNCHANGED <<dirs, pending_chain, n_pending_requests, terminated, pages,
                   pageLive, pageDir, pageChain, ctx, blk, target, taken, winVars>>

\* The chain is empty: on Windows dead threads may be looked for first.
ChainEmpty(t) ==
    /\ Goto(t, "take", IF Win32 THEN "count" ELSE "carve")
    /\ chain[ctx[t]][want[t]] = {}
    /\ UNCHANGED <<dirVars, pageVars, ctx, want, blk, target, taken, winVars, held>>

\* A new page from malloc(), carved into blocks: the first one is handed out,
\* the rest become the chain.
Carve(t) ==
    LET d == ctx[t]  IN
    /\ pc[t] = "carve"
    /\ \E p \in Page \ pageLive, s \in Slots :
          /\ pageLive' = pageLive \cup {p}
          /\ pageDir' = [pageDir EXCEPT ![p] = d]
          /\ pageChain' = [pageChain EXCEPT ![p] = want[t]]
          /\ pages' = [pages EXCEPT ![d] = @ \cup {p}]
          /\ chain' = [chain EXCEPT ![d][want[t]] = {p} \X (Slots \ {s})]
          /\ n_allocated_blocks' = [n_allocated_blocks EXCEPT ![p] = 1]
          /\ n_allocated_objects' = [n_allocated_objects EXCEPT ![d] = @ + 1]
          /\ Give(<<p, s>>)
    /\ want' = [want EXCEPT ![t] = NULL]
    /\ pc' = [pc EXCEPT ![t] = IF blk[t] = NULL THEN "run" ELSE "free"]
    /\ UNCHANGED <<dirs, pending_chain, n_pending_requests, terminated,
                   ctx, blk, target, taken, winVars>>

-----------------------------------------------------------------------------
(* thread_free *)

\* What thread_free(b) does first: read page->dir without a lock and compare it
\* with the directory of this thread.
BeginFree(t, b) ==
    LET d == pageDir[PageOf(b)] IN
    IF d = ctx[t]
    THEN /\ n_allocated_blocks' = [n_allocated_blocks EXCEPT ![PageOf(b)] = @ - 1]
         /\ n_allocated_objects' = [n_allocated_objects EXCEPT ![d] = @ - 1]
         /\ chain' = [chain EXCEPT ![d][pageChain[PageOf(b)]] = @ \cup {b}]
         /\ pc' = [pc EXCEPT ![t] = "run"]
         /\ blk' = [blk EXCEPT ![t] = NULL]
         /\ UNCHANGED target
    ELSE /\ pc' = [pc EXCEPT ![t] = "remote"]
         /\ blk' = [blk EXCEPT ![t] = b]
         /\ target' = [target EXCEPT ![t] = d]
         /\ UNCHANGED <<n_allocated_blocks, n_allocated_objects, chain>>

FreeFrame ==
    UNCHANGED <<dirs, pending_chain, n_pending_requests, terminated, pages,
                pageLive, pageDir, pageChain, ctx, want, taken, winVars>>

\* The application frees a block it holds, whichever thread allocated it.
Free(t) ==
    /\ pc[t] = "run"
    /\ \E b \in Held : Take(b) /\ BeginFree(t, b)
    /\ FreeFrame

\* The tail of thread_realloc: the old block, after its contents moved.
FreeOld(t) ==
    /\ pc[t] = "free"
    /\ BeginFree(t, blk[t])
    /\ UNCHANGED held
    /\ FreeFrame

\* The section under the owner's cs.  A terminated directory is taken apart by
\* the last frees: page at its last block, directory at its last object.
FreeRemote(t) ==
    LET d == target[t]
        b == blk[t]
        p == PageOf(b)
    IN
    /\ Goto(t, "remote", "run")
    /\ IF terminated[d]
       THEN /\ n_allocated_blocks' = [n_allocated_blocks EXCEPT ![p] = @ - 1]
            /\ pageLive' = IF n_allocated_blocks[p] = 1 THEN pageLive \ {p} ELSE pageLive
            /\ n_allocated_objects' = [n_allocated_objects EXCEPT ![d] = @ - 1]
            /\ dirs' = IF n_allocated_objects[d] = 1 THEN dirs \ {d} ELSE dirs
            /\ UNCHANGED <<pending_chain, n_pending_requests>>
       ELSE /\ pending_chain' = [pending_chain EXCEPT ![d] = @ \cup {b}]
            /\ n_pending_requests' = [n_pending_requests EXCEPT ![d] = @ + 1]
            /\ UNCHANGED <<n_allocated_blocks, n_allocated_objects, pageLive, dirs>>
    /\ blk' = [blk EXCEPT ![t] = NULL]
    /\ target' = [target EXCEPT ![t] = NULL]
    /\ UNCHANGED <<chain, terminated, pages, pageDir, pageChain, ctx, want, taken, winVars, held>>

-----------------------------------------------------------------------------
(* thread_realloc, large requests *)

\* thread_realloc() of a block that is too small for the new size: the block
\* stays in use while thread_alloc() runs and is freed after the copy.  (When
\* the block is large enough the call returns without changing anything.)
Realloc(t, c) ==
    /\ pc[t] = "run"
    /\ \E b \in {x \in Held : pageChain[PageOf(x)] <= c} :
          /\ Take(b)
          /\ blk' = [blk EXCEPT ![t] = b]
    /\ BeginAlloc(t, c)
    /\ UNCHANGED <<pageVars, winVars, target, taken>>

\* Above MAX_BLOCK_SIZE: malloc(), free() and realloc() of the C library, which
\* may return the block it was given.
AllocBig(t) ==
    /\ pc[t] = "run"
    /\ \E b \in Big \ HeldBig : Give(b)
    /\ UNCHANGED <<dirVars, pageVars, threadVars, winVars>>

FreeBig(t) ==
    /\ pc[t] = "run"
    /\ \E b \in HeldBig : Take(b)
    /\ UNCHANGED <<dirVars, pageVars, threadVars, winVars>>

ReallocBig(t) ==
    /\ pc[t] = "run"
    /\ \E b \in HeldBig : \E g \in {b} \cup (Big \ HeldBig) :
          held' = [held EXCEPT ![b] = @ - 1, ![g] = @ + 1]
    /\ UNCHANGED <<dirVars, pageVars, threadVars, winVars>>

\* A small block outgrows the chains: thread_alloc() is one malloc() here.
ReallocToBig(t) ==
    /\ Goto(t, "run", "free")
    /\ \E b \in Held, g \in Big \ HeldBig :
          /\ held' = [held EXCEPT ![b] = @ - 1, ![g] = @ + 1]
          /\ blk' = [blk EXCEPT ![t] = b]
    /\ UNCHANGED <<dirVars, pageVars, winVars, ctx, want, target, taken>>

-----------------------------------------------------------------------------
(* The end of a thread *)

SlotAfterExit_Kept(t) == ctx[t]
SlotAfterExit(t) == NULL

\* pthreads call cleanup_thread_data() with the TLS value, already reset to
\* NULL; it returns at once for the main thread.  Windows calls nothing: the
\* directory waits for the scan of another thread.
Exit(t) ==
    LET d == ctx[t] IN
    /\ pc[t] = "run"
    /\ ctx' = [ctx EXCEPT ![t] = SlotAfterExit(t)]
    /\ IF d = NULL \/ Win32 \/ t = Main
       THEN pc' = [pc EXCEPT ![t] = "dead"] /\ UNCHANGED target
       ELSE /\ pc' = [pc EXCEPT ![t] = "cleanup"]
            /\ target' = [target EXCEPT ![t] = d]
    /\ orphans' = IF (Win32 \/ t = Main) /\ d # NULL THEN orphans \cup {d} ELSE orphans
    /\ UNCHANGED <<dirVars, pageVars, want, blk, taken, held,
                   countVars, thread_list, global_cs, scan>>

\* A new thread may start later; it is also what a TLS destructor that runs
\* after cleanup() and allocates again looks like.
Spawn(t) ==
    /\ Goto(t, "dead", "run")
    /\ UNCHANGED <<dirVars, pageVars, winVars, ctx, want, blk, target, taken, held>>

-----------------------------------------------------------------------------
(* thread_alloc_dir::cleanup, by the dying thread or by a scanning one *)

\* Under cs: the pending blocks leave the counters and the chain is dropped.
\* n_pending_requests keeps its value.
DropPending_KeepsChain(d) ==
    /\ n_allocated_blocks' = LessBlocks(pending_chain[d])
    /\ n_allocated_objects' =
          [n_allocated_objects EXCEPT ![d] = @ - Cardinality(pending_chain[d])]
    /\ UNCHANGED pending_chain
DropPending(d) ==
    /\ n_allocated_blocks' = LessBlocks(pending_chain[d])
    /\ n_allocated_objects' =
          [n_allocated_objects EXCEPT ![d] = @ - Cardinality(pending_chain[d])]
    /\ pending_chain' = [pending_chain EXCEPT ![d] = {}]

CleanupFrame ==
    UNCHANGED <<n_pending_requests, chain, pageDir, pageChain, ctx, want, blk, taken, held, winVars>>

CleanupStart(t) ==
    /\ Goto(t, "cleanup", "sweep")
    /\ DropPending(target[t])
    /\ UNCHANGED <<dirs, terminated, pages, pageLive, target>>
    /\ CleanupFrame

Unused_OffByOne(d) == {p \in pages[d] : n_allocated_blocks[p] <= 1}
Unused(d) == {p \in pages[d] : n_allocated_blocks[p] = 0}

\* Outside cs: every page without an allocated block is freed and unlinked.
CleanupSweep(t) ==
    LET d == target[t] IN
    /\ Goto(t, "sweep", "check")
    /\ pageLive' = pageLive \ Unused(d)
    /\ pages' = [pages EXCEPT ![d] = @ \ Unused(d)]
    /\ UNCHANGED <<dirs, pending_chain, n_allocated_objects, terminated,
                   n_allocated_blocks, target>>
    /\ CleanupFrame

CleanupDone_NoRecheck(d) == TRUE
CleanupDone_OnlyEmpty(d) == n_allocated_objects[d] = 0
CleanupDone(d) == n_allocated_objects[d] = 0 \/ pending_chain[d] = {}

\* Under cs again: nothing allocated, so the directory goes; or nothing pending,
\* so the last frees finish the work; or more was freed meanwhile: once more.
CleanupCheck(t) ==
    LET d    == target[t]
        done == CleanupDone(d)
    IN
    /\ pc[t] = "check"
    /\ pc' = [pc EXCEPT ![t] = IF ~done THEN "sweep" ELSE IF Win32 THEN "scan" ELSE "dead"]
    /\ target' = IF done THEN [target EXCEPT ![t] = NULL] ELSE target
    /\ dirs' = IF n_allocated_objects[d] = 0 THEN dirs \ {d} ELSE dirs
    /\ terminated' = [terminated EXCEPT ![d] = n_allocated_objects[d] # 0 /\ done]
    /\ IF done THEN UNCHANGED <<n_allocated_blocks, n_allocated_objects, pending_chain>>
               ELSE DropPending(d)
    /\ UNCHANGED <<pages, pageLive>>
    /\ CleanupFrame

-----------------------------------------------------------------------------
(* _WIN32: looking for dead threads *)

\* ++check_for_dead_threads_count == CHECK_FOR_DEAD_THREADS_FREQUENCY, without a
\* lock: the value is read here ...
ReadCount(t) ==
    /\ Goto(t, "count", "counted")
    /\ check_count < COUNT_BOUND
    /\ seen' = [seen EXCEPT ![t] = check_count]
    /\ UNCHANGED <<dirVars, pageVars, ctx, want, blk, target, taken, held, check_count, listVars>>

\* ... and written back, and tested, here.
WriteCount(t) ==
    /\ pc[t] = "counted"
    /\ check_count' = seen[t] + 1
    /\ seen' = [seen EXCEPT ![t] = 0]
    /\ pc' = [pc EXCEPT ![t] = IF check_count' = CHECK_FREQUENCY THEN "lock" ELSE "carve"]
    /\ UNCHANGED <<dirVars, pageVars, ctx, want, blk, target, taken, held, listVars>>

ScanStart(t) ==
    /\ Goto(t, "lock", "scan")
    /\ global_cs = NULL
    /\ global_cs' = t
    /\ check_count' = 0
    /\ scan' = thread_list \ {ctx[t]}
    /\ UNCHANGED <<dirVars, pageVars, ctx, want, blk, target, taken, held,
                   seen, thread_list, orphans>>

\* !succeed || status != STILL_ACTIVE
ThreadEnded_Any(d) == TRUE
ThreadEnded(d) == d \in orphans

\* One directory of the list: the exit code of its thread decides.
ScanVisit(t) ==
    /\ pc[t] = "scan" /\ global_cs = t
    /\ \E d \in scan :
          /\ scan' = scan \ {d}
          /\ IF ThreadEnded(d)
             THEN /\ thread_list' = thread_list \ {d}
                  /\ orphans' = orphans \ {d}
                  /\ pc' = [pc EXCEPT ![t] = "cleanup"]
                  /\ target' = [target EXCEPT ![t] = d]
             ELSE UNCHANGED <<thread_list, orphans, pc, target>>
    /\ UNCHANGED <<dirVars, pageVars, ctx, want, blk, taken, held, countVars, global_cs>>

ScanEnd(t) ==
    /\ Goto(t, "scan", "carve")
    /\ scan = {}
    /\ global_cs' = NULL
    /\ UNCHANGED <<dirVars, pageVars, ctx, want, blk, target, taken, held,
                   countVars, thread_list, orphans, scan>>

-----------------------------------------------------------------------------
\* What a thread does once a call is under way ...
Step(t) ==
    \/ Register(t) \/ TakePending(t) \/ Drain(t)
    \/ TakeFromChain(t) \/ ChainEmpty(t) \/ Carve(t)
    \/ FreeOld(t) \/ FreeRemote(t)
    \/ CleanupStart(t) \/ CleanupSweep(t) \/ CleanupCheck(t)
    \/ ReadCount(t) \/ WriteCount(t) \/ ScanStart(t) \/ ScanVisit(t) \/ ScanEnd(t)

\* ... and what the application makes it do.
Call(t) ==
    \/ \E c \in Chain : Alloc(t, c) \/ Realloc(t, c)
    \/ Free(t) \/ AllocBig(t) \/ FreeBig(t) \/ ReallocBig(t) \/ ReallocToBig(t)
    \/ Exit(t) \/ Spawn(t)

Next == \E t \in Thread : Step(t) \/ Call(t)

Spec == Init /\ [][Next]_vars

\* A thread inside a call is scheduled until the call returns; the application
\* need never call, and no lock is promised to whoever waits for it.
FairSpec == Spec /\ \A t \in Thread : WF_vars(Step(t))

-----------------------------------------------------------------------------
PC == {"run", "register", "pending", "drain", "take", "carve", "free", "remote",
       "cleanup", "sweep", "check", "dead", "count", "counted", "lock", "scan"}

\* Every variable has its type, and no counter ever goes below zero (the one of
\* a page is a size_t).
TypeOK ==
    /\ dirs \subseteq Dir /\ pageLive \subseteq Page /\ held \in [Block \cup Big -> Nat]
    /\ chain \in [Dir -> [Chain -> SUBSET Block]]
    /\ pending_chain \in [Dir -> SUBSET Block]
    /\ n_pending_requests \in [Dir -> Nat]
    /\ n_allocated_objects \in [Dir -> Int]
    /\ \A d \in dirs : n_allocated_objects[d] >= 0
    /\ terminated \in [Dir -> BOOLEAN]
    /\ pages \in [Dir -> SUBSET Page]
    /\ pageDir \in [Page -> Dir \cup {NULL}]
    /\ pageChain \in [Page -> Chain \cup {NULL}]
    /\ n_allocated_blocks \in [Page -> Int]
    /\ \A p \in pageLive : n_allocated_blocks[p] >= 0
    /\ ctx \in [Thread -> Dir \cup {NULL}]
    /\ pc \in [Thread -> PC]
    /\ want \in [Thread -> Chain \cup {NULL}]
    /\ blk \in [Thread -> Block \cup {NULL}]
    /\ target \in [Thread -> Dir \cup {NULL}]
    /\ taken \in [Thread -> SUBSET Block]
    /\ check_count \in Nat /\ seen \in [Thread -> Nat]
    /\ orphans \subseteq Dir /\ thread_list \subseteq Dir /\ scan \subseteq Dir
    /\ global_cs \in Thread \cup {NULL}

\* The blocks that the counters stand for: held by the application, on their way
\* from one call to the next, or freed by another thread and not yet taken back.
OutstandingBlocks ==
    Held \cup ({blk[t] : t \in Thread} \ {NULL})
        \cup (UNION {pending_chain[d] : d \in dirs}) \cup (UNION {taken[t] : t \in Thread})

\* Although owners and strangers decrement them in three different functions,
\* some under cs and some not, n_allocated_blocks and n_allocated_objects count
\* exactly the blocks that are not back on a chain.
CountersExact ==
    /\ \A p \in pageLive : n_allocated_blocks[p] = Cardinality(InPage(OutstandingBlocks, p))
    /\ \A d \in dirs : n_allocated_objects[d] =
          Cardinality({b \in OutstandingBlocks : pageDir[PageOf(b)] = d})

\* cleanup() and the last frees give pages and directories back to free() while
\* other threads hold blocks and pointers: whatever a thread can still reach (a
\* block's page, its page's directory, the directory it works on, the blocks on
\* the chains of its own directory) has not been freed.
NoUseAfterFree ==
    /\ \A b \in OutstandingBlocks : PageOf(b) \in pageLive /\ pageDir[PageOf(b)] \in dirs
    /\ \A t \in Thread : {ctx[t], target[t]} \subseteq dirs \cup {NULL}
    /\ \A t \in Thread : ctx[t] # NULL =>
          \A c \in Chain : \A b \in chain[ctx[t]][c] :
             /\ PageOf(b) \in pageLive
             /\ pageDir[PageOf(b)] = ctx[t] /\ pageChain[PageOf(b)] = c
    /\ thread_list \subseteq dirs

Cleaning(t) == pc[t] \in {"cleanup", "sweep", "check"}

\* The threads that may touch directory d without its lock.
UnlockedUsers(d) == {t \in Thread : ctx[t] = d \/ (Cleaning(t) /\ target[t] = d)}

\* The counters, chains and pages of a directory need no lock only because one
\* thread at a time works on them, and none once the directory is terminated or
\* waits for a scan.
OneOwner ==
    \A d \in dirs :
       /\ \A t, u \in UnlockedUsers(d) : t = u
       /\ terminated[d] \/ d \in orphans => UnlockedUsers(d) = {}

\* Memory is not lost: a directory is worked on by a thread, or waits for a
\* scan, or is terminated with blocks that will still be freed, and then nothing
\* is left on its pending chain, which nobody looks at any more; a page is in
\* the list of such a directory, and of a terminated one only if it is in use.
NothingLost ==
    /\ \A d \in dirs :
          IF terminated[d] THEN n_allocated_objects[d] > 0 /\ pending_chain[d] = {}
          ELSE UnlockedUsers(d) # {} \/ d \in orphans
    /\ \A p \in pageLive :
          /\ pageDir[p] \in dirs /\ p \in pages[pageDir[p]]
          /\ terminated[pageDir[p]] => n_allocated_blocks[p] > 0

\* Whatever threads free each other's blocks, and whoever ends meanwhile, the
\* module keeps the promise of a heap: a block handed out was not in use.
Contract ==
    INSTANCE HeapContract WITH
        Block <- Block \cup Big,
        users <- [b \in Block \cup Big |->
                    held[b] + Cardinality({t \in Thread : blk[t] = b /\ pc[t] # "remote"})]
KeepsContract == Contract!HSpec

\* The loop in cleanup() starts again whenever a block was freed meanwhile; since
\* a directory in cleanup() allocates nothing, it ends all the same.
CleanupTerminates == \A t \in Thread : Cleaning(t) ~> ~Cleaning(t)

\* CHECK_FOR_DEAD_THREADS_FREQUENCY is documented as the "period of checking for
\* dead threads in alloc method": once the count is reached a check is under way.
CheckIsPeriodic ==
    check_count >= CHECK_FREQUENCY => global_cs # NULL \/ \E t \in Thread : pc[t] = "lock"
=============================================================================
