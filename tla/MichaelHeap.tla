----------------------------- MODULE MichaelHeap -----------------------------
(***************************************************************************)
(* The lock-free heap of michael, for one size class of one processor: any *)
(* number of threads allocate from, and free to, its superblocks.          *)
(*                                                                         *)
(* Atomicity.  A step is one access to shared memory.  A loop that loads a *)
(* word, computes from it alone and compares-and-swaps it is one step, at  *)
(* the CAS that succeeds.  The loops that pop a block also read the link   *)
(* in the block: there the load and the CAS are two steps.  The tag that   *)
(* makes such a CAS fail is never compared otherwise: the model keeps who  *)
(* has loaded an anchor before its tag was changed (stale).                *)
(***************************************************************************)
EXTENDS Integers, Sequences, FiniteSets, SequencesExt

CONSTANTS
    Thread,
    Desc,               \* superblock descriptors
    nCapacity,          \* blocks of a superblock
    c_nMaxCredits,
    MaxSuperblocks,     \* bound: how often a superblock is set up
    NULL

ASSUME MichaelAssumption ==
    /\ nCapacity \in 2 .. 2048 /\ c_nMaxCredits \in Nat \ {0}
    /\ MaxSuperblocks \in Nat /\ IsFiniteSet(Thread) /\ IsFiniteSet(Desc)
    /\ NULL \notin Desc \cup Nat

VARIABLES
    active,             \* of the processor heap: [desc, credits]
    anchor, nNextFree,  \* of every descriptor; links of its superblock's blocks
    pPartial, partialList, listSBDescFree,
    fresh,              \* descriptors that were never allocated
    live,               \* descriptors whose superblock has its memory
    my,                 \* my[t]: what thread t is doing, its locals
    stale,              \* threads that hold an anchor with an old tag
    users, made         \* the application; for the bound

heapVars == <<active, pPartial, partialList, listSBDescFree, fresh, live, made>>
vars == <<heapVars, anchor, nNextFree, my, stale, users>>

Index == 0 .. nCapacity - 1
Block == Desc \X Index
ACTIVE == "ACTIVE"  FULL == "FULL"  PARTIAL == "PARTIAL"  EMPTY == "EMPTY"

Min2(a, b) == IF a < b THEN a ELSE b
NoActive == [desc |-> NULL, credits |-> 0]

\* desc: pDesc; last: took the last credit; more: nMoreCredits; seen: the anchor
\* loaded and the link read; block: index of the block popped; then: where to go on.
Idle == [pc |-> "idle", desc |-> NULL, last |-> FALSE, more |-> 0, seen |-> NULL,
         block |-> NULL, then |-> "idle"]

Init ==
    /\ active = NoActive
    /\ anchor = [d \in Desc |-> [avail |-> 0, count |-> 0, state |-> EMPTY]]
    /\ nNextFree = [d \in Desc |-> [i \in Index |-> 0]]
    /\ pPartial = NULL /\ partialList = <<>> /\ listSBDescFree = <<>>
    /\ fresh = Desc /\ live = {}
    /\ my = [t \in Thread |-> Idle] /\ stale = {}
    /\ users = [b \in Block |-> 0] /\ made = 0

-----------------------------------------------------------------------------
Pc(t) == my[t].pc
Goto(t, label) == my' = [my EXCEPT ![t].pc = label]

\* tag += 1 in the anchor of d, by t.
NewTag_None(t, d) == stale' = stale \ {t}
NewTag(t, d) == stale' = (stale \ {t}) \cup {u \in Thread \ {t} : Pc(u) = "cas" /\ my[u].desc = d}

\* The allocation returns block i of d.
Return(t, d, i) ==
    /\ users' = [users EXCEPT ![<<d, i>>] = @ + 1]
    /\ my' = [my EXCEPT ![t] = Idle]

\* alloc_from_active: a credit is taken, with the last one the superblock itself.
\* Every round of int_alloc begins here.
Reserve(t) ==
    /\ Pc(t) \in {"idle", "reserve"}
    /\ IF active.desc = NULL
       THEN Goto(t, "partial") /\ UNCHANGED active
       ELSE LET last == active.credits = 0
            IN  /\ active' = IF last THEN NoActive ELSE [active EXCEPT !.credits = @ - 1]
                /\ my' = [my EXCEPT ![t] = [Idle EXCEPT !.pc = "pop", !.desc = active.desc, !.last = last]]
    /\ UNCHANGED <<anchor, nNextFree, pPartial, partialList, listSBDescFree, fresh, live, made,
                   stale, users>>

\* The anchor is loaded, then the link of its first block.
PopLoad(t) ==
    /\ Pc(t) = "pop"
    /\ LET d == my[t].desc
       IN  my' = [my EXCEPT ![t].pc = "cas",
                            ![t].seen = [anchor |-> anchor[d], next |-> nNextFree[d][anchor[d].avail]]]
    /\ UNCHANGED <<heapVars, anchor, nNextFree, stale, users>>

CasSucceeds_Always(t) == TRUE
CasSucceeds(t) == t \notin stale /\ my[t].seen.anchor = anchor[my[t].desc]

PopAgain(t) ==
    /\ Pc(t) = "cas"
    /\ ~CasSucceeds(t)
    /\ my' = [my EXCEPT ![t].pc = "pop", ![t].seen = NULL]
    /\ stale' = stale \ {t}
    /\ UNCHANGED <<heapVars, anchor, nNextFree, users>>

\* Who took the last credit takes more, all there are, or marks the superblock full.
Popped(t) ==
    LET old  == my[t].seen.anchor
        more == Min2(old.count, c_nMaxCredits)
    IN  [avail |-> my[t].seen.next,
         count |-> IF my[t].last THEN old.count - more ELSE old.count,
         state |-> IF my[t].last /\ old.count = 0 THEN FULL ELSE old.state]

Pop(t) ==
    /\ Pc(t) = "cas"
    /\ CasSucceeds(t)
    /\ LET d    == my[t].desc
           old  == my[t].seen.anchor
           more == IF my[t].last THEN old.count - Popped(t).count ELSE my[t].more
       IN  /\ anchor' = [anchor EXCEPT ![d] = Popped(t)]
           /\ NewTag(t, d)
           /\ IF more = 0
              THEN Return(t, d, old.avail)
              ELSE /\ my' = [my EXCEPT ![t] = [Idle EXCEPT !.pc = "install", !.desc = d,
                                                   !.more = more, !.block = old.avail]]
                   /\ UNCHANGED users
    /\ UNCHANGED <<heapVars, nNextFree>>

\* update_active: the superblock becomes active again, with the credits taken, ...
Install(t) ==
    /\ Pc(t) = "install"
    /\ IF active.desc = NULL
       THEN /\ active' = [desc |-> my[t].desc, credits |-> my[t].more - 1]
            /\ Return(t, my[t].desc, my[t].block)
       ELSE Goto(t, "giveback") /\ UNCHANGED <<active, users>>
    /\ UNCHANGED <<anchor, nNextFree, pPartial, partialList, listSBDescFree, fresh, live, made, stale>>

\* ... or another one is active by now: the credits go back.  The tag stays.
GivenBack_OneLess(t) == my[t].more - 1
GivenBack(t) == my[t].more

GiveBack(t) ==
    /\ Pc(t) = "giveback"
    /\ anchor' = [anchor EXCEPT ![my[t].desc].count = @ + GivenBack(t),
                                ![my[t].desc].state = PARTIAL]
    /\ my' = [my EXCEPT ![t].pc = "add", ![t].more = 0]
    /\ UNCHANGED <<heapVars, nNextFree, stale, users>>

\* add_partial, in an allocation or in free(): into the one place, else on the list.
AfterAdding(t) ==
    IF my[t].block = NULL THEN my' = [my EXCEPT ![t] = Idle] /\ UNCHANGED users
    ELSE Return(t, my[t].desc, my[t].block)

AddPartial(t) ==
    /\ Pc(t) = "add"
    /\ IF pPartial = NULL THEN pPartial' = my[t].desc /\ AfterAdding(t)
       ELSE Goto(t, "push") /\ UNCHANGED <<pPartial, users>>
    /\ UNCHANGED <<active, anchor, nNextFree, partialList, listSBDescFree, fresh, live, made, stale>>

Listed_Not(d) == partialList
Listed(d) == Append(partialList, d)

PushPartial(t) ==
    /\ Pc(t) = "push"
    /\ partialList' = Listed(my[t].desc)
    /\ AfterAdding(t)
    /\ UNCHANGED <<active, anchor, nNextFree, pPartial, listSBDescFree, fresh, live, made, stale>>

-----------------------------------------------------------------------------
\* get_partial
GetPartial(t) ==
    /\ Pc(t) = "partial"
    /\ IF pPartial = NULL THEN Goto(t, "list")
       ELSE my' = [my EXCEPT ![t].pc = "take", ![t].desc = pPartial]
    /\ pPartial' = NULL
    /\ UNCHANGED <<active, anchor, nNextFree, partialList, listSBDescFree, fresh, live, made, stale, users>>

PopPartial(t) ==
    /\ Pc(t) = "list"
    /\ IF partialList = <<>> THEN Goto(t, "new") /\ UNCHANGED partialList
       ELSE /\ my' = [my EXCEPT ![t].pc = "take", ![t].desc = Head(partialList)]
            /\ partialList' = Tail(partialList)
    /\ UNCHANGED <<active, anchor, nNextFree, pPartial, listSBDescFree, fresh, live, made, stale, users>>

\* alloc_from_partial: a block and more credits are reserved, unless the superblock
\* was found empty meanwhile, by a free() that did not find it on the list.  When
\* count is 0 the unsigned count - 1 is above every bound, and 11 bits are kept.
MoreOfPartial(count) ==
    IF count = 0 THEN c_nMaxCredits ELSE Min2(count - 1, c_nMaxCredits)

TakePartial(t) ==
    /\ Pc(t) = "take"
    /\ LET d    == my[t].desc
           old  == anchor[d]
           more == MoreOfPartial(old.count)
       IN  IF old.state = EMPTY
           THEN /\ my' = [my EXCEPT ![t].pc = "release", ![t].then = "partial"]
                /\ UNCHANGED <<anchor, stale>>
           ELSE /\ anchor' = [anchor EXCEPT ![d].count = (@ - more - 1) % 2048,
                                            ![d].state = IF more > 0 THEN ACTIVE ELSE FULL]
                /\ my' = [my EXCEPT ![t].pc = "pop", ![t].more = more]
                /\ NewTag(t, d)
    /\ UNCHANGED <<heapVars, nNextFree, users>>

\* free_superblock: memory and descriptor become available to others.
Release(t) ==
    /\ Pc(t) = "release"
    /\ live' = live \ {my[t].desc}
    /\ listSBDescFree' = Append(listSBDescFree, my[t].desc)
    /\ my' = [my EXCEPT ![t] = [Idle EXCEPT !.pc = my[t].then]]
    /\ UNCHANGED <<active, anchor, nNextFree, pPartial, partialList, fresh, made, stale, users>>

\* alloc_from_new_superblock: the descriptor may be a used one.  The last link is 0:
\* who follows it must know from the count that there is no block left.
SetUp(d) ==
    /\ anchor' = [anchor EXCEPT ![d] =
          [avail |-> 1, count |-> nCapacity - 1 - Min2(nCapacity - 1, c_nMaxCredits), state |-> ACTIVE]]
    /\ nNextFree' = [nNextFree EXCEPT ![d] = [i \in Index |-> (i + 1) % nCapacity]]

NewSuperblock(t) ==
    /\ Pc(t) = "new"
    /\ made < MaxSuperblocks
    /\ made' = made + 1
    /\ \E d \in Desc :
          /\ IF listSBDescFree = <<>>
             THEN d \in fresh /\ fresh' = fresh \ {d} /\ UNCHANGED listSBDescFree
             ELSE d = Head(listSBDescFree) /\ listSBDescFree' = Tail(listSBDescFree) /\ UNCHANGED fresh
          /\ SetUp(d)
          /\ NewTag(t, d)
          /\ live' = live \cup {d}
          /\ my' = [my EXCEPT ![t].pc = "publish", ![t].desc = d]
    /\ UNCHANGED <<active, pPartial, partialList, users>>

\* The new superblock becomes active; its first block is returned.  If there is an
\* active one by now, all begins again.
Publish(t) ==
    /\ Pc(t) = "publish"
    /\ IF active.desc = NULL
       THEN /\ active' = [desc |-> my[t].desc, credits |-> Min2(nCapacity - 1, c_nMaxCredits) - 1]
            /\ Return(t, my[t].desc, 0)
       ELSE /\ my' = [my EXCEPT ![t].pc = "release", ![t].then = "reserve"]
            /\ UNCHANGED <<active, users>>
    /\ UNCHANGED <<anchor, nNextFree, pPartial, partialList, listSBDescFree, fresh, live, made, stale>>

-----------------------------------------------------------------------------
\* free(): the block is pushed; if all blocks are free now, the superblock is empty.
IsLast_OneOff(count) == count = nCapacity - 2
IsLast(count) == count = nCapacity - 1

Pushed(old, i) ==
    [avail |-> i,
     count |-> IF IsLast(old.count) THEN old.count ELSE old.count + 1,
     state |-> IF IsLast(old.count) THEN EMPTY ELSE IF old.state = FULL THEN PARTIAL ELSE old.state]

Free(t) ==
    /\ Pc(t) = "idle"
    /\ \E b \in Block :
          LET d == b[1]
              new == Pushed(anchor[d], b[2])
          IN  /\ users[b] > 0
              /\ users' = [users EXCEPT ![b] = @ - 1]
              /\ nNextFree' = [nNextFree EXCEPT ![d][b[2]] = anchor[d].avail]
              /\ anchor' = [anchor EXCEPT ![d] = new]
              /\ NewTag(t, d)
              /\ CASE new.state = EMPTY -> my' = [my EXCEPT ![t].pc = "unlink", ![t].desc = d]
                   [] new.state # EMPTY /\ anchor[d].state = FULL ->
                         my' = [my EXCEPT ![t].pc = "add", ![t].desc = d]
                   [] OTHER -> UNCHANGED my
    /\ UNCHANGED heapVars

\* An empty superblock is released by who takes it off the list.  If it is not on
\* the list it is in pPartial, or on its way to or from there.
Unlink(t) ==
    /\ Pc(t) = "unlink"
    /\ IF my[t].desc \in ToSet(partialList)
       THEN /\ \E i \in 1 .. Len(partialList) :
                  partialList[i] = my[t].desc /\ partialList' = RemoveAt(partialList, i)
            /\ Goto(t, "release")
       ELSE my' = [my EXCEPT ![t] = Idle] /\ UNCHANGED partialList
    /\ UNCHANGED <<active, anchor, nNextFree, pPartial, listSBDescFree, fresh, live, made, stale, users>>

Next == \E t \in Thread :
    \/ Reserve(t) \/ PopLoad(t) \/ PopAgain(t) \/ Pop(t)
    \/ Install(t) \/ GiveBack(t) \/ AddPartial(t) \/ PushPartial(t)
    \/ GetPartial(t) \/ PopPartial(t) \/ TakePartial(t) \/ Release(t)
    \/ NewSuperblock(t) \/ Publish(t) \/ Free(t) \/ Unlink(t)

Spec == Init /\ [][Next]_vars

-----------------------------------------------------------------------------
\* The blocks of d that threads have reserved and not yet popped.
Reserved(d) == Cardinality({t \in Thread : my[t].desc = d /\ Pc(t) \in {"pop", "cas"}})
               + FoldSet(LAMBDA t, n : n + my[t].more, 0, {t \in Thread : my[t].desc = d})
Credits(d) == IF active.desc = d THEN active.credits + 1 ELSE 0

\* The blocks of d handed out, or popped and about to be.
Used(d) == {i \in Index : users[<<d, i>>] > 0
                          \/ \E t \in Thread : my[t].desc = d /\ my[t].block = i}

\* The first n blocks of the free list of d.
FreeList(d, n) ==
    LET at[k \in 1 .. n] == IF k = 1 THEN anchor[d].avail ELSE nNextFree[d][at[k - 1]]
    IN  [k \in 1 .. n |-> at[k]]

\* Superblocks that have been set up and not found empty.
Serving == {d \in live : anchor[d].state # EMPTY
                         /\ \A t \in Thread : my[t].desc = d => Pc(t) \notin {"publish", "release"}}

\* Count, credits and the reservations in flight add up: through every transfer of
\* credits between the anchor, the active word and the threads, each block that is
\* not used can be reserved exactly once.
CreditsExact ==
    \A d \in Serving :
       anchor[d].count + Credits(d) + Reserved(d) + Cardinality(Used(d)) = nCapacity

\* The free list holds the blocks that are not used, each of them once.
ListExact ==
    \A d \in Serving :
       LET n == nCapacity - Cardinality(Used(d))
       IN  ToSet(FreeList(d, n)) = Index \ Used(d)

\* A superblock keeps its memory while a block of it is used or reserved.
NoUseAfterFree ==
    \A d \in Desc : (Used(d) # {} \/ Reserved(d) > 0 \/ Credits(d) > 0) => d \in live

\* A superblock with blocks to hand out is where an allocation looks for it, or in
\* the hands of a thread; an empty one likewise, or about to be released.
NothingLost ==
    \A d \in live :
       \/ anchor[d].state = FULL
       \/ active.desc = d \/ pPartial = d \/ d \in ToSet(partialList)
       \/ \E t \in Thread : my[t].desc = d

\* No block is handed out twice.
Contract == INSTANCE HeapContract
KeepsContract == Contract!HSpec

\* "superblock is empty and may be freed": what is freed has no block in use.
FreedWhenEmpty == [][\A d \in live \ live' : Used(d) = {}]_vars
=============================================================================
