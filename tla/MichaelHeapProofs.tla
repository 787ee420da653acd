-------------------------- MODULE MichaelHeapProofs --------------------------
(***************************************************************************)
(* The promises of MichaelHeap, for any number of threads, descriptors and *)
(* blocks.                                                                 *)
(*                                                                         *)
(* free() that empties a superblock takes it off the list in a later step, *)
(* and releases it without looking at the anchor again.  If meanwhile the  *)
(* superblock was released by another and its descriptor used for a new    *)
(* one, what is released is not empty.  So the promises hold of the        *)
(* behaviours in which that step finds the superblock empty (CarefulSpec), *)
(* and no such condition is needed when a descriptor is used once          *)
(* (DescOnce) or when there is one thread (OneThread).                     *)
(*                                                                         *)
(* The inductive invariant IInv:                                           *)
(*   OnePlace, Somewhere   a superblock with something to give is active,  *)
(*                         in pPartial, on the list, or in the hands of    *)
(*                         one thread, and never in two of these places;   *)
(*   States                the state tells which of the places it can be,  *)
(*                         so that who finds it knows what to expect;      *)
(*   ThreadsOK             what a thread has loaded is true until the tag  *)
(*                         changes;                                        *)
(*   Counts                CreditsExact, with one thread's credits in      *)
(*                         place of the sum (OnePlace lets no other have   *)
(*                         any), and zero for what does not serve;         *)
(*   Chains                the links lead through the unused blocks, each  *)
(*                         once, in an order: CreditsExact then makes the  *)
(*                         first of them one that can be popped.           *)
(***************************************************************************)
EXTENDS MichaelHeap, SequenceLemmas

\* A step of free() that takes a superblock off the list to release it finds it still
\* empty.  The code does not look again: see FreedWhenEmpty.
StillEmpty ==
    \A t \in Thread :
       Pc(t) = "unlink" /\ my'[t].pc = "release" => anchor[my[t].desc].state = EMPTY

\* The heap, with superblocks released only while they are empty.
CarefulSpec == Spec /\ [][StillEmpty]_vars

-----------------------------------------------------------------------------
Seeking == {"idle", "reserve", "partial", "list", "new"}
Popping == {"pop", "cas"}
Carrying == {"install", "giveback"}
Adding == {"add", "push"}
Keeping == Carrying \cup Adding \cup {"take", "publish", "release"}

Anchors == [avail : Index, count : Nat, state : {ACTIVE, FULL, PARTIAL, EMPTY}]
Loads == [anchor : Anchors, next : Index]
Locals == [pc : Seeking \cup Popping \cup Keeping \cup {"unlink"}, desc : Desc \cup {NULL},
           last : BOOLEAN, more : Nat, seen : Loads \cup {NULL},
           block : Index \cup {NULL}, then : {"idle", "reserve", "partial"}]

\* The values of the variables.
TypeOK ==
    /\ active \in [desc : Desc \cup {NULL}, credits : Nat]
    /\ anchor \in [Desc -> Anchors] /\ nNextFree \in [Desc -> [Index -> Index]]
    /\ pPartial \in Desc \cup {NULL} /\ partialList \in Seq(Desc) /\ listSBDescFree \in Seq(Desc)
    /\ fresh \in SUBSET Desc /\ live \in SUBSET Desc
    /\ my \in [Thread -> Locals] /\ stale \in SUBSET Thread
    /\ users \in [Block -> {0, 1}] /\ made \in Nat

\* Which locals are set where.
LocalsOK(r) ==
    /\ r.desc = NULL <=> r.pc \in Seeking
    /\ r.more > 0 => r.pc \in Popping \cup Carrying
    /\ r.pc \in Carrying => r.more > 0 /\ r.block # NULL
    /\ r.block # NULL => r.pc \in Carrying \cup Adding
    /\ r.last => r.pc \in Popping /\ r.more = 0
    /\ r.pc = "cas" => r.seen \in Loads
LocalsSet == \A t \in Thread : LocalsOK(my[t])

\* The threads that alone have the superblock in hand: what it has to give is where
\* they take it.  Who pops the block of a single credit has not.
Owns(t) == Pc(t) \in Keeping \/ (Pc(t) \in Popping /\ (my[t].last \/ my[t].more > 0))

\* Where a superblock with something to give can be found.
Findable(d) == d = active.desc \/ d = pPartial \/ d \in ToSet(partialList)

\* A superblock has one owner, and cannot be found as long.
Alone ==
    /\ \A t, u \in Thread : Owns(t) /\ Owns(u) /\ my[t].desc = my[u].desc => t = u
    /\ \A t \in Thread : Owns(t) => my[t].desc \in live /\ ~Findable(my[t].desc)

\* It can be found in one place, once.
FoundOnce ==
    /\ \A d \in Desc : Findable(d) => d \in live
    /\ pPartial # NULL => pPartial # active.desc
    /\ \A d \in ToSet(partialList) : d # active.desc /\ d # pPartial
    /\ Distinct(partialList)

\* A descriptor is free once, and only without a superblock.
FreeOnce ==
    /\ Distinct(listSBDescFree)
    /\ \A d \in live : d \notin fresh /\ d \notin ToSet(listSBDescFree)
    /\ \A d \in fresh : d \notin ToSet(listSBDescFree)

OnePlace == Alone /\ FoundOnce /\ FreeOnce

\* Only a full superblock is in no place: free() will put it there.
Somewhere ==
    \A d \in live :
       anchor[d].state = FULL \/ Findable(d) \/ \E t \in Thread : Owns(t) /\ my[t].desc = d

\* The credits of a new superblock.
NewCredits == Min2(nCapacity - 1, c_nMaxCredits)

\* The state tells the place and what the count can be.
States ==
    /\ active.desc # NULL => anchor[active.desc].state = ACTIVE
    /\ \A d \in Desc : d = pPartial \/ d \in ToSet(partialList) =>
          anchor[d].state \in {PARTIAL, EMPTY}
    /\ \A d \in Desc : /\ anchor[d].state = PARTIAL => anchor[d].count > 0
                       /\ anchor[d].state = FULL => anchor[d].count = 0

\* A new superblock is as it was set up.
AsSetUp(d) ==
    /\ anchor[d] = [avail |-> 1, count |-> nCapacity - 1 - NewCredits, state |-> ACTIVE]
    /\ nNextFree[d] = [i \in Index |-> (i + 1) % nCapacity]

\* What a thread has found out about its superblock and may rely on: the state, when
\* it owns it; the link it has loaded, unless the tag was changed; that nobody uses the
\* block it is about to return.
ThreadOK(t) ==
    /\ Pc(t) \in Adding \cup {"take"} => anchor[my[t].desc].state \in {PARTIAL, EMPTY}
    /\ Pc(t) \in Popping \cup Carrying /\ Owns(t) => anchor[my[t].desc].state = ACTIVE
    /\ Pc(t) = "publish" => AsSetUp(my[t].desc)
    /\ Pc(t) = "cas" /\ t \notin stale =>
          /\ my[t].seen.anchor.avail = anchor[my[t].desc].avail
          /\ my[t].seen.next = nNextFree[my[t].desc][my[t].seen.anchor.avail]
    /\ my[t].block # NULL => users[<<my[t].desc, my[t].block>>] = 0
ThreadsOK == \A t \in Thread : ThreadOK(t)

\* Reserved() without a sum: one thread at most carries more of a superblock's blocks.
Poppers(d) == {t \in Thread : my[t].desc = d /\ Pc(t) \in Popping}
Carriers(d) == {t \in Thread : my[t].desc = d /\ my[t].more > 0}
More(d) == IF Carriers(d) = {} THEN 0 ELSE my[CHOOSE t \in Carriers(d) : TRUE].more
Out(d) == Credits(d) + Cardinality(Poppers(d)) + More(d) + Cardinality(Used(d))

\* CreditsExact, and nothing of a superblock that does not serve is out.
CountOK(d) ==
    /\ d \in Serving => anchor[d].count + Out(d) = nCapacity
    /\ d \notin Serving => Out(d) = 0
Counts == \A d \in Desc : CountOK(d)

\* The unused blocks of d, each once, in the order of the links.
Chain(d, f, n) ==
    /\ f \in [1 .. n -> Index \ Used(d)]
    /\ \A j, k \in 1 .. n : f[j] = f[k] => j = k
    /\ \A i \in Index \ Used(d) : \E k \in 1 .. n : f[k] = i
    /\ n > 0 => f[1] = anchor[d].avail
    /\ \A k \in 1 .. n - 1 : f[k + 1] = nNextFree[d][f[k]]
ChainOK(d) == d \in Serving => \E f : Chain(d, f, nCapacity - Cardinality(Used(d)))
Chains == \A d \in Desc : ChainOK(d)

\* The inductive invariant.
IInv ==
    /\ TypeOK /\ LocalsSet /\ OnePlace /\ Somewhere /\ States /\ ThreadsOK
    /\ Counts /\ Chains

-----------------------------------------------------------------------------
\* The sum over threads of which one at most has something to add.
LEMMA ReservedIs ==
  ASSUME TypeOK, NEW d \in Desc,
         \A t, u \in Carriers(d) : t = u
  PROVE  Reserved(d) = Cardinality(Poppers(d)) + More(d)
<1> DEFINE S == {t \in Thread : my[t].desc = d}
           Eqn(it) == it = [s \in SUBSET S |->
                              IF s = {} THEN 0
                              ELSE it[s \ {CHOOSE x \in s : TRUE}] + my[CHOOSE x \in s : TRUE].more]
           G == [s \in SUBSET S |-> IF s \cap Carriers(d) = {} THEN 0 ELSE More(d)]
           iter == CHOOSE it : Eqn(it)
<1>1. FoldSet(LAMBDA t, n : n + my[t].more, 0, S) = iter[S]
  BY DEF FoldSet, MapThenFoldSet
<1>2. \A t \in Carriers(d) : More(d) = my[t].more
  BY Zenon DEF More
<1>3. \A t \in S \ Carriers(d) : my[t].more = 0
  BY DEF Carriers, TypeOK, Locals
<1>4. More(d) \in Nat
  <2>1. \A t \in Thread : my[t].more \in Nat
    BY DEF TypeOK, Locals
  <2> QED
    BY <1>2, <2>1 DEF More, Carriers
<1>5. Eqn(G)
  <2>1. ASSUME NEW s \in SUBSET S, s # {}
        PROVE  G[s] = G[s \ {CHOOSE x \in s : TRUE}] + my[CHOOSE x \in s : TRUE].more
    <3>1. PICK c \in s : c = CHOOSE x \in s : TRUE
      BY <2>1
    <3>2. CASE c \in Carriers(d)
      <4>1. (s \ {c}) \cap Carriers(d) = {} /\ s \cap Carriers(d) # {}
        BY <3>2, <3>1
      <4> QED
        BY <4>1, <3>1, <3>2, <1>2, <1>4
    <3>3. CASE c \notin Carriers(d)
      <4>1. (s \ {c}) \cap Carriers(d) = s \cap Carriers(d) /\ my[c].more = 0
        BY <3>3, <1>3, <3>1
      <4> QED
        BY <4>1, <3>1, <1>4
    <3> QED
      BY <3>2, <3>3
  <2>2. G[{}] = 0
    OBVIOUS
  <2> QED
    BY <2>1, <2>2, Zenon
<1>6. Eqn(iter)
  <2> HIDE DEF G, Eqn
  <2> QED
    BY <1>5
<1>7. iter[S] = G[S]
  <2> DEFINE Bad == {n \in Nat : \E s \in SUBSET S : Cardinality(s) = n /\ iter[s] # G[s]}
  <2>1. IsFiniteSet(S) /\ \A s \in SUBSET S : IsFiniteSet(s) /\ Cardinality(s) \in Nat
    BY MichaelAssumption, FS_Subset, FS_CardinalityType
  <2>2. CASE Bad # {}
    <3>1. PICK m \in Bad : \A k \in Bad : m <= k
      <4> HIDE DEF Bad
      <4>1. Bad \in SUBSET Nat
        BY DEF Bad
      <4> QED
        BY <2>2, <4>1, LeastNumber
    <3>2. PICK s \in SUBSET S : Cardinality(s) = m /\ iter[s] # G[s]
      OBVIOUS
    <3> HIDE DEF iter, G
    <3>3. s # {}
      <4>1. iter[{}] = 0 /\ G[{}] = 0
        BY <1>5, <1>6
      <4> QED
        BY <3>2, <4>1
    <3>4. PICK c \in s : c = CHOOSE x \in s : TRUE
      BY <3>3
    <3>5. Cardinality(s \ {c}) = Cardinality(s) - 1
      BY <2>1, FS_RemoveElement
    <3>6. iter[s \ {c}] = G[s \ {c}]
      <4>1. PICK k : k = Cardinality(s \ {c})
        OBVIOUS
      <4>2. k \in Nat /\ k < m
        BY <4>1, <3>2, <3>5, <2>1
      <4>3. k \notin Bad
        BY <4>2, <3>1
      <4>4. PICK r \in SUBSET S : r = s \ {c}
        OBVIOUS
      <4>5. Cardinality(r) = k
        BY <4>1, <4>4
      <4>6. iter[r] = G[r]
        BY <4>2, <4>3, <4>5
      <4> QED
        BY <4>4, <4>6
    <3>7. iter[s] = iter[s \ {c}] + my[c].more /\ G[s] = G[s \ {c}] + my[c].more
      <4>1. ASSUME NEW f, Eqn(f)
            PROVE  f[s] = f[s \ {CHOOSE x \in s : TRUE}] + my[CHOOSE x \in s : TRUE].more
        <5>1. f[s] = IF s = {} THEN 0
                     ELSE f[s \ {CHOOSE x \in s : TRUE}] + my[CHOOSE x \in s : TRUE].more
          BY <4>1, Zenon
        <5> QED
          BY <5>1, <3>3, Zenon
      <4> HIDE DEF Eqn
      <4> QED
        BY <4>1, <1>5, <1>6, <3>4, Zenon
    <3> QED
      BY <3>2, <3>6, <3>7
  <2>3. CASE Bad = {}
    BY <2>3, <2>1
  <2> QED
    BY <2>2, <2>3
<1>8. G[S] = More(d)
  <2>1. S \cap Carriers(d) = Carriers(d)
    BY DEF Carriers
  <2>2. G[S] = IF S \cap Carriers(d) = {} THEN 0 ELSE More(d)
    OBVIOUS
  <2>3. Carriers(d) = {} => More(d) = 0
    BY DEF More
  <2> HIDE DEF S, G
  <2> QED
    BY <2>1, <2>2, <2>3
<1> QED
  <2> HIDE DEF iter, G
  <2>1. Poppers(d) = {t \in Thread : my[t].desc = d /\ Pc(t) \in {"pop", "cas"}}
    BY DEF Poppers, Popping
  <2> QED
    BY <1>1, <1>7, <1>8, <2>1 DEF Reserved

\* NULL is no descriptor and no block.
LEMMA NullIs == NULL \notin Desc /\ NULL \notin Index
BY MichaelAssumption DEF Index

\* Min2 is the lesser of two numbers.
LEMMA Min2Is ==
  ASSUME NEW a \in Int, NEW b \in Int
  PROVE  Min2(a, b) \in {a, b} /\ Min2(a, b) <= a /\ Min2(a, b) <= b
BY DEF Min2

\* What is counted is finite.
FiniteSets(d) ==
    /\ IsFiniteSet(Poppers(d)) /\ Cardinality(Poppers(d)) \in Nat
    /\ IsFiniteSet(Used(d)) /\ Cardinality(Used(d)) \in Nat
    /\ Cardinality(Used(d)) <= nCapacity /\ Used(d) \subseteq Index

\* What is counted is finite, before a step and after it.
LEMMA Finite ==
  ASSUME NEW d
  PROVE  FiniteSets(d) /\ FiniteSets(d)'
<1>1. Poppers(d) \in SUBSET Thread /\ Used(d) \in SUBSET Index
  BY DEF Poppers, Used
<1>2. Poppers(d)' \in SUBSET Thread /\ Used(d)' \in SUBSET Index
  BY DEF Poppers, Used
<1>3. IsFiniteSet(Index) /\ Cardinality(Index) = nCapacity
  BY MichaelAssumption, FS_Interval DEF Index
<1>4. IsFiniteSet(Thread)
  BY MichaelAssumption
<1>5. FiniteSets(d)
  BY <1>1, <1>3, <1>4, FS_Subset, FS_CardinalityType DEF FiniteSets
<1>6. FiniteSets(d)'
  BY <1>2, <1>3, <1>4, FS_Subset, FS_CardinalityType DEF FiniteSets
<1> QED
  BY <1>5, <1>6

\* Who carries blocks of a superblock owns it: one thread at most.
LEMMA OneCarrier ==
  ASSUME LocalsSet, OnePlace, NEW d
  PROVE  \A t, u \in Carriers(d) : t = u
BY DEF LocalsSet, LocalsOK, OnePlace, Alone, Carriers, Owns, Keeping, Pc

\* What More is.
MoreFacts(d) ==
    /\ More(d) \in Nat
    /\ \A t \in Thread : my[t].desc = d /\ my[t].more > 0 => More(d) = my[t].more
    /\ (\A t \in Thread : my[t].desc = d => my[t].more = 0) => More(d) = 0

\* What More is follows from there being one carrier at most.
LEMMA MoreIs ==
  ASSUME NEW d
  PROVE  /\ TypeOK /\ LocalsSet /\ OnePlace => MoreFacts(d)
         /\ TypeOK' /\ LocalsSet' /\ OnePlace' => MoreFacts(d)'
<1>1. ASSUME TypeOK, LocalsSet, OnePlace
      PROVE  MoreFacts(d)
  <2>1. \A t \in Thread : my[t].more \in Nat
    BY <1>1 DEF TypeOK, Locals
  <2>2. \A t, u \in Carriers(d) : t = u
    BY <1>1 DEF LocalsSet, LocalsOK, OnePlace, Alone, Carriers, Owns, Keeping, Pc
  <2>3. Carriers(d) # {} => (CHOOSE t \in Carriers(d) : TRUE) \in Carriers(d)
    OBVIOUS
  <2> QED
    BY <2>1, <2>2, <2>3, Zenon DEF More, Carriers, MoreFacts
<1>2. ASSUME TypeOK', LocalsSet', OnePlace'
      PROVE  MoreFacts(d)'
  <2>1. \A t \in Thread : my'[t].more \in Nat
    BY <1>2 DEF TypeOK, Locals
  <2>2. \A t, u \in Carriers(d)' : t = u
    BY <1>2 DEF LocalsSet, LocalsOK, OnePlace, Alone, Carriers, Owns, Keeping, Pc
  <2>3. Carriers(d)' # {} => (CHOOSE t \in Carriers(d)' : TRUE) \in Carriers(d)'
    OBVIOUS
  <2> QED
    BY <2>1, <2>2, <2>3, Zenon DEF More, Carriers, MoreFacts
<1> QED
  BY <1>1, <1>2

\* The parts of Out.
LEMMA OutIs ==
  ASSUME TypeOK, LocalsSet, OnePlace, NEW d \in Desc
  PROVE  /\ Credits(d) \in Nat /\ More(d) \in Nat /\ Out(d) \in Nat
         /\ Out(d) = Credits(d) + Cardinality(Poppers(d)) + More(d) + Cardinality(Used(d))
         /\ Credits(d) = 0 <=> active.desc # d
         /\ Cardinality(Poppers(d)) = 0 <=> Poppers(d) = {}
         /\ Cardinality(Used(d)) = 0 <=> Used(d) = {}
<1>1. Credits(d) \in Nat /\ (Credits(d) = 0 <=> active.desc # d)
  BY DEF Credits, TypeOK
<1> QED
  BY <1>1, MoreIs, Finite, FS_EmptySet DEF Out, MoreFacts, FiniteSets

\* FreeList follows the links.
LEMMA FreeListIs ==
  ASSUME NEW d, NEW n \in Nat, NEW f, Chain(d, f, n)
  PROVE  FreeList(d, n) = f
<1> DEFINE Eqn(at) == at = [k \in 1 .. n |-> IF k = 1 THEN anchor[d].avail
      ELSE nNextFree[d][at[k - 1]]]
           at == CHOOSE g : Eqn(g)
<1>1. FreeList(d, n) = [k \in 1 .. n |-> at[k]]
  BY DEF FreeList
<1>2. Eqn(f)
  <2>1. f = [k \in 1 .. n |-> f[k]]
    BY DEF Chain
  <2>2. ASSUME NEW k \in 1 .. n
        PROVE  f[k] = IF k = 1 THEN anchor[d].avail ELSE nNextFree[d][f[k - 1]]
    <3>1. CASE k = 1
      BY <3>1 DEF Chain
    <3>2. CASE k # 1
      <4>1. k - 1 \in 1 .. n - 1 /\ (k - 1) + 1 = k
        BY <3>2
      <4> QED
        BY <4>1, <3>2 DEF Chain
    <3> QED
      BY <3>1, <3>2
  <2> QED
    BY <2>1, <2>2
<1>3. Eqn(at)
  <2> HIDE DEF Eqn
  <2> QED
    BY <1>2
<1> HIDE DEF at
<1>4. ASSUME NEW k \in 1 .. n, at[k] # f[k]
      PROVE  FALSE
  <2> DEFINE Bad == {j \in 1 .. n : at[j] # f[j]}
  <2>1. PICK m \in Bad : \A j \in Bad : m <= j
    <3>1. Bad \in SUBSET Nat /\ Bad # {}
      BY <1>4
    <3> HIDE DEF Bad
    <3> QED
      BY <3>1, LeastNumber
  <2>2. m # 1
    BY <1>2, <1>3
  <2>3. at[m - 1] = f[m - 1]
    BY <2>1, <2>2
  <2> QED
    BY <1>2, <1>3, <2>1, <2>2, <2>3
<1>5. f = [k \in 1 .. n |-> f[k]]
  BY DEF Chain
<1> QED
  BY <1>1, <1>4, <1>5

\* The invariant is what the properties of the heap follow from.
LEMMA IInvImplies ==
  ASSUME IInv
  PROVE  CreditsExact /\ ListExact /\ NoUseAfterFree /\ NothingLost
<1> USE DEF IInv
<1>1. \A d \in Desc : Reserved(d) = Cardinality(Poppers(d)) + More(d)
  BY ReservedIs, OneCarrier
<1>2. \A d \in Serving : d \in Desc /\ d \in live
  BY DEF Serving, TypeOK
<1>3. CreditsExact
  <2>1. ASSUME NEW d \in Serving
        PROVE  anchor[d].count + Credits(d) + Reserved(d) + Cardinality(Used(d)) = nCapacity
    <3>1. d \in Desc /\ anchor[d].count + Out(d) = nCapacity /\ anchor[d].count \in Nat
      BY <1>2 DEF Counts, CountOK, TypeOK, Anchors
    <3> QED
      BY <3>1, <1>1, OutIs, Finite DEF FiniteSets
  <2> QED
    BY <2>1 DEF CreditsExact
<1>4. ListExact
  <2>1. ASSUME NEW d \in Serving, NEW n \in Nat, n = nCapacity - Cardinality(Used(d))
        PROVE  ToSet(FreeList(d, n)) = Index \ Used(d)
    <3>1. PICK f : Chain(d, f, n)
      BY <1>2, <2>1 DEF Chains, ChainOK
    <3>2. ToSet(f) = Index \ Used(d)
      BY <3>1 DEF Chain, ToSet
    <3> QED
      BY <3>1, <3>2, FreeListIs
  <2>2. \A d \in Serving : nCapacity - Cardinality(Used(d)) \in Nat
    BY Finite, MichaelAssumption DEF FiniteSets
  <2> QED
    BY <2>1, <2>2 DEF ListExact
<1>5. NoUseAfterFree
  <2>1. ASSUME NEW d \in Desc, d \notin live
        PROVE  Used(d) = {} /\ Reserved(d) = 0 /\ Credits(d) = 0
    <3>1. Out(d) = 0
      BY <2>1, <1>2 DEF Counts, CountOK
    <3> QED
      BY <3>1, <1>1, OutIs, Finite DEF FiniteSets
  <2> QED
    BY <2>1 DEF NoUseAfterFree
<1>6. NothingLost
  BY DEF NothingLost, Somewhere, Findable
<1> QED
  BY <1>3, <1>4, <1>5, <1>6

-----------------------------------------------------------------------------
(* A step changes the locals of one thread, t. *)

\* What t adds to Out(d).
Carried(t, d) == IF my[t].desc = d THEN my[t].more ELSE 0
Pops(t, d) == IF my[t].desc = d /\ Pc(t) \in Popping THEN 1 ELSE 0
OthersStay(t) == \A u \in Thread \ {t} : my'[u] = my[u]

\* Locals that are one record in one thread and as before in the others.
LEMMA ThreadStep ==
  ASSUME my \in [Thread -> Locals], LocalsSet, NEW t \in Thread, NEW r \in Locals, LocalsOK(r),
         my' = [my EXCEPT ![t] = r]
  PROVE  /\ my' \in [Thread -> Locals] /\ LocalsSet' /\ OthersStay(t) /\ my'[t] = r
         /\ \A u \in Thread \ {t} : (Owns(u)' <=> Owns(u))
<1>1. my' \in [Thread -> Locals] /\ OthersStay(t) /\ my'[t] = r
  BY DEF OthersStay
<1>2. LocalsSet'
  BY <1>1 DEF LocalsSet, OthersStay
<1> QED
  BY <1>1, <1>2 DEF OthersStay, Owns, Pc

\* What a thread relies on stays when its superblock does.
LEMMA SameThread ==
  ASSUME NEW u, ThreadOK(u), LocalsOK(my[u]), my'[u] = my[u],
         my[u].desc # NULL => /\ anchor'[my[u].desc] = anchor[my[u].desc]
                              /\ nNextFree'[my[u].desc] = nNextFree[my[u].desc],
         u \in stale => u \in stale' \/ Pc(u) # "cas",
         my[u].block # NULL => users'[<<my[u].desc, my[u].block>>] =
            users[<<my[u].desc, my[u].block>>]
  PROVE  ThreadOK(u)'
<1>1. (Owns(u)' <=> Owns(u))
  BY DEF Owns, Pc
<1>2. CASE my[u].desc = NULL
  BY <1>2 DEF ThreadOK, LocalsOK, Pc, Seeking, Popping, Carrying, Adding
<1>3. CASE my[u].desc # NULL
  BY <1>1, <1>3 DEF ThreadOK, AsSetUp, Pc
<1> QED
  BY <1>2, <1>3

\* The number of poppers changes by the one that moves.
LEMMA PoppersStep ==
  ASSUME NEW t \in Thread, NEW d, OthersStay(t)
  PROVE  Cardinality(Poppers(d)') = Cardinality(Poppers(d)) - Pops(t, d) + Pops(t, d)'
<1>1. /\ t \in Poppers(d) <=> Pops(t, d) = 1
      /\ t \in Poppers(d)' <=> Pops(t, d)' = 1
      /\ Pops(t, d) \in {0, 1} /\ Pops(t, d)' \in {0, 1}
  BY DEF Poppers, Pops
<1>2. Poppers(d)' \ {t} = Poppers(d) \ {t}
  BY DEF Poppers, OthersStay, Pc
<1>3. IsFiniteSet(Poppers(d)) /\ Cardinality(Poppers(d)) \in Nat
  BY Finite DEF FiniteSets
<1>4. IsFiniteSet(Poppers(d)') /\ Cardinality(Poppers(d)') \in Nat
  BY Finite DEF FiniteSets
<1>5. ASSUME NEW S, NEW n \in {0, 1}, IsFiniteSet(S), Cardinality(S) \in Nat, t \in S <=> n = 1
      PROVE  Cardinality(S \ {t}) = Cardinality(S) - n
  <2>1. Cardinality(S \ {t}) = IF t \in S THEN Cardinality(S) - 1 ELSE Cardinality(S)
    BY <1>5, FS_RemoveElement
  <2> QED
    BY <1>5, <2>1
<1>6. /\ Cardinality(Poppers(d) \ {t}) = Cardinality(Poppers(d)) - Pops(t, d)
      /\ Cardinality(Poppers(d)' \ {t}) = Cardinality(Poppers(d)') - Pops(t, d)'
  BY <1>1, <1>3, <1>4, <1>5
<1>7. PICK p, q : p = Cardinality(Poppers(d)) /\ q = Cardinality(Poppers(d)')
  OBVIOUS
<1> QED
  BY <1>1, <1>2, <1>3, <1>4, <1>5, <1>6, <1>7

\* What is carried changes by what t carries.
LEMMA MoreStep ==
  ASSUME TypeOK, LocalsSet, OnePlace, TypeOK', LocalsSet', OnePlace',
         NEW t \in Thread, NEW d, OthersStay(t)
  PROVE  More(d)' = More(d) - Carried(t, d) + Carried(t, d)'
<1>1. Carried(t, d) \in Nat /\ Carried(t, d)' \in Nat
  BY DEF Carried, TypeOK, Locals
<1>2. MoreFacts(d) /\ MoreFacts(d)'
  BY MoreIs
<1>3. (\A u, v \in Carriers(d) : u = v) /\ \A u, v \in Carriers(d)' : u = v
  BY DEF LocalsSet, LocalsOK, OnePlace, Alone, Carriers, Owns, Keeping, Pc
<1>4. \A u \in Thread : my[u].more \in Nat /\ my'[u].more \in Nat
  BY DEF TypeOK, Locals
<1>5. \A u \in Thread \ {t} : my[u].desc = d /\ my[u].more > 0 =>
      Carried(t, d) = 0 /\ Carried(t, d)' = 0
  BY <1>3, <1>4 DEF Carriers, Carried, OthersStay
<1>6. CASE \E u \in Thread \ {t} : my[u].desc = d /\ my[u].more > 0
  <2>1. PICK u \in Thread \ {t} : my[u].desc = d /\ my[u].more > 0
    BY <1>6
  <2>2. my'[u] = my[u]
    BY <2>1 DEF OthersStay
  <2> QED
    BY <2>1, <2>2, <1>2, <1>5 DEF MoreFacts
<1>7. CASE \A u \in Thread \ {t} : my[u].desc = d => my[u].more = 0
  <2>1. More(d) = Carried(t, d)
    BY <1>2, <1>4, <1>7 DEF Carried, MoreFacts
  <2>2. More(d)' = Carried(t, d)'
    BY <1>2, <1>4, <1>7 DEF Carried, OthersStay, MoreFacts
  <2> QED
    BY <1>1, <2>1, <2>2
<1> QED
  BY <1>4, <1>6, <1>7

\* The terms of Out.
Terms(t, d) ==
    /\ Out(d) \in Nat /\ Credits(d) \in Nat /\ Cardinality(Used(d)) \in Nat
    /\ Pops(t, d) \in Nat /\ Carried(t, d) \in Nat

\* So Out(d) changes by what t adds to it and by the blocks used.
LEMMA OutStep ==
  ASSUME TypeOK, LocalsSet, OnePlace, TypeOK', LocalsSet', OnePlace',
         NEW t \in Thread, NEW d \in Desc, OthersStay(t)
  PROVE  /\ Terms(t, d) /\ Terms(t, d)'
         /\ Out(d)' = Out(d) + (Credits(d)' - Credits(d)) + (Pops(t, d)' - Pops(t, d))
                             + (Carried(t, d)' - Carried(t, d))
                             + (Cardinality(Used(d)') - Cardinality(Used(d)))
<1>1. /\ Credits(d) \in Nat /\ More(d) \in Nat /\ Credits(d)' \in Nat /\ More(d)' \in Nat
  <2>1. active \in [desc : Desc \cup {NULL}, credits : Nat]
    BY DEF TypeOK
  <2>2. active' \in [desc : Desc \cup {NULL}, credits : Nat]
    BY DEF TypeOK
  <2>3. MoreFacts(d) /\ MoreFacts(d)'
    BY MoreIs
  <2> QED
    BY <2>1, <2>2, <2>3 DEF MoreFacts, Credits
<1>2. Out(d) = Credits(d) + Cardinality(Poppers(d)) + More(d) + Cardinality(Used(d))
  BY DEF Out
<1>3. Out(d)' = Credits(d)' + Cardinality(Poppers(d)') + More(d)' + Cardinality(Used(d)')
  BY DEF Out
<1>4. FiniteSets(d) /\ FiniteSets(d)'
  BY Finite
<1>5. /\ Cardinality(Poppers(d)') = Cardinality(Poppers(d)) - Pops(t, d) + Pops(t, d)'
      /\ More(d)' = More(d) - Carried(t, d) + Carried(t, d)'
  BY PoppersStep, MoreStep
<1>6. Pops(t, d) \in Nat /\ Pops(t, d)' \in Nat /\ Carried(t, d) \in Nat /\ Carried(t, d)' \in Nat
  BY DEF Pops, Carried, TypeOK, Locals
<1>7. PICK p, q, x, y : /\ p = Cardinality(Poppers(d)) /\ q = Cardinality(Poppers(d)')
                        /\ x = Cardinality(Used(d)) /\ y = Cardinality(Used(d)')
  OBVIOUS
<1>8. Out(d) \in Nat /\ Out(d)' \in Nat
  BY <1>1, <1>2, <1>3, <1>4, <1>7 DEF FiniteSets
<1> QED
  BY <1>1, <1>2, <1>3, <1>4, <1>5, <1>6, <1>7, <1>8 DEF FiniteSets, Terms

\* What is out of a superblock stays when the blocks used stay, and what t has of it with
\* the credits.
LEMMA SameOut ==
  ASSUME TypeOK, LocalsSet, OnePlace, TypeOK', LocalsSet', OnePlace',
         NEW t \in Thread, NEW d \in Desc, OthersStay(t),
         Credits(d)' + Pops(t, d)' + Carried(t, d)' = Credits(d) + Pops(t, d) + Carried(t, d),
         Used(d)' = Used(d)
  PROVE  Out(d)' = Out(d)
<1>1. /\ Terms(t, d) /\ Terms(t, d)'
      /\ Out(d)' = Out(d) + (Credits(d)' - Credits(d)) + (Pops(t, d)' - Pops(t, d))
                          + (Carried(t, d)' - Carried(t, d))
                          + (Cardinality(Used(d)') - Cardinality(Used(d)))
  BY OutStep
<1>2. PICK x : x = Cardinality(Used(d)) /\ x = Cardinality(Used(d)')
  OBVIOUS
<1>3. PICK a, b, c, p, q, r :
         /\ a = Credits(d) /\ b = Pops(t, d) /\ c = Carried(t, d)
         /\ p = Credits(d)' /\ q = Pops(t, d)' /\ r = Carried(t, d)'
  OBVIOUS
<1>4. a \in Nat /\ b \in Nat /\ c \in Nat /\ p \in Nat /\ q \in Nat /\ r \in Nat /\ x \in Nat
  BY <1>1, <1>2, <1>3 DEF Terms
<1>5. Out(d) \in Nat /\ Out(d)' = Out(d) + (p - a) + (q - b) + (r - c) + (x - x)
  BY <1>1, <1>2, <1>3 DEF Terms
<1> QED
  BY <1>3, <1>4, <1>5

\* The counts and the chain of a superblock of which the step changes nothing.
LEMMA SameFor ==
  ASSUME NEW d, CountOK(d), ChainOK(d),
         anchor'[d] = anchor[d], nNextFree'[d] = nNextFree[d], (d \in Serving)' = (d \in Serving),
         Used(d)' = Used(d), Out(d)' = Out(d)
  PROVE  CountOK(d)' /\ ChainOK(d)'
BY DEF CountOK, ChainOK, Chain

\* The blocks used of a superblock, when t has the same block before and after.
LEMMA SameUsed ==
  ASSUME NEW t \in Thread, NEW d, OthersStay(t),
         \A i \in Index : users'[<<d, i>>] = users[<<d, i>>],
         \A i \in Index : (my[t].desc = d /\ my[t].block = i) <=>
            (my'[t].desc = d /\ my'[t].block = i)
  PROVE  Used(d)' = Used(d)
BY DEF Used, OthersStay

-----------------------------------------------------------------------------
(* The steps. *)

\* Which superblocks serve, when they live on and t has them in hand as before.
LEMMA SameServing ==
  ASSUME NEW t \in Thread, NEW d, OthersStay(t), anchor'[d].state = anchor[d].state,
         (d \in live') = (d \in live),
         (my'[t].desc = d /\ my'[t].pc \in {"publish", "release"})
           = (my[t].desc = d /\ my[t].pc \in {"publish", "release"})
  PROVE  (d \in Serving)' = (d \in Serving)
BY DEF Serving, OthersStay, Pc

\* A thread that has nothing and takes nothing changes nothing else.
LEMMA SeekStep ==
  ASSUME IInv, NEW t \in Thread, Pc(t) \in Seeking \cup {"unlink"},
         NEW r \in Locals, LocalsOK(r), r.pc \in Seeking, my' = [my EXCEPT ![t] = r],
         UNCHANGED <<heapVars, anchor, nNextFree, stale, users>>
  PROVE  IInv'
<1> USE DEF IInv
<1>1. UNCHANGED <<active, anchor, nNextFree, pPartial, partialList, listSBDescFree, fresh, live,
                  made, stale, users>>
  BY DEF heapVars
<1>2. my[t] \in Locals /\ LocalsOK(my[t])
  BY DEF TypeOK, LocalsSet
<1>3. /\ my[t].more = 0 /\ r.more = 0 /\ my[t].block = NULL /\ r.block = NULL
      /\ my[t].pc \notin Popping \cup {"publish", "release"}
      /\ r.pc \notin Popping \cup {"publish", "release"}
  BY <1>2 DEF Locals, LocalsOK, Pc, Seeking, Popping, Carrying, Adding
<1>4. /\ my' \in [Thread -> Locals] /\ LocalsSet' /\ OthersStay(t) /\ my'[t] = r
      /\ \A u \in Thread \ {t} : (Owns(u)' <=> Owns(u))
  BY ThreadStep DEF TypeOK
<1>5. TypeOK'
  BY <1>1, <1>4 DEF TypeOK
<1>6. ~Owns(t) /\ ~Owns(t)'
  BY <1>4 DEF Owns, Pc, Seeking, Popping, Carrying, Adding, Keeping
<1>7. OnePlace' /\ Somewhere'
  BY <1>1, <1>4, <1>6 DEF OnePlace, Alone, FoundOnce, FreeOnce, Somewhere, OthersStay, Findable
<1>8. States'
  BY <1>1 DEF States
<1>9. ThreadsOK'
  <2>1. ThreadOK(t)'
    BY <1>3, <1>4 DEF ThreadOK, Pc, Seeking, Popping, Carrying, Adding
  <2>2. \A u \in Thread \ {t} : ThreadOK(u)'
    BY <1>1, <1>4, SameThread DEF ThreadsOK, LocalsSet, OthersStay
  <2> QED
    BY <2>1, <2>2 DEF ThreadsOK
<1>10. ASSUME NEW d \in Desc
       PROVE  CountOK(d)' /\ ChainOK(d)'
  <2>1. NULL \notin Index
    BY NullIs
  <2>2. Used(d)' = Used(d)
    BY <2>1, <1>1, <1>3, <1>4, SameUsed
  <2>3. Credits(d)' = Credits(d) /\ Pops(t, d)' = Pops(t, d) /\ Carried(t, d)' = Carried(t, d)
    BY <1>1, <1>3, <1>4 DEF Credits, Pops, Carried, Pc
  <2>4. Out(d)' = Out(d)
    BY <2>2, <2>3, <1>4, <1>5, <1>7, SameOut
  <2>5. (d \in Serving)' = (d \in Serving)
    BY <1>1, <1>3, <1>4, SameServing
  <2> QED
    BY <2>2, <2>4, <2>5, <1>1, SameFor DEF Counts, Chains
<1> QED
  BY <1>4, <1>5, <1>7, <1>8, <1>9, <1>10 DEF Counts, Chains

\* The same, as the code goes to a label.
LEMMA SeekGoto ==
  ASSUME IInv, NEW t \in Thread, Pc(t) \in Seeking, NEW label \in Seeking, Goto(t, label),
         UNCHANGED <<heapVars, anchor, nNextFree, stale, users>>
  PROVE  IInv'
<1>1. PICK r : r = [my[t] EXCEPT !.pc = label]
  OBVIOUS
<1>2. my[t] \in Locals /\ LocalsOK(my[t])
  BY DEF IInv, TypeOK, LocalsSet
<1>3. r \in Locals /\ LocalsOK(r) /\ r.pc \in Seeking
  BY <1>1, <1>2 DEF Locals, LocalsOK, Pc, Seeking, Popping, Carrying, Adding
<1>4. my' = [my EXCEPT ![t] = r]
  BY <1>1 DEF Goto
<1> QED
  BY <1>3, <1>4, SeekStep

\* alloc_from_active: the credit becomes a reservation.
LEMMA ReserveStep ==
  ASSUME IInv, NEW t \in Thread, Reserve(t)
  PROVE  IInv'
<1> USE DEF IInv
<1>1. CASE active.desc = NULL
  BY <1>1, SeekGoto DEF Reserve, heapVars, Seeking, Pc
<1>2. CASE active.desc # NULL
  <2>1. PICK last \in BOOLEAN : last = (active.credits = 0) /\ (last <=> active.credits = 0)
    OBVIOUS
  <2>2. PICK r : r = [Idle EXCEPT !.pc = "pop", !.desc = active.desc, !.last = last]
    OBVIOUS
  <2>3. /\ active' = IF last THEN NoActive ELSE [active EXCEPT !.credits = @ - 1]
        /\ my' = [my EXCEPT ![t] = r]
        /\ UNCHANGED <<anchor, nNextFree, pPartial, partialList, listSBDescFree, fresh, live, made,
                       stale, users>>
    BY <1>2, <2>1, <2>2 DEF Reserve
  <2>4. /\ LocalsOK(my[t]) /\ my[t].pc \in Seeking /\ active.desc \in Desc /\ active.credits \in Nat
        /\ active \in [desc : Desc \cup {NULL}, credits : Nat] /\ last \in BOOLEAN
    BY <1>2, <2>1 DEF TypeOK, LocalsSet, Reserve, Pc, Seeking
  <2>5. /\ r \in Locals /\ LocalsOK(r) /\ r.desc = active.desc /\ r.block = NULL /\ r.more = 0
        /\ my[t].desc = NULL /\ my[t].block = NULL
        /\ r.pc = "pop" /\ r.last = last
    BY <2>2, <2>4, <1>2 DEF Locals, LocalsOK, Idle, Seeking, Popping, Carrying, Adding
  <2>6. /\ my' \in [Thread -> Locals] /\ LocalsSet' /\ OthersStay(t) /\ my'[t] = r
        /\ \A u \in Thread \ {t} : (Owns(u)' <=> Owns(u))
    BY <2>3, <2>5, ThreadStep DEF TypeOK
  <2>7. /\ active' \in [desc : Desc \cup {NULL}, credits : Nat]
        /\ active'.desc = IF last THEN NULL ELSE active.desc
        /\ active'.credits = IF last THEN 0 ELSE active.credits - 1
    <3>1. CASE last
      BY <3>1, <2>1, <2>3 DEF NoActive
    <3>2. CASE ~last
      BY <3>2, <2>1, <2>3, <2>4
    <3> QED
      BY <3>1, <3>2
  <2>8. TypeOK'
    BY <2>3, <2>6, <2>7 DEF TypeOK
  <2>9. ~Owns(t) /\ (Owns(t)' <=> last)
    BY <2>4, <2>5, <2>6 DEF Owns, Pc, Locals, Seeking, Popping, Carrying, Adding, Keeping
  <2>10. OnePlace'
    <3>1. \A d \in Desc : Findable(d)' <=> Findable(d) /\ ~(last /\ d = active.desc)
      <4>1. CASE last
        BY <4>1, <2>3, <2>4, <2>7, NullIs DEF Findable, OnePlace, FoundOnce
      <4>2. CASE ~last
        BY <4>2, <2>3, <2>7 DEF Findable
      <4> QED
        BY <4>1, <4>2
    <3>2. active.desc \in live /\ \A u \in Thread : Owns(u) => my[u].desc # active.desc
      BY <2>4 DEF OnePlace, Alone, FoundOnce, Findable
    <3>3. \A u \in Thread : Owns(u) => my[u].desc \in Desc
      BY DEF OnePlace, Alone, TypeOK
    <3>4. Alone'
      BY <3>1, <3>2, <3>3, <2>3, <2>4, <2>5, <2>6, <2>9 DEF OnePlace, Alone, OthersStay
    <3>5. FoundOnce'
      <4>1. ToSet(partialList) \subseteq Desc
        BY ToSetPlaces DEF TypeOK
      <4> QED
        BY <3>1, <4>1, <2>3, <2>7, NullIs DEF OnePlace, FoundOnce
    <3>6. FreeOnce'
      BY <2>3 DEF OnePlace, FreeOnce
    <3> QED
      BY <3>4, <3>5, <3>6 DEF OnePlace
  <2>11. Somewhere'
    BY <2>3, <2>5, <2>6, <2>7, <2>9, <1>2 DEF Somewhere, OthersStay, Findable
  <2>12. States'
    BY <2>3, <2>7 DEF States
  <2>13. ThreadsOK'
    <3>1. ThreadOK(t)'
      BY <2>3, <2>5, <2>6, <2>9, <1>2 DEF States, ThreadOK, Pc, Seeking, Popping, Carrying, Adding
    <3>2. \A u \in Thread \ {t} : ThreadOK(u)'
      BY <2>3, <2>6, SameThread DEF ThreadsOK, LocalsSet, OthersStay
    <3> QED
      BY <3>1, <3>2 DEF ThreadsOK
  <2>14. ASSUME NEW d \in Desc
         PROVE  CountOK(d)' /\ ChainOK(d)'
    <3>1. d # NULL /\ NULL \notin Index
      BY NullIs
    <3>2. Used(d)' = Used(d)
      BY <3>1, <2>3, <2>5, <2>6, SameUsed
    <3>3. Carried(t, d)' = Carried(t, d)
      BY <3>1, <2>5, <2>6 DEF Carried
    <3>4. Credits(d)' + Pops(t, d)' = Credits(d) + Pops(t, d)
      <4>1. /\ Pops(t, d) = 0 /\ Pops(t, d)' = IF d = active.desc THEN 1 ELSE 0
        BY <3>1, <2>5, <2>6 DEF Pops, Pc, Popping
      <4>2. Credits(d)' = IF d = active.desc THEN active.credits ELSE 0
        BY <3>1, <2>1, <2>4, <2>7 DEF Credits
      <4> QED
        BY <4>1, <4>2, <2>4 DEF Credits
    <3>5. Out(d)' = Out(d)
      <4>1. Credits(d)' + Pops(t, d)' + Carried(t, d)' = Credits(d) + Pops(t, d) + Carried(t, d)
        BY <3>3, <3>4
      <4> QED
        BY <4>1, <3>2, <2>6, <2>8, <2>10, SameOut
    <3>6. (d \in Serving)' = (d \in Serving)
      BY <3>1, <2>3, <2>5, <2>6, SameServing
    <3> QED
      BY <3>2, <3>5, <3>6, <2>3, SameFor DEF Counts, Chains
  <2> QED
    BY <2>6, <2>8, <2>10, <2>11, <2>12, <2>13, <2>14 DEF Counts, Chains
<1> QED
  BY <1>1, <1>2

\* A thread that keeps what it has and changes nothing else.
LEMMA QuietStep ==
  ASSUME IInv, NEW t \in Thread, NEW r \in Locals, LocalsOK(r), my' = [my EXCEPT ![t] = r],
         UNCHANGED <<heapVars, anchor, nNextFree, users>>,
         stale' \in SUBSET Thread, stale \subseteq stale' \cup {t},
         r.desc = my[t].desc, r.more = my[t].more, r.block = my[t].block,
         r.pc \in Popping <=> my[t].pc \in Popping, Owns(t)' <=> Owns(t),
         (my[t].desc \in Serving)' = (my[t].desc \in Serving), ThreadOK(t)'
  PROVE  IInv'
<1> USE DEF IInv
<1>1. UNCHANGED <<active, anchor, nNextFree, pPartial, partialList, listSBDescFree, fresh, live,
                  made, users>>
  BY DEF heapVars
<1>2. /\ my' \in [Thread -> Locals] /\ LocalsSet' /\ OthersStay(t) /\ my'[t] = r
      /\ \A u \in Thread \ {t} : (Owns(u)' <=> Owns(u))
  BY ThreadStep DEF TypeOK
<1>3. TypeOK'
  BY <1>1, <1>2 DEF TypeOK
<1>4. /\ \A u \in Thread : (Owns(u)' <=> Owns(u)) /\ my'[u].desc = my[u].desc
      /\ \A d : (Findable(d)' <=> Findable(d))
  BY <1>1, <1>2 DEF OthersStay, Findable
<1>5. OnePlace' /\ Somewhere'
  BY <1>1, <1>4 DEF OnePlace, Alone, FoundOnce, FreeOnce, Somewhere
<1>6. States'
  BY <1>1 DEF States
<1>7. ThreadsOK'
  <2>1. \A u \in Thread \ {t} : ThreadOK(u)'
    BY <1>1, <1>2, SameThread DEF ThreadsOK, LocalsSet, OthersStay
  <2> QED
    BY <2>1 DEF ThreadsOK
<1>8. ASSUME NEW d \in Desc
      PROVE  CountOK(d)' /\ ChainOK(d)'
  <2>1. Used(d)' = Used(d)
    BY <1>1, <1>2, SameUsed
  <2>2. Credits(d)' = Credits(d) /\ Pops(t, d)' = Pops(t, d) /\ Carried(t, d)' = Carried(t, d)
    BY <1>1, <1>2 DEF Credits, Pops, Carried, Pc
  <2>3. Out(d)' = Out(d)
    BY <2>1, <2>2, <1>2, <1>3, <1>5, SameOut
  <2>4. (d \in Serving)' = (d \in Serving)
    <3>1. CASE d = my[t].desc
      BY <3>1
    <3>2. CASE d # my[t].desc
      BY <3>2, <1>1, <1>2, SameServing
    <3> QED
      BY <3>1, <3>2
  <2> QED
    BY <2>1, <2>3, <2>4, <1>1, SameFor DEF Counts, Chains
<1> QED
  BY <1>2, <1>3, <1>5, <1>6, <1>7, <1>8 DEF Counts, Chains

\* The anchor and the link are loaded.
LEMMA PopLoadStep ==
  ASSUME IInv, NEW t \in Thread, PopLoad(t)
  PROVE  IInv'
<1> USE DEF IInv
<1>1. PICK d, seen : /\ d = my[t].desc
                     /\ seen = [anchor |-> anchor[d], next |-> nNextFree[d][anchor[d].avail]]
  OBVIOUS
<1>2. PICK r : r = [my[t] EXCEPT !.pc = "cas", !.seen = seen]
  OBVIOUS
<1>3. /\ my[t] \in Locals /\ LocalsOK(my[t]) /\ my[t].pc = "pop"
      /\ UNCHANGED <<heapVars, anchor, nNextFree, stale, users>>
  BY DEF TypeOK, LocalsSet, PopLoad, Pc
<1>4. my' = [my EXCEPT ![t] = r]
  BY <1>1, <1>2, <1>3 DEF PopLoad, TypeOK
<1>5. d \in Desc /\ d # NULL
  BY <1>1, <1>3, NullIs DEF Locals, LocalsOK, Seeking
<1>6. anchor[d] \in Anchors /\ nNextFree[d] \in [Index -> Index]
  BY <1>5 DEF TypeOK
<1>7. seen \in Loads
  BY <1>1, <1>6 DEF Anchors, Loads
<1>8. /\ r \in Locals /\ r.desc = d /\ r.pc = "cas" /\ r.seen = seen
      /\ r.block = my[t].block /\ r.more = my[t].more /\ r.last = my[t].last
  BY <1>1, <1>2, <1>3, <1>7 DEF Locals, Popping
<1>9. LocalsOK(r) /\ r.block = NULL
  BY <1>1, <1>3, <1>7, <1>8 DEF LocalsOK, Seeking, Popping, Carrying, Adding
<1>10. my'[t] = r
  BY <1>4 DEF TypeOK
<1>11. Owns(t)' = Owns(t)
  BY <1>3, <1>8, <1>10 DEF Owns, Pc, Popping, Keeping, Carrying, Adding
<1>12. (my[t].desc \in Serving)' = (my[t].desc \in Serving)
  <2>1. OthersStay(t)
    BY <1>4 DEF OthersStay, TypeOK
  <2> QED
    BY <1>1, <1>3, <1>8, <1>10, <2>1, SameServing DEF heapVars
<1>13. ThreadOK(t)'
  <2>1. ThreadOK(t)
    BY DEF ThreadsOK
  <2> QED
    BY <2>1, <1>1, <1>3, <1>8, <1>9, <1>10, <1>11 DEF ThreadOK, Pc, Seeking, Popping, Carrying,
       Adding
<1> QED
  <2>1. stale' \in SUBSET Thread /\ stale \subseteq stale' \cup {t}
    BY <1>3 DEF TypeOK
  <2>2. r.pc \in Popping <=> my[t].pc \in Popping
    BY <1>3, <1>8 DEF Popping
  <2> QED
    BY <2>1, <2>2, <1>1, <1>3, <1>4, <1>8, <1>9, <1>11, <1>12, <1>13, QuietStep

\* The anchor has changed since: it is loaded again.
LEMMA PopAgainStep ==
  ASSUME IInv, NEW t \in Thread, PopAgain(t)
  PROVE  IInv'
<1> USE DEF IInv
<1>1. PICK r : r = [my[t] EXCEPT !.pc = "pop", !.seen = NULL]
  OBVIOUS
<1>2. /\ my[t] \in Locals /\ LocalsOK(my[t]) /\ my[t].pc = "cas"
      /\ UNCHANGED <<heapVars, anchor, nNextFree, users>> /\ stale' = stale \ {t}
  BY DEF TypeOK, LocalsSet, PopAgain, Pc
<1>3. my' = [my EXCEPT ![t] = r] /\ my'[t] = r
  BY <1>1 DEF PopAgain, TypeOK
<1>4. /\ r \in Locals /\ r.desc = my[t].desc /\ r.pc = "pop"
      /\ r.block = my[t].block /\ r.more = my[t].more /\ r.last = my[t].last
  BY <1>1, <1>2 DEF Locals, Popping
<1>5. LocalsOK(r) /\ r.block = NULL
  BY <1>2, <1>4 DEF LocalsOK, Seeking, Popping, Carrying, Adding
<1>6. Owns(t)' <=> Owns(t)
  BY <1>2, <1>3, <1>4 DEF Owns, Pc, Popping, Keeping, Carrying, Adding
<1>7. (my[t].desc \in Serving)' = (my[t].desc \in Serving)
  <2>1. OthersStay(t)
    BY <1>3 DEF OthersStay, TypeOK
  <2> QED
    BY <1>2, <1>3, <1>4, <2>1, SameServing DEF heapVars
<1>8. ThreadOK(t)'
  <2>1. ThreadOK(t)
    BY DEF ThreadsOK
  <2> QED
    BY <2>1, <1>2, <1>3, <1>4, <1>5, <1>6 DEF ThreadOK, Pc, Seeking, Popping, Carrying, Adding
<1> QED
  <2>1. stale' \in SUBSET Thread /\ stale \subseteq stale' \cup {t}
    BY <1>2 DEF TypeOK
  <2>2. r.pc \in Popping <=> my[t].pc \in Popping
    BY <1>2, <1>4 DEF Popping
  <2> QED
    BY <2>1, <2>2, <1>2, <1>3, <1>4, <1>5, <1>6, <1>7, <1>8, QuietStep

\* An owner goes on to where it owns the superblock too, with the same in hand.
LEMMA OwnerStep ==
  ASSUME IInv, NEW t \in Thread, NEW from \in Keeping, NEW label \in Keeping, NEW then,
         then \in {"idle", "reserve", "partial"}, Pc(t) = from,
         my' = [my EXCEPT ![t] = [my[t] EXCEPT !.pc = label, !.then = then]],
         UNCHANGED <<heapVars, anchor, nNextFree, stale, users>>,
         \/ from = "install" /\ label = "giveback"
         \/ from = "add" /\ label = "push"
         \/ from = "publish" /\ label = "release"
         \/ from = "take" /\ label = "release" /\ anchor[my[t].desc].state = EMPTY
  PROVE  IInv'
<1> USE DEF IInv
<1>1. PICK r : r = [my[t] EXCEPT !.pc = label, !.then = then]
  OBVIOUS
<1>2. /\ my[t] \in Locals /\ LocalsOK(my[t]) /\ my[t].pc = from /\ ThreadOK(t)
      /\ stale' \in SUBSET Thread /\ stale \subseteq stale' \cup {t}
  BY DEF TypeOK, LocalsSet, ThreadsOK, Pc
<1>3. my' = [my EXCEPT ![t] = r] /\ my'[t] = r /\ OthersStay(t)
  BY <1>1 DEF TypeOK, OthersStay
<1>4. /\ r \in Locals /\ r.desc = my[t].desc /\ r.pc = label
      /\ r.block = my[t].block /\ r.more = my[t].more /\ r.last = my[t].last
  BY <1>1, <1>2 DEF Locals
<1>5. /\ LocalsOK(r) /\ from \notin Popping /\ label \notin Popping
  BY <1>2, <1>4 DEF LocalsOK, Keeping, Seeking, Popping, Carrying, Adding
<1>6. Owns(t)' /\ Owns(t)
  BY <1>2, <1>3, <1>4 DEF Owns, Pc
<1>7. (my[t].desc \in Serving)' = (my[t].desc \in Serving)
  <2>1. CASE from \in {"install", "add"}
    BY <2>1, <1>2, <1>3, <1>4, SameServing DEF heapVars
  <2>2. CASE from \in {"publish", "take"}
    BY <2>2, <1>2, <1>3, <1>4 DEF Serving, heapVars, Pc
  <2> QED
    BY <2>1, <2>2
<1>8. ThreadOK(t)'
  BY <1>2, <1>3, <1>4, <1>5, <1>6 DEF ThreadOK, Pc, Carrying, Adding
<1> QED
  BY <1>2, <1>3, <1>4, <1>5, <1>6, <1>7, <1>8, QuietStep

\* An owner leaves its superblock where it can be found, and returns its block if it has
\* one.
LEMMA HandOverStep ==
  ASSUME IInv, NEW t \in Thread, Pc(t) \in Carrying \cup Adding,
         UNCHANGED <<anchor, nNextFree, listSBDescFree, fresh, live, made, stale>>,
         my' = [my EXCEPT ![t] = Idle],
         IF my[t].block = NULL THEN users' = users
         ELSE users' = [users EXCEPT ![<<my[t].desc, my[t].block>>] = @ + 1],
         active' \in [desc : Desc \cup {NULL}, credits : Nat], pPartial' \in Desc \cup {NULL},
         partialList' \in Seq(Desc),
         \A d \in Desc : Findable(d)' <=> Findable(d) \/ d = my[t].desc,
         \A d \in Desc : Credits(d)' = Credits(d) + Carried(t, d),
         FoundOnce', States'
  PROVE  IInv'
<1> USE DEF IInv
<1>1. /\ my[t] \in Locals /\ LocalsOK(my[t]) /\ ThreadOK(t) /\ my[t].pc \in Carrying \cup Adding
      /\ my[t].desc \in Desc /\ my[t].desc # NULL /\ Owns(t)
  BY NullIs DEF TypeOK, LocalsSet, ThreadsOK, Pc, Owns, Keeping, Locals, LocalsOK, Seeking,
     Carrying, Adding
<1>2. PICK r : r = Idle
  OBVIOUS
<1>3. r \in Locals /\ LocalsOK(r) /\ r.desc = NULL /\ r.block = NULL /\ r.pc = "idle" /\ r.more = 0
  BY <1>2 DEF Locals, LocalsOK, Idle, Seeking, Popping, Carrying, Adding
<1>4. /\ my' \in [Thread -> Locals] /\ LocalsSet' /\ OthersStay(t) /\ my'[t] = r
      /\ \A u \in Thread \ {t} : (Owns(u)' <=> Owns(u))
  BY <1>2, <1>3, ThreadStep DEF TypeOK
<1>5. /\ users' \in [Block -> {0, 1}]
      /\ my[t].block # NULL =>
           /\ my[t].block \in Index /\ users[<<my[t].desc, my[t].block>>] = 0
           /\ users'[<<my[t].desc, my[t].block>>] = 1
      /\ \A d \in Desc, i \in Index :
            d # my[t].desc \/ i # my[t].block => users'[<<d, i>>] = users[<<d, i>>]
  <2>1. users \in [Block -> {0, 1}]
    BY DEF TypeOK
  <2>2. CASE my[t].block = NULL
    BY <2>1, <2>2
  <2>3. CASE my[t].block # NULL
    <3>1. my[t].block \in Index /\ users[<<my[t].desc, my[t].block>>] = 0
      BY <1>1, <2>3 DEF Locals, ThreadOK
    <3>2. <<my[t].desc, my[t].block>> \in Block
      BY <1>1, <3>1 DEF Block
    <3> QED
      BY <2>1, <2>3, <3>1, <3>2 DEF Block
  <2> QED
    BY <2>2, <2>3
<1>6. TypeOK'
  BY <1>4, <1>5 DEF TypeOK
<1>7. ~Owns(t)'
  BY <1>3, <1>4 DEF Owns, Pc, Seeking, Popping, Carrying, Adding, Keeping
<1>8. OnePlace' /\ Somewhere'
  <2>1. \A u \in Thread : Owns(u) => my[u].desc \in Desc /\ (my[u].desc = my[t].desc => u = t)
    BY <1>1 DEF OnePlace, Alone, TypeOK
  <2>2. Alone'
    BY <2>1, <1>4, <1>7 DEF OnePlace, Alone, OthersStay
  <2>3. FreeOnce'
    BY DEF OnePlace, FreeOnce
  <2>4. Somewhere'
    BY <1>4, <1>7 DEF Somewhere, OthersStay, TypeOK
  <2> QED
    BY <2>2, <2>3, <2>4 DEF OnePlace
<1>9. ThreadsOK'
  <2>1. ThreadOK(t)'
    BY <1>3, <1>4 DEF ThreadOK, Pc, Popping, Carrying, Adding
  <2>2. ASSUME NEW u \in Thread \ {t}
        PROVE  ThreadOK(u)'
    <3>1. my[u].block # NULL => Owns(u) /\ my[u].desc \in Desc /\ my[u].block \in Index
      BY NullIs DEF TypeOK, Locals, LocalsSet, LocalsOK, Owns, Pc, Keeping, Seeking, Carrying,
         Adding
    <3>2. my[u].block # NULL => my[u].desc # my[t].desc
      BY <3>1, <1>1 DEF OnePlace, Alone
    <3>3. my[u].block # NULL =>
             users'[<<my[u].desc, my[u].block>>] = users[<<my[u].desc, my[u].block>>]
      BY <3>1, <3>2, <1>5
    <3> QED
      BY <3>3, <1>4, SameThread DEF ThreadsOK, LocalsSet, OthersStay
  <2> QED
    BY <2>1, <2>2 DEF ThreadsOK
<1>10. ASSUME NEW d \in Desc
       PROVE  CountOK(d)' /\ ChainOK(d)'
  <2>1. Used(d)' = Used(d)
    <3>1. CASE d # my[t].desc
      BY <3>1, <1>3, <1>4, <1>5, SameUsed, NullIs
    <3>2. CASE d = my[t].desc
      <4>1. ASSUME NEW i \in Index
            PROVE  i \in Used(d)' <=> i \in Used(d)
        <5>1. CASE i = my[t].block
          BY <5>1, <3>2, <1>5, NullIs DEF Used
        <5>2. CASE i # my[t].block
          <6>1. users'[<<d, i>>] = users[<<d, i>>]
            BY <5>2, <1>5
          <6> QED
            BY <6>1, <5>2, <1>3, <1>4, NullIs DEF Used, OthersStay
        <5> QED
          BY <5>1, <5>2
      <4> QED
        BY <4>1 DEF Used
    <3> QED
      BY <3>1, <3>2
  <2>2. /\ Pops(t, d) = 0 /\ Pops(t, d)' = 0 /\ Carried(t, d)' = 0
        /\ Credits(d)' = Credits(d) + Carried(t, d)
    BY <1>1, <1>3, <1>4, NullIs DEF Pops, Carried, Pc, Popping, Carrying, Adding
  <2>3. Out(d)' = Out(d)
    <3>1. Terms(t, d) /\ Terms(t, d)'
      BY <1>4, <1>6, <1>8, OutStep
    <3>2. Credits(d)' + Pops(t, d)' + Carried(t, d)' = Credits(d) + Pops(t, d) + Carried(t, d)
      BY <2>2, <3>1 DEF Terms
    <3> QED
      BY <2>1, <3>2, <1>4, <1>6, <1>8, SameOut
  <2>4. (d \in Serving)' = (d \in Serving)
    BY <1>1, <1>3, <1>4, SameServing, NullIs DEF Carrying, Adding
  <2> QED
    BY <2>1, <2>3, <2>4, SameFor DEF Counts, Chains
<1> QED
  BY <1>4, <1>6, <1>8, <1>9, <1>10 DEF Counts, Chains

\* What an owner has.
LEMMA OwnerHas ==
  ASSUME IInv, NEW t \in Thread, Pc(t) \in Keeping
  PROVE  /\ my[t] \in Locals /\ LocalsOK(my[t]) /\ ThreadOK(t)
         /\ my[t].desc \in Desc /\ my[t].desc # NULL
         /\ my[t].desc \in live /\ ~Findable(my[t].desc) /\ Owns(t)
         /\ my = [my EXCEPT ![t] = my[t]]
         /\ my[t] = [my[t] EXCEPT !.then = my[t].then]
         /\ \A u \in Thread : Owns(u) /\ my[u].desc = my[t].desc => u = t
<1>1. my[t] \in Locals /\ LocalsOK(my[t]) /\ ThreadOK(t) /\ Owns(t)
  BY DEF IInv, TypeOK, LocalsSet, ThreadsOK, Owns
<1>2. my[t].desc \in Desc /\ my[t].desc # NULL
  BY <1>1, NullIs DEF Locals, LocalsOK, Pc, Seeking, Keeping, Carrying, Adding
<1>3. /\ my[t].desc \in live /\ ~Findable(my[t].desc)
      /\ \A u \in Thread : Owns(u) /\ my[u].desc = my[t].desc => u = t
  BY <1>1 DEF IInv, OnePlace, Alone
<1>4. my = [my EXCEPT ![t] = my[t]] /\ my[t] = [my[t] EXCEPT !.then = my[t].then]
  BY <1>1 DEF IInv, TypeOK, Locals
<1> QED
  BY <1>1, <1>2, <1>3, <1>4

\* update_active
LEMMA InstallStep ==
  ASSUME IInv, NEW t \in Thread, Install(t)
  PROVE  IInv'
<1> USE DEF IInv
<1>1. Pc(t) = "install" /\ Pc(t) \in Keeping
  BY DEF Install, Keeping, Carrying
<1>2. /\ my[t] \in Locals /\ LocalsOK(my[t]) /\ ThreadOK(t)
      /\ my[t].desc \in Desc /\ my[t].desc # NULL
      /\ my[t].desc \in live /\ ~Findable(my[t].desc) /\ Owns(t)
      /\ my[t] = [my[t] EXCEPT !.then = my[t].then]
  BY <1>1, OwnerHas
<1>3. /\ my[t].then \in {"idle", "reserve", "partial"}
      /\ my[t].more \in Nat /\ my[t].more > 0 /\ my[t].block # NULL
      /\ anchor[my[t].desc].state = ACTIVE
  BY <1>1, <1>2 DEF Locals, LocalsOK, ThreadOK, Pc, Carrying
<1>4. CASE active.desc = NULL
  <2>1. /\ active' = [desc |-> my[t].desc, credits |-> my[t].more - 1]
        /\ my' = [my EXCEPT ![t] = Idle]
        /\ users' = [users EXCEPT ![<<my[t].desc, my[t].block>>] = @ + 1]
        /\ UNCHANGED <<anchor, nNextFree, pPartial, partialList, listSBDescFree, fresh, live,
                       made, stale>>
    BY <1>4 DEF Install, Return
  <2>2. active' \in [desc : Desc \cup {NULL}, credits : Nat]
    BY <1>2, <1>3, <2>1
  <2>3. \A d \in Desc : Findable(d)' <=> Findable(d) \/ d = my[t].desc
    BY <1>4, <2>1, NullIs DEF Findable
  <2>4. \A d \in Desc : Credits(d)' = Credits(d) + Carried(t, d)
    BY <1>2, <1>3, <1>4, <2>1, NullIs DEF Credits, Carried
  <2>5. FoundOnce'
    BY <1>2, <2>1, <2>3 DEF OnePlace, FoundOnce, Findable
  <2>6. States'
    BY <1>3, <2>1 DEF States
  <2>7. pPartial' \in Desc \cup {NULL} /\ partialList' \in Seq(Desc)
    BY <2>1 DEF TypeOK
  <2> QED
    BY <1>1, <1>3, <2>1, <2>2, <2>3, <2>4, <2>5, <2>6, <2>7, HandOverStep DEF Carrying
<1>5. CASE active.desc # NULL
  <2>1. /\ my' = [my EXCEPT ![t] = [my[t] EXCEPT !.pc = "giveback", !.then = my[t].then]]
        /\ UNCHANGED <<heapVars, anchor, nNextFree, stale, users>>
    BY <1>2, <1>5 DEF Install, Goto, heapVars
  <2> QED
    BY <1>1, <1>3, <2>1, OwnerStep DEF Keeping, Carrying
<1> QED
  BY <1>4, <1>5

\* add_partial
LEMMA AddPartialStep ==
  ASSUME IInv, NEW t \in Thread, AddPartial(t)
  PROVE  IInv'
<1> USE DEF IInv
<1>1. Pc(t) = "add" /\ Pc(t) \in Keeping
  BY DEF AddPartial, Keeping, Adding
<1>2. /\ my[t] \in Locals /\ LocalsOK(my[t]) /\ ThreadOK(t)
      /\ my[t].desc \in Desc /\ my[t].desc # NULL
      /\ my[t].desc \in live /\ ~Findable(my[t].desc) /\ Owns(t)
      /\ my[t] = [my[t] EXCEPT !.then = my[t].then]
  BY <1>1, OwnerHas
<1>3. /\ my[t].then \in {"idle", "reserve", "partial"}
      /\ my[t].more = 0 /\ anchor[my[t].desc].state \in {PARTIAL, EMPTY}
  BY <1>1, <1>2 DEF Locals, LocalsOK, ThreadOK, Pc, Popping, Carrying, Adding
<1>4. CASE pPartial = NULL
  <2>1. /\ pPartial' = my[t].desc
        /\ my' = [my EXCEPT ![t] = Idle]
        /\ IF my[t].block = NULL THEN users' = users
           ELSE users' = [users EXCEPT ![<<my[t].desc, my[t].block>>] = @ + 1]
        /\ UNCHANGED <<active, anchor, nNextFree, partialList, listSBDescFree, fresh, live,
                       made, stale>>
    BY <1>4 DEF AddPartial, AfterAdding, Return
  <2>2. \A d \in Desc : Findable(d)' <=> Findable(d) \/ d = my[t].desc
    BY <1>4, <2>1, NullIs DEF Findable
  <2>3. \A d \in Desc : Credits(d)' = Credits(d) + Carried(t, d)
    <3>1. \A d \in Desc : Credits(d)' = Credits(d) /\ Carried(t, d) = 0 /\ Credits(d) \in Nat
      BY <1>3, <2>1 DEF Credits, Carried, TypeOK
    <3> QED
      BY <3>1
  <2>4. FoundOnce'
    BY <1>2, <2>1, <2>2 DEF OnePlace, FoundOnce, Findable
  <2>5. States'
    BY <1>3, <1>4, <2>1, NullIs DEF States
  <2>6. /\ pPartial' \in Desc \cup {NULL} /\ partialList' \in Seq(Desc)
        /\ active' \in [desc : Desc \cup {NULL}, credits : Nat]
    BY <1>2, <2>1 DEF TypeOK
  <2> QED
    BY <1>1, <2>1, <2>2, <2>3, <2>4, <2>5, <2>6, HandOverStep DEF Adding
<1>5. CASE pPartial # NULL
  <2>1. /\ my' = [my EXCEPT ![t] = [my[t] EXCEPT !.pc = "push", !.then = my[t].then]]
        /\ UNCHANGED <<heapVars, anchor, nNextFree, stale, users>>
    BY <1>2, <1>5 DEF AddPartial, Goto, heapVars
  <2> QED
    BY <1>1, <1>3, <2>1, OwnerStep DEF Keeping, Adding
<1> QED
  BY <1>4, <1>5

\* The list, when a descriptor is put at its end.
LEMMA Appended ==
  ASSUME NEW S, NEW s \in Seq(S), NEW x \in S
  PROVE  /\ Append(s, x) \in Seq(S) /\ ToSet(Append(s, x)) = ToSet(s) \cup {x}
         /\ Distinct(s) /\ x \notin ToSet(s) => Distinct(Append(s, x))
<1>1. /\ Append(s, x) \in Seq(S) /\ Len(Append(s, x)) = Len(s) + 1 /\ Len(s) \in Nat
      /\ \A i \in 1 .. Len(s) : Append(s, x)[i] = s[i]
      /\ Append(s, x)[Len(s) + 1] = x
  OBVIOUS
<1>2. ToSet(s) = {s[i] : i \in 1 .. Len(s)}
  BY DEF ToSet
<1>3. ToSet(Append(s, x)) = {Append(s, x)[i] : i \in 1 .. Len(s) + 1}
  BY <1>1 DEF ToSet
<1>4. ToSet(Append(s, x)) = ToSet(s) \cup {x}
  BY <1>1, <1>2, <1>3
<1>5. Distinct(s) /\ x \notin ToSet(s) => Distinct(Append(s, x))
  BY <1>1, <1>2 DEF Distinct
<1> QED
  BY <1>1, <1>4, <1>5

\* push onto the list
LEMMA PushPartialStep ==
  ASSUME IInv, NEW t \in Thread, PushPartial(t)
  PROVE  IInv'
<1> USE DEF IInv
<1>1. Pc(t) = "push" /\ Pc(t) \in Keeping
  BY DEF PushPartial, Keeping, Adding
<1>2. /\ my[t] \in Locals /\ LocalsOK(my[t]) /\ ThreadOK(t)
      /\ my[t].desc \in Desc /\ my[t].desc # NULL
      /\ my[t].desc \in live /\ ~Findable(my[t].desc)
  BY <1>1, OwnerHas
<1>3. my[t].more = 0 /\ anchor[my[t].desc].state \in {PARTIAL, EMPTY}
  BY <1>1, <1>2 DEF Locals, LocalsOK, ThreadOK, Pc, Popping, Carrying, Adding
<1>4. /\ partialList' = Append(partialList, my[t].desc)
      /\ my' = [my EXCEPT ![t] = Idle]
      /\ IF my[t].block = NULL THEN users' = users
         ELSE users' = [users EXCEPT ![<<my[t].desc, my[t].block>>] = @ + 1]
      /\ UNCHANGED <<active, anchor, nNextFree, pPartial, listSBDescFree, fresh, live, made, stale>>
  BY DEF PushPartial, AfterAdding, Return, Listed
<1>5. /\ partialList' \in Seq(Desc) /\ ToSet(partialList') = ToSet(partialList) \cup {my[t].desc}
      /\ Distinct(partialList')
  BY <1>2, <1>4, Appended DEF TypeOK, OnePlace, FoundOnce, Findable
<1>6. \A d \in Desc : Findable(d)' <=> Findable(d) \/ d = my[t].desc
  BY <1>4, <1>5 DEF Findable
<1>7. \A d \in Desc : Credits(d)' = Credits(d) + Carried(t, d)
  <2>1. \A d \in Desc : Credits(d)' = Credits(d) /\ Carried(t, d) = 0 /\ Credits(d) \in Nat
    BY <1>3, <1>4 DEF Credits, Carried, TypeOK
  <2> QED
    BY <2>1
<1>8. FoundOnce'
  BY <1>2, <1>4, <1>5, <1>6 DEF OnePlace, FoundOnce, Findable
<1>9. States'
  BY <1>3, <1>4, <1>5 DEF States
<1>10. pPartial' \in Desc \cup {NULL} /\ active' \in [desc : Desc \cup {NULL}, credits : Nat]
  BY <1>4 DEF TypeOK
<1> QED
  BY <1>1, <1>4, <1>5, <1>6, <1>7, <1>8, <1>9, <1>10, HandOverStep DEF Adding

\* A thread that has nothing takes a superblock from where it was found.
LEMMA TakeUpStep ==
  ASSUME IInv, NEW t \in Thread, Pc(t) \in Seeking \cup {"unlink"}, NEW d \in Desc,
         NEW r \in Locals, LocalsOK(r), my' = [my EXCEPT ![t] = r],
         r.desc = d, r.block = NULL, r.more = 0,
         r.pc = "take" \/ (r.pc = "release" /\ anchor[d].state = EMPTY),
         anchor[d].state \in {PARTIAL, EMPTY},
         UNCHANGED <<active, anchor, nNextFree, listSBDescFree, fresh, live, made, stale, users>>,
         pPartial' \in Desc \cup {NULL}, partialList' \in Seq(Desc),
         Findable(d), \A e \in Desc : Findable(e)' <=> Findable(e) /\ e # d,
         FoundOnce', States'
  PROVE  IInv'
<1> USE DEF IInv
<1>1. my[t] \in Locals /\ LocalsOK(my[t])
  BY DEF TypeOK, LocalsSet
<1>2. /\ my[t].more = 0 /\ my[t].block = NULL
      /\ my[t].pc \notin Popping \cup {"publish", "release"} /\ r.pc \notin Popping \cup {"publish"}
  BY <1>1 DEF Locals, LocalsOK, Pc, Seeking, Popping, Carrying, Adding
<1>3. /\ my' \in [Thread -> Locals] /\ LocalsSet' /\ OthersStay(t) /\ my'[t] = r
      /\ \A u \in Thread \ {t} : (Owns(u)' <=> Owns(u))
  BY ThreadStep DEF TypeOK
<1>4. TypeOK'
  BY <1>3 DEF TypeOK
<1>5. ~Owns(t) /\ Owns(t)'
  BY <1>3 DEF Owns, Pc, Seeking, Popping, Carrying, Adding, Keeping
<1>6. OnePlace' /\ Somewhere'
  <2>1. d \in live /\ \A u \in Thread : Owns(u) => my[u].desc # d /\ my[u].desc \in Desc
    BY DEF OnePlace, Alone, FoundOnce, TypeOK
  <2>2. Alone'
    BY <2>1, <1>3, <1>5 DEF OnePlace, Alone, OthersStay
  <2>3. FreeOnce'
    BY DEF OnePlace, FreeOnce
  <2>4. Somewhere'
    BY <1>3, <1>5 DEF Somewhere, OthersStay, TypeOK
  <2> QED
    BY <2>2, <2>3, <2>4 DEF OnePlace
<1>7. ThreadsOK'
  <2>1. ThreadOK(t)'
    BY <1>2, <1>3 DEF ThreadOK, Pc, Popping, Carrying, Adding
  <2>2. \A u \in Thread \ {t} : ThreadOK(u)'
    BY <1>3, SameThread DEF ThreadsOK, LocalsSet, OthersStay
  <2> QED
    BY <2>1, <2>2 DEF ThreadsOK
<1>8. ASSUME NEW e \in Desc
      PROVE  CountOK(e)' /\ ChainOK(e)'
  <2>1. NULL \notin Index
    BY NullIs
  <2>2. Used(e)' = Used(e)
    BY <2>1, <1>2, <1>3, SameUsed
  <2>3. Credits(e)' = Credits(e) /\ Pops(t, e)' = Pops(t, e) /\ Carried(t, e)' = Carried(t, e)
    BY <1>2, <1>3 DEF Credits, Pops, Carried, Pc
  <2>4. Out(e)' = Out(e)
    BY <2>2, <2>3, <1>3, <1>4, <1>6, SameOut
  <2>5. (e \in Serving)' = (e \in Serving)
    <3>1. CASE e = d /\ anchor[d].state = EMPTY
      BY <3>1 DEF Serving
    <3>2. CASE e # d \/ r.pc = "take"
      BY <3>2, <1>2, <1>3, SameServing
    <3> QED
      BY <3>1, <3>2
  <2> QED
    BY <2>2, <2>4, <2>5, SameFor DEF Counts, Chains
<1> QED
  BY <1>3, <1>4, <1>6, <1>7, <1>8 DEF Counts, Chains

\* The locals of a thread that takes up a superblock.
LEMMA TakerHas ==
  ASSUME IInv, NEW t \in Thread, Pc(t) \in Seeking, NEW d \in Desc,
         NEW r \in Locals, r.desc = d, r.pc = "take",
         r.block = my[t].block, r.more = my[t].more, r.last = my[t].last
  PROVE  LocalsOK(r) /\ r.block = NULL /\ r.more = 0
<1>1. my[t] \in Locals /\ LocalsOK(my[t])
  BY DEF IInv, TypeOK, LocalsSet
<1>2. my[t].block = NULL /\ my[t].more = 0 /\ my[t].last = FALSE
  BY <1>1 DEF Locals, LocalsOK, Pc, Seeking, Popping, Carrying, Adding
<1>3. LocalsOK(r)
  BY <1>2, NullIs DEF LocalsOK, Seeking, Popping, Carrying, Adding
<1> QED
  BY <1>2, <1>3

\* get_partial, the one place
LEMMA GetPartialStep ==
  ASSUME IInv, NEW t \in Thread, GetPartial(t)
  PROVE  IInv'
<1> USE DEF IInv
<1>1. Pc(t) \in Seeking /\ Pc(t) = "partial"
  BY DEF GetPartial, Seeking
<1>2. CASE pPartial = NULL
  BY <1>1, <1>2, SeekGoto DEF GetPartial, heapVars, Seeking
<1>3. CASE pPartial # NULL
  <2>1. PICK d, r : d = pPartial /\ r = [my[t] EXCEPT !.pc = "take", !.desc = d]
    OBVIOUS
  <2>2. d \in Desc /\ Findable(d) /\ anchor[d].state \in {PARTIAL, EMPTY}
    BY <1>3, <2>1 DEF TypeOK, Findable, States
  <2>3. my[t] \in Locals /\ LocalsOK(my[t])
    BY DEF TypeOK, LocalsSet
  <2>4. r \in Locals /\ LocalsOK(r) /\ r.desc = d /\ r.block = NULL /\ r.more = 0 /\ r.pc = "take"
    <3>1. /\ r.desc = d /\ r.pc = "take" /\ r.block = my[t].block /\ r.more = my[t].more
          /\ r.last = my[t].last /\ r \in Locals
      BY <2>1, <2>2, <2>3 DEF Locals, Keeping
    <3> QED
      BY <3>1, <1>1, <2>2, TakerHas
  <2>5. /\ my' = [my EXCEPT ![t] = r] /\ pPartial' = NULL
        /\ UNCHANGED <<active, anchor, nNextFree, partialList, listSBDescFree, fresh, live,
                       made, stale, users>>
    BY <1>3, <2>1, <2>3 DEF GetPartial, TypeOK
  <2>6. \A e \in Desc : Findable(e)' <=> Findable(e) /\ e # d
    BY <1>3, <2>1, <2>2, <2>5, NullIs DEF Findable, OnePlace, FoundOnce
  <2>7. FoundOnce'
    <3>1. ToSet(partialList) \subseteq Desc
      BY ToSetPlaces DEF TypeOK
    <3> QED
      BY <3>1, <2>5, <2>6, NullIs DEF OnePlace, FoundOnce
  <2>8. States'
    BY <2>5, NullIs DEF States
  <2>9. pPartial' \in Desc \cup {NULL} /\ partialList' \in Seq(Desc)
    BY <2>5 DEF TypeOK
  <2> QED
    BY <1>1, <2>2, <2>4, <2>5, <2>6, <2>7, <2>8, <2>9, TakeUpStep
<1> QED
  BY <1>2, <1>3

\* The list, without its first descriptor.
LEMMA Beheaded ==
  ASSUME NEW S, NEW s \in Seq(S), s # <<>>, Distinct(s)
  PROVE  /\ Tail(s) \in Seq(S) /\ Head(s) \in S /\ Head(s) \in ToSet(s)
         /\ ToSet(Tail(s)) = ToSet(s) \ {Head(s)} /\ Distinct(Tail(s))
<1>1. /\ Tail(s) \in Seq(S) /\ Len(Tail(s)) = Len(s) - 1 /\ Len(s) \in Nat \ {0}
      /\ \A i \in 1 .. Len(s) - 1 : Tail(s)[i] = s[i + 1]
      /\ Head(s) = s[1] /\ Head(s) \in S
  OBVIOUS
<1>2. ToSet(s) = {s[i] : i \in 1 .. Len(s)}
  BY DEF ToSet
<1>3. ToSet(Tail(s)) = {Tail(s)[i] : i \in 1 .. Len(s) - 1}
  <2>1. DOMAIN Tail(s) = 1 .. Len(s) - 1
    BY <1>1, LenProperties
  <2> QED
    BY <2>1 DEF ToSet
<1>4. Head(s) \in ToSet(s)
  BY <1>1, <1>2
<1>5. ASSUME NEW x
      PROVE  x \in ToSet(Tail(s)) <=> x \in ToSet(s) /\ x # Head(s)
  <2>1. ASSUME NEW i \in 1 .. Len(s) - 1, x = Tail(s)[i]
        PROVE  x \in ToSet(s) /\ x # Head(s)
    <3>1. x = s[i + 1] /\ i + 1 \in 1 .. Len(s) /\ i + 1 # 1 /\ 1 \in 1 .. Len(s)
      BY <1>1, <2>1
    <3> QED
      BY <3>1, <1>1, <1>2 DEF Distinct
  <2>2. ASSUME NEW i \in 1 .. Len(s), x = s[i], x # Head(s)
        PROVE  x \in ToSet(Tail(s))
    <3>1. i # 1 /\ i - 1 \in 1 .. Len(s) - 1 /\ (i - 1) + 1 = i
      BY <1>1, <2>2
    <3>2. x = Tail(s)[i - 1]
      BY <3>1, <1>1, <2>2
    <3> QED
      BY <3>1, <3>2, <1>3
  <2> QED
    BY <2>1, <2>2, <1>2, <1>3
<1>6. Distinct(Tail(s))
  <2>1. ASSUME NEW i \in 1 .. Len(s) - 1, NEW j \in 1 .. Len(s) - 1, Tail(s)[i] = Tail(s)[j]
        PROVE  i = j
    <3>1. /\ i + 1 \in 1 .. Len(s) /\ j + 1 \in 1 .. Len(s) /\ s[i + 1] = s[j + 1]
      BY <1>1, <2>1
    <3>2. i + 1 = j + 1
      BY <3>1 DEF Distinct
    <3> QED
      BY <3>2
  <2> QED
    BY <2>1, <1>1 DEF Distinct
<1> QED
  BY <1>1, <1>4, <1>5, <1>6

\* get_partial, the list
LEMMA PopPartialStep ==
  ASSUME IInv, NEW t \in Thread, PopPartial(t)
  PROVE  IInv'
<1> USE DEF IInv
<1>1. Pc(t) \in Seeking /\ Pc(t) = "list"
  BY DEF PopPartial, Seeking
<1>2. CASE partialList = <<>>
  BY <1>1, <1>2, SeekGoto DEF PopPartial, heapVars, Seeking
<1>3. CASE partialList # <<>>
  <2>1. PICK d, r : d = Head(partialList) /\ r = [my[t] EXCEPT !.pc = "take", !.desc = d]
    OBVIOUS
  <2>2. /\ my' = [my EXCEPT ![t] = r] /\ partialList' = Tail(partialList)
        /\ UNCHANGED <<active, anchor, nNextFree, pPartial, listSBDescFree, fresh, live, made,
                       stale, users>>
    BY <1>3, <2>1 DEF PopPartial, TypeOK
  <2>3. /\ partialList' \in Seq(Desc) /\ d \in Desc /\ d \in ToSet(partialList)
        /\ ToSet(partialList') = ToSet(partialList) \ {d} /\ Distinct(partialList')
    BY <1>3, <2>1, <2>2, Beheaded DEF TypeOK, OnePlace, FoundOnce
  <2>4. Findable(d) /\ anchor[d].state \in {PARTIAL, EMPTY}
    BY <2>3 DEF Findable, States
  <2>5. my[t] \in Locals /\ LocalsOK(my[t])
    BY DEF TypeOK, LocalsSet
  <2>6. r \in Locals /\ LocalsOK(r) /\ r.desc = d /\ r.block = NULL /\ r.more = 0 /\ r.pc = "take"
    <3>1. /\ r.desc = d /\ r.pc = "take" /\ r.block = my[t].block /\ r.more = my[t].more
          /\ r.last = my[t].last /\ r \in Locals
      BY <2>1, <2>3, <2>5 DEF Locals, Keeping
    <3> QED
      BY <3>1, <1>1, <2>3, TakerHas
  <2>7. \A e \in Desc : Findable(e)' <=> Findable(e) /\ e # d
    BY <2>2, <2>3 DEF Findable, OnePlace, FoundOnce
  <2>8. FoundOnce'
    BY <2>2, <2>3, <2>7 DEF OnePlace, FoundOnce
  <2>9. States'
    BY <2>2, <2>3 DEF States
  <2>10. pPartial' \in Desc \cup {NULL}
    BY <2>2 DEF TypeOK
  <2> QED
    BY <1>1, <2>2, <2>3, <2>4, <2>6, <2>7, <2>8, <2>9, <2>10, TakeUpStep
<1> QED
  BY <1>2, <1>3

\* The list, without one of its descriptors.
LEMMA Erased ==
  ASSUME NEW S, NEW s \in Seq(S), Distinct(s), NEW p \in 1 .. Len(s)
  PROVE  /\ RemoveAt(s, p) \in Seq(S) /\ ToSet(RemoveAt(s, p)) = ToSet(s) \ {s[p]}
         /\ Distinct(RemoveAt(s, p))
<1>1. /\ Len(s) \in Nat /\ p \in Nat /\ p - 1 \in Nat /\ p + 1 \in Nat
      /\ \A i \in 1 .. Len(s) : s[i] \in S
  OBVIOUS
<1>2. PICK a, b, u : a = SubSeq(s, 1, p - 1) /\ b = SubSeq(s, p + 1, Len(s)) /\ u = RemoveAt(s, p)
  OBVIOUS
<1>3. /\ a \in Seq(S) /\ Len(a) = p - 1 /\ \A i \in 1 .. p - 1 : a[i] = s[i]
  BY <1>1, <1>2, SubSeqProperties
<1>4. /\ b \in Seq(S) /\ Len(b) = Len(s) - p /\ \A i \in 1 .. Len(s) - p : b[i] = s[p + i]
  BY <1>1, <1>2, SubSeqProperties
<1>5. /\ u \in Seq(S) /\ Len(u) = Len(s) - 1
      /\ \A i \in 1 .. Len(s) - 1 : u[i] = IF i < p THEN s[i] ELSE s[i + 1]
  <2>1. u = a \o b
    BY <1>2 DEF RemoveAt
  <2>2. /\ u \in Seq(S) /\ Len(u) = (p - 1) + (Len(s) - p)
        /\ \A i \in 1 .. (p - 1) + (Len(s) - p) : u[i] = IF i <= p - 1 THEN a[i] ELSE b[i - (p - 1)]
    <3>1. /\ a \o b \in Seq(S) /\ Len(a \o b) = Len(a) + Len(b)
          /\ \A i \in 1 .. Len(a) + Len(b) : (a \o b)[i] = IF i <= Len(a) THEN a[i]
             ELSE b[i - Len(a)]
      BY <1>3, <1>4, ConcatProperties
    <3> QED
      BY <3>1, <2>1, <1>3, <1>4
  <2>3. (p - 1) + (Len(s) - p) = Len(s) - 1
    BY <1>1
  <2>4. ASSUME NEW i \in 1 .. Len(s) - 1
        PROVE  u[i] = IF i < p THEN s[i] ELSE s[i + 1]
    <3>1. CASE i < p
      <4>1. i \in 1 .. p - 1 /\ i <= p - 1
        BY <1>1, <3>1
      <4> QED
        BY <4>1, <3>1, <2>2, <2>3, <1>3
    <3>2. CASE ~(i < p)
      <4>1. /\ ~(i <= p - 1) /\ i - (p - 1) \in 1 .. Len(s) - p /\ p + (i - (p - 1)) = i + 1
        BY <1>1, <3>2
      <4> QED
        BY <4>1, <3>2, <2>2, <2>3, <1>4
    <3> QED
      BY <3>1, <3>2
  <2> QED
    BY <2>2, <2>3, <2>4
<1>6. ToSet(s) = {s[i] : i \in 1 .. Len(s)} /\ ToSet(u) = {u[i] : i \in 1 .. Len(s) - 1}
  <2>1. DOMAIN s = 1 .. Len(s) /\ DOMAIN u = 1 .. Len(s) - 1
    BY <1>5, LenProperties
  <2> QED
    BY <2>1 DEF ToSet
<1> DEFINE From(i) == IF i < p THEN i ELSE i + 1
<1>7. \A i \in 1 .. Len(s) - 1 : From(i) \in 1 .. Len(s) /\ From(i) # p /\ u[i] = s[From(i)]
  BY <1>1, <1>5
<1>8. \A i, j \in 1 .. Len(s) - 1 : From(i) = From(j) => i = j
  BY <1>1
<1>9. \A k \in 1 .. Len(s) : k # p => \E i \in 1 .. Len(s) - 1 : From(i) = k
  <2>1. ASSUME NEW k \in 1 .. Len(s), k < p
        PROVE  k \in 1 .. Len(s) - 1 /\ From(k) = k
    BY <1>1, <2>1
  <2>2. ASSUME NEW k \in 1 .. Len(s), k > p
        PROVE  k - 1 \in 1 .. Len(s) - 1 /\ From(k - 1) = k
    BY <1>1, <2>2
  <2>3. ASSUME NEW k \in 1 .. Len(s), k # p
        PROVE  k < p \/ k > p
    BY <1>1, <2>3
  <2> QED
    BY <2>1, <2>2, <2>3
<1> HIDE DEF From
<1>10. ToSet(u) = ToSet(s) \ {s[p]}
  <2>1. ASSUME NEW x \in ToSet(u)
        PROVE  x \in ToSet(s) /\ x # s[p]
    <3>1. PICK i \in 1 .. Len(s) - 1 : x = u[i]
      BY <1>6, <2>1
    <3> QED
      BY <3>1, <1>6, <1>7 DEF Distinct
  <2>2. ASSUME NEW x \in ToSet(s), x # s[p]
        PROVE  x \in ToSet(u)
    <3>1. PICK k \in 1 .. Len(s) : x = s[k]
      BY <1>6, <2>2
    <3>2. PICK i \in 1 .. Len(s) - 1 : From(i) = k
      BY <3>1, <2>2, <1>9
    <3> QED
      BY <3>1, <3>2, <1>6, <1>7
  <2> QED
    BY <2>1, <2>2
<1>11. Distinct(u)
  BY <1>5, <1>7, <1>8 DEF Distinct
<1> QED
  BY <1>2, <1>5, <1>10, <1>11

\* free(), of the last block
LEMMA UnlinkStep ==
  ASSUME IInv, NEW t \in Thread, Unlink(t), StillEmpty
  PROVE  IInv'
<1> USE DEF IInv
<1>1. /\ Pc(t) = "unlink" /\ Pc(t) \in Seeking \cup {"unlink"}
      /\ my[t] \in Locals /\ LocalsOK(my[t])
  BY DEF Unlink, TypeOK, LocalsSet
<1>2. CASE my[t].desc \notin ToSet(partialList)
  <2>1. PICK r : r = Idle
    OBVIOUS
  <2>2. r \in Locals /\ LocalsOK(r) /\ r.pc \in Seeking
    BY <2>1 DEF Locals, LocalsOK, Idle, Seeking, Popping, Carrying, Adding
  <2>3. my' = [my EXCEPT ![t] = r] /\ UNCHANGED <<heapVars, anchor, nNextFree, stale, users>>
    BY <1>2, <2>1 DEF Unlink, heapVars
  <2> QED
    BY <1>1, <2>2, <2>3, SeekStep
<1>3. CASE my[t].desc \in ToSet(partialList)
  <2>1. PICK d, r : d = my[t].desc /\ r = [my[t] EXCEPT !.pc = "release"]
    OBVIOUS
  <2>2. PICK i \in 1 .. Len(partialList) :
        partialList[i] = d /\ partialList' = RemoveAt(partialList, i)
    BY <1>3, <2>1 DEF Unlink
  <2>3. /\ my' = [my EXCEPT ![t] = r]
        /\ UNCHANGED <<active, anchor, nNextFree, pPartial, listSBDescFree, fresh, live, made,
                       stale, users>>
    BY <1>3, <2>1 DEF Unlink, Goto
  <2>4. /\ partialList' \in Seq(Desc) /\ d \in Desc
        /\ ToSet(partialList') = ToSet(partialList) \ {d} /\ Distinct(partialList')
    BY <2>2, Erased DEF TypeOK, OnePlace, FoundOnce
  <2>5. Findable(d) /\ anchor[d].state \in {PARTIAL, EMPTY}
    BY <1>3, <2>1, <2>4 DEF Findable, States
  <2>6. /\ r \in Locals /\ r.desc = d /\ r.pc = "release" /\ r.block = my[t].block
        /\ r.more = my[t].more /\ r.last = my[t].last
    BY <1>1, <2>1 DEF Locals, Keeping
  <2>7. r.block = NULL /\ r.more = 0 /\ LocalsOK(r)
    BY <1>1, <2>1, <2>4, <2>6, NullIs DEF Locals, LocalsOK, Pc, Seeking, Popping, Carrying, Adding
  <2>8. anchor[d].state = EMPTY
    <3>1. my'[t].pc = "release"
      BY <2>3, <2>6 DEF TypeOK
    <3> QED
      BY <3>1, <1>1, <2>1 DEF StillEmpty
  <2>9. \A e \in Desc : Findable(e)' <=> Findable(e) /\ e # d
    BY <1>3, <2>1, <2>3, <2>4 DEF Findable, OnePlace, FoundOnce
  <2>10. FoundOnce'
    BY <2>3, <2>4, <2>9 DEF OnePlace, FoundOnce
  <2>11. States'
    BY <2>3, <2>4 DEF States
  <2>12. pPartial' \in Desc \cup {NULL}
    BY <2>3 DEF TypeOK
  <2> QED
    BY <1>1, <2>3, <2>4, <2>5, <2>6, <2>7, <2>8, <2>9, <2>10, <2>11, <2>12, TakeUpStep
<1> QED
  BY <1>2, <1>3

\* free_superblock
LEMMA ReleaseStep ==
  ASSUME IInv, NEW t \in Thread, Release(t)
  PROVE  IInv'
<1> USE DEF IInv
<1>1. Pc(t) = "release" /\ Pc(t) \in Keeping
  BY DEF Release, Keeping
<1>2. PICK d : d = my[t].desc
  OBVIOUS
<1>3. /\ my[t] \in Locals /\ LocalsOK(my[t]) /\ d \in Desc /\ d # NULL /\ d \in live /\ ~Findable(d)
      /\ Owns(t) /\ \A u \in Thread : Owns(u) /\ my[u].desc = d => u = t
  BY <1>1, <1>2, OwnerHas
<1>4. PICK r : r = [Idle EXCEPT !.pc = my[t].then]
  OBVIOUS
<1>5. /\ my' = [my EXCEPT ![t] = r] /\ live' = live \ {d}
      /\ listSBDescFree' = Append(listSBDescFree, d)
      /\ UNCHANGED <<active, anchor, nNextFree, pPartial, partialList, fresh, made, stale, users>>
  BY <1>2, <1>4 DEF Release
<1>6. /\ r \in Locals /\ LocalsOK(r)
      /\ r.pc \in Seeking /\ r.desc = NULL /\ r.more = 0 /\ r.block = NULL
  <2>1. my[t].then \in {"idle", "reserve", "partial"}
    BY <1>3 DEF Locals
  <2>2. /\ r.pc = my[t].then /\ r.desc = NULL /\ r.more = 0 /\ r.block = NULL /\ r.last = FALSE
        /\ r.pc \in Seeking
    BY <2>1, <1>4 DEF Idle, Seeking
  <2>3. r \in Locals
    <3>1. Idle \in Locals
      BY DEF Idle, Locals, Seeking
    <3> QED
      BY <3>1, <2>2, <1>4 DEF Locals
  <2>4. LocalsOK(r)
    BY <2>1, <2>2 DEF LocalsOK, Seeking, Popping, Carrying, Adding
  <2> QED
    BY <2>2, <2>3, <2>4
<1>7. /\ my' \in [Thread -> Locals] /\ LocalsSet' /\ OthersStay(t) /\ my'[t] = r
      /\ \A u \in Thread \ {t} : (Owns(u)' <=> Owns(u))
  BY <1>5, <1>6, ThreadStep DEF TypeOK
<1>8. my[t].more = 0 /\ my[t].block = NULL /\ my[t].pc \notin Popping /\ my[t].pc = "release"
  BY <1>1, <1>3 DEF Locals, LocalsOK, Pc, Popping, Carrying, Adding
<1>9. /\ listSBDescFree' \in Seq(Desc) /\ ToSet(listSBDescFree') = ToSet(listSBDescFree) \cup {d}
      /\ Distinct(listSBDescFree')
  BY <1>3, <1>5, Appended DEF TypeOK, OnePlace, FreeOnce
<1>10. TypeOK'
  BY <1>5, <1>7, <1>9 DEF TypeOK
<1>11. ~Owns(t)' /\ \A e : Findable(e)' <=> Findable(e)
  BY <1>5, <1>6, <1>7 DEF Findable, Owns, Pc, Seeking, Popping, Carrying, Adding, Keeping
<1>12. OnePlace' /\ Somewhere'
  <2>1. Alone'
    BY <1>2, <1>3, <1>5, <1>7, <1>11 DEF OnePlace, Alone, OthersStay
  <2>2. FoundOnce'
    BY <1>3, <1>5, <1>11 DEF OnePlace, FoundOnce
  <2>3. FreeOnce'
    BY <1>3, <1>5, <1>9 DEF OnePlace, FreeOnce
  <2>4. Somewhere'
    BY <1>2, <1>5, <1>7, <1>11 DEF Somewhere, OthersStay
  <2> QED
    BY <2>1, <2>2, <2>3, <2>4 DEF OnePlace
<1>13. States'
  BY <1>5 DEF States
<1>14. ThreadsOK'
  <2>1. ThreadOK(t)'
    BY <1>6, <1>7 DEF ThreadOK, Pc, Seeking, Popping, Carrying, Adding
  <2>2. \A u \in Thread \ {t} : ThreadOK(u)'
    BY <1>5, <1>7, SameThread DEF ThreadsOK, LocalsSet, OthersStay
  <2> QED
    BY <2>1, <2>2 DEF ThreadsOK
<1>15. ASSUME NEW e \in Desc
       PROVE  CountOK(e)' /\ ChainOK(e)'
  <2>1. NULL \notin Index
    BY NullIs
  <2>2. Used(e)' = Used(e)
    BY <2>1, <1>5, <1>6, <1>7, <1>8, SameUsed
  <2>3. Credits(e)' = Credits(e) /\ Pops(t, e)' = Pops(t, e) /\ Carried(t, e)' = Carried(t, e)
    BY <1>5, <1>6, <1>7, <1>8 DEF Credits, Pops, Carried, Pc, Seeking, Popping
  <2>4. Out(e)' = Out(e)
    BY <2>2, <2>3, <1>7, <1>10, <1>12, SameOut
  <2>5. (e \in Serving)' = (e \in Serving)
    <3>1. CASE e = d
      BY <3>1, <1>2, <1>5, <1>8 DEF Serving, Pc
    <3>2. CASE e # d
      BY <3>2, <1>2, <1>5, <1>6, <1>7, SameServing DEF Seeking
    <3> QED
      BY <3>1, <3>2
  <2> QED
    BY <2>2, <2>4, <2>5, <1>5, SameFor DEF Counts, Chains
<1> QED
  BY <1>7, <1>10, <1>12, <1>13, <1>14, <1>15 DEF Counts, Chains

-----------------------------------------------------------------------------
(* The steps that change an anchor. *)

\* A thread other than the one that moves, when the anchor of its superblock changes: if it
\* owns it the state stays, or is made empty under one that only puts it away or takes it;
\* if it has loaded it, it is told, or the free list is as before.
Bears(u, d) ==
    /\ u \in stale => u \in stale' \/ Pc(u) # "cas"
    /\ my[u].desc = d /\ Pc(u) = "cas" =>
          u \in stale' \/ (anchor'[d].avail = anchor[d].avail /\ nNextFree'[d] = nNextFree[d])
    /\ my[u].desc = d /\ Owns(u) =>
          /\ Pc(u) # "publish"
          /\ \/ anchor'[d].state = anchor[d].state
             \/ Pc(u) \in Adding \cup {"take"} /\ anchor'[d].state = EMPTY
    /\ my[u].desc = d /\ my[u].block # NULL =>
          users'[<<d, my[u].block>>] = users[<<d, my[u].block>>]

\* What such a thread relies on stays.
LEMMA OtherThread ==
  ASSUME NEW d \in Desc, NEW u, my[u] \in Locals, LocalsOK(my[u]), ThreadOK(u), my'[u] = my[u],
         Bears(u, d),
         \A e \in Desc : e # d => anchor'[e] = anchor[e] /\ nNextFree'[e] = nNextFree[e],
         \A e \in Desc, i \in Index : e # d => users'[<<e, i>>] = users[<<e, i>>]
  PROVE  ThreadOK(u)'
<1>1. /\ Owns(u)' <=> Owns(u)
      /\ my[u].desc \in Desc \cup {NULL} /\ my[u].block \in Index \cup {NULL}
  BY DEF Owns, Pc, Locals
<1>2. CASE my[u].desc # d
  <2>1. my[u].desc # NULL => my[u].desc \in Desc
    BY <1>1
  <2>2. my[u].block # NULL => my[u].desc # NULL
    BY DEF LocalsOK, Seeking, Carrying, Adding
  <2> QED
    BY <1>1, <1>2, <2>1, <2>2, SameThread DEF Bears
<1>3. CASE my[u].desc = d
  <2>1. Owns(u) <=> Pc(u) \in Keeping \/ (Pc(u) \in Popping /\ (my[u].last \/ my[u].more > 0))
    BY DEF Owns
  <2>2. Pc(u)' = Pc(u)
    BY DEF Pc
  <2>3. (Pc(u) \in Adding \cup {"take"} => anchor[my[u].desc].state \in {PARTIAL, EMPTY})'
    BY <1>3, <2>1, <2>2 DEF ThreadOK, Bears, Keeping
  <2>4. (Pc(u) \in Popping \cup Carrying /\ Owns(u) => anchor[my[u].desc].state = ACTIVE)'
    BY <1>1, <1>3, <2>2 DEF ThreadOK, Bears, Popping, Carrying, Adding
  <2>5. Pc(u)' # "publish"
    BY <1>3, <2>1, <2>2 DEF Bears, Keeping
  <2>6. (Pc(u) = "cas" /\ u \notin stale =>
           /\ my[u].seen.anchor.avail = anchor[my[u].desc].avail
           /\ my[u].seen.next = nNextFree[my[u].desc][my[u].seen.anchor.avail])'
    BY <1>3, <2>2 DEF ThreadOK, Bears
  <2>7. (my[u].block # NULL => users[<<my[u].desc, my[u].block>>] = 0)'
    BY <1>3 DEF ThreadOK, Bears
  <2> QED
    BY <2>3, <2>4, <2>5, <2>6, <2>7 DEF ThreadOK
<1> QED
  BY <1>2, <1>3

\* Another superblock than the one of which t has or had something.
LEMMA OtherDesc ==
  ASSUME TypeOK, LocalsSet, OnePlace, TypeOK', LocalsSet', OnePlace',
         NEW t \in Thread, NEW e \in Desc, OthersStay(t),
         CountOK(e), ChainOK(e), my[t].desc # e, my'[t].desc # e,
         anchor'[e] = anchor[e], nNextFree'[e] = nNextFree[e], (e \in live') = (e \in live),
         Credits(e)' = Credits(e),
         \A i \in Index : users'[<<e, i>>] = users[<<e, i>>]
  PROVE  CountOK(e)' /\ ChainOK(e)'
<1>1. Used(e)' = Used(e)
  BY SameUsed
<1>2. Pops(t, e)' = Pops(t, e) /\ Carried(t, e)' = Carried(t, e)
  BY DEF Pops, Carried
<1>3. Out(e)' = Out(e)
  BY <1>1, <1>2, SameOut
<1>4. (e \in Serving)' = (e \in Serving)
  BY SameServing
<1> QED
  BY <1>1, <1>3, <1>4, SameFor

\* The count of d keeps up with what t takes or gives back, or nothing is left out of it.
Balanced(t, d) ==
    LET change == (Pops(t, d)' - Pops(t, d)) + (Carried(t, d)' - Carried(t, d))
                  + (Cardinality(Used(d)') - Cardinality(Used(d)))
    IN  IF (d \in Serving)' THEN anchor'[d].count + change = anchor[d].count
        ELSE Out(d) + change = 0

\* What the new anchor of d, and the locals of t, must be.
Settled(t, d) ==
    /\ Owns(t)' => my'[t].desc = d /\
          (Owns(t) \/ (~Findable(d) /\ \A u \in Thread : Owns(u) => my[u].desc # d))
    /\ anchor'[d].state = FULL \/ Owns(t)' \/ (~Owns(t) /\ anchor[d].state # FULL)
    /\ active.desc = d => anchor'[d].state = ACTIVE
    /\ pPartial = d \/ d \in ToSet(partialList) => anchor'[d].state \in {PARTIAL, EMPTY}
    /\ anchor'[d].state = PARTIAL => anchor'[d].count > 0
    /\ anchor'[d].state = FULL => anchor'[d].count = 0

\* A step by t on the anchor of d, a superblock that serves.
LEMMA AnchorStep ==
  ASSUME IInv, NEW t \in Thread, NEW d \in Desc, d \in Serving, UNCHANGED heapVars,
         NEW r \in Locals, LocalsOK(r), my' = [my EXCEPT ![t] = r],
         my[t].desc \in {NULL, d}, r.desc \in {NULL, d},
         NEW a \in Anchors, anchor' = [anchor EXCEPT ![d] = a],
         nNextFree' \in [Desc -> [Index -> Index]],
         \A e \in Desc : e # d => nNextFree'[e] = nNextFree[e],
         users' \in [Block -> {0, 1}],
         \A e \in Desc, i \in Index : e # d => users'[<<e, i>>] = users[<<e, i>>],
         stale' \in SUBSET Thread, \A u \in Thread \ {t} : Bears(u, d),
         Settled(t, d), ThreadOK(t)', Balanced(t, d), ChainOK(d)'
  PROVE  IInv'
<1> USE DEF IInv
<1>1. UNCHANGED <<active, pPartial, partialList, listSBDescFree, fresh, live, made>>
  BY DEF heapVars
<1>2. /\ my' \in [Thread -> Locals] /\ LocalsSet' /\ OthersStay(t) /\ my'[t] = r
      /\ \A u \in Thread \ {t} : (Owns(u)' <=> Owns(u)) /\ my'[u] = my[u]
  BY ThreadStep DEF TypeOK, OthersStay
<1>3. /\ anchor' \in [Desc -> Anchors] /\ anchor'[d] = a
      /\ \A e \in Desc : e # d => anchor'[e] = anchor[e]
  BY DEF TypeOK
<1>4. TypeOK'
  BY <1>1, <1>2, <1>3 DEF TypeOK
<1>5. d \in live /\ d # NULL
  BY NullIs DEF Serving
<1>6. \A e : (Findable(e)' <=> Findable(e))
  BY <1>1 DEF Findable
<1>7. Owns(t) => my[t].desc = d
  <2>1. Owns(t) => my[t].desc \in live /\ my[t].desc \in Desc
    BY DEF OnePlace, Alone, TypeOK
  <2> QED
    BY <2>1, NullIs
<1>8. OnePlace'
  <2>1. Alone'
    <3>1. ASSUME NEW u \in Thread, NEW v \in Thread, Owns(u)', Owns(v)', my'[u].desc = my'[v].desc
          PROVE  u = v
      BY <3>1, <1>2, <1>7 DEF OnePlace, Alone, Settled
    <3>2. ASSUME NEW u \in Thread, NEW x, x = my'[u].desc, Owns(u)'
          PROVE  x \in live' /\ ~Findable(x)'
      <4>1. x \in live /\ ~Findable(x)
        BY <3>2, <1>2, <1>5, <1>7 DEF OnePlace, Alone, Settled
      <4> QED
        BY <4>1, <1>1, <1>6
    <3>3. \A u \in Thread : (Owns(u) => my[u].desc \in live /\ ~Findable(my[u].desc))'
      BY <3>2
    <3> QED
      BY <3>1, <3>3 DEF Alone
  <2>2. FoundOnce' /\ FreeOnce'
    BY <1>1, <1>6 DEF OnePlace, FoundOnce, FreeOnce
  <2> QED
    BY <2>1, <2>2 DEF OnePlace
<1>9. Somewhere'
  <2>1. ASSUME NEW e \in live, anchor'[e].state # FULL, ~Findable(e)
        PROVE  \E u \in Thread : Owns(u)' /\ my'[u].desc = e
    <3>1. e \in Desc
      BY DEF TypeOK
    <3>2. CASE e = d /\ Owns(t)'
      BY <3>2 DEF Settled
    <3>3. CASE e = d /\ ~Owns(t)'
      <4>1. ~Owns(t) /\ anchor[d].state # FULL
        BY <3>3, <2>1 DEF Settled
      <4>2. PICK u \in Thread : Owns(u) /\ my[u].desc = e
        BY <4>1, <3>3, <2>1 DEF Somewhere
      <4> QED
        BY <4>1, <4>2, <1>2
    <3>4. CASE e # d
      <4>1. PICK u \in Thread : Owns(u) /\ my[u].desc = e
        BY <3>1, <3>4, <2>1, <1>3 DEF Somewhere
      <4> QED
        BY <4>1, <3>4, <1>2, <1>7
    <3> QED
      BY <3>2, <3>3, <3>4
  <2> QED
    BY <2>1, <1>1, <1>6 DEF Somewhere
<1>10. States'
  BY <1>1, <1>3 DEF States, Settled
<1>11. ThreadsOK'
  <2>1. \A u \in Thread \ {t} : ThreadOK(u)'
    BY <1>2, <1>3, OtherThread DEF ThreadsOK, LocalsSet, TypeOK
  <2> QED
    BY <2>1 DEF ThreadsOK
<1>12. \A e \in Desc : Credits(e)' = Credits(e)
  BY <1>1 DEF Credits
<1>13. ASSUME NEW e \in Desc, e # d
       PROVE  CountOK(e)' /\ ChainOK(e)'
  <2>1. e # NULL
    BY NullIs
  <2> QED
    BY <2>1, <1>1, <1>2, <1>3, <1>4, <1>8, <1>12, <1>13, OtherDesc DEF Counts, Chains
<1>14. CountOK(d)'
  <2>1. /\ Terms(t, d) /\ Terms(t, d)'
        /\ Out(d)' = Out(d) + (Credits(d)' - Credits(d)) + (Pops(t, d)' - Pops(t, d))
                            + (Carried(t, d)' - Carried(t, d))
                            + (Cardinality(Used(d)') - Cardinality(Used(d)))
    BY <1>2, <1>4, <1>8, OutStep
  <2>2. PICK x, y, p, q, b, c : /\ x = Cardinality(Used(d)) /\ y = Cardinality(Used(d)')
                                /\ p = Pops(t, d) /\ q = Pops(t, d)'
                                /\ b = Carried(t, d) /\ c = Carried(t, d)'
    OBVIOUS
  <2>3. /\ x \in Nat /\ y \in Nat /\ p \in Nat /\ q \in Nat /\ b \in Nat /\ c \in Nat
        /\ Out(d) \in Nat /\ Credits(d) \in Nat /\ anchor[d].count \in Nat /\ a.count \in Nat
    BY <2>1, <2>2 DEF Terms, TypeOK, Anchors
  <2>4. anchor[d].count + Out(d) = nCapacity
    BY DEF Counts, CountOK
  <2>5. Out(d)' = Out(d) + ((q - p) + (c - b) + (y - x))
    BY <2>1, <2>2, <2>3, <1>12
  <2>6. IF (d \in Serving)' THEN a.count + ((q - p) + (c - b) + (y - x)) = anchor[d].count
        ELSE Out(d) + ((q - p) + (c - b) + (y - x)) = 0
    BY <2>2, <1>3 DEF Balanced
  <2>7. (d \in Serving)' => a.count + Out(d)' = nCapacity
    <3>1. PICK z \in Int : z = (q - p) + (c - b) + (y - x)
      BY <2>3
    <3>2. (d \in Serving)' => a.count + z = anchor[d].count /\ Out(d)' = Out(d) + z
      BY <3>1, <2>5, <2>6
    <3> QED
      BY <3>2, <2>3, <2>4
  <2>8. (d \notin Serving)' => Out(d)' = 0
    BY <2>5, <2>6
  <2> QED
    BY <2>7, <2>8, <1>3 DEF CountOK
<1> QED
  BY <1>2, <1>4, <1>8, <1>9, <1>10, <1>11, <1>13, <1>14 DEF Counts, Chains

\* A superblock in the hands of an owner that does not set it up or release it serves.
LEMMA OwnerServes ==
  ASSUME IInv, NEW t \in Thread, Owns(t), Pc(t) \notin {"publish", "release"},
         anchor[my[t].desc].state # EMPTY
  PROVE  my[t].desc \in Serving
<1>1. \A u \in Thread : Pc(u) \in {"publish", "release"} => Owns(u)
  BY DEF Owns, Keeping
<1>2. my[t].desc \in live /\ \A u \in Thread : Owns(u) /\ my[u].desc = my[t].desc => u = t
  BY DEF IInv, OnePlace, Alone
<1> QED
  BY <1>1, <1>2 DEF Serving

\* The tag is changed: who has loaded the anchor of d is told.
LEMMA NewTagIs ==
  ASSUME stale \in SUBSET Thread, NEW t \in Thread, NEW d, NewTag(t, d)
  PROVE  /\ stale' \in SUBSET Thread /\ t \notin stale'
         /\ \A u \in Thread \ {t} : /\ u \in stale => u \in stale'
                                    /\ my[u].desc = d /\ Pc(u) = "cas" => u \in stale'
BY DEF NewTag

\* The free list of d, when its first block, its links and the blocks used stay.
LEMMA SameChain ==
  ASSUME NEW d, ChainOK(d), d \in Serving, Used(d)' = Used(d),
         anchor'[d].avail = anchor[d].avail, nNextFree'[d] = nNextFree[d]
  PROVE  ChainOK(d)'
BY DEF ChainOK, Chain

\* alloc_from_partial: of a superblock that was not found empty
LEMMA TakeStep ==
  ASSUME IInv, NEW t \in Thread, TakePartial(t), anchor[my[t].desc].state # EMPTY
  PROVE  IInv'
<1> USE DEF IInv
<1>1. Pc(t) = "take" /\ Pc(t) \in Keeping
  BY DEF TakePartial, Keeping
<1>2. PICK d, old, more : d = my[t].desc /\ old = anchor[d] /\ more = MoreOfPartial(old.count)
  OBVIOUS
<1>3. /\ my[t] \in Locals /\ LocalsOK(my[t]) /\ ThreadOK(t) /\ d \in Desc /\ d # NULL
      /\ d \in live /\ ~Findable(d) /\ Owns(t)
      /\ \A u \in Thread : Owns(u) /\ my[u].desc = d => u = t
  BY <1>1, <1>2, OwnerHas
<1>4. d \in Serving
  BY <1>1, <1>2, <1>3, OwnerServes
<1>5. old \in Anchors /\ old.state = PARTIAL /\ old.count \in Nat /\ old.count > 0
  BY <1>1, <1>2, <1>3 DEF ThreadOK, States, TypeOK, Anchors
<1>6. old.count <= nCapacity
  <2>1. old.count + Out(d) = nCapacity /\ Out(d) \in Nat
    BY <1>2, <1>3, <1>4, OutIs DEF Counts, CountOK
  <2> QED
    BY <2>1, <1>5
<1>7. /\ more \in Nat /\ old.count - more - 1 \in Nat
      /\ (old.count - more - 1) % 2048 = old.count - more - 1
      /\ more = 0 => old.count - more - 1 = 0
  <2>1. more = Min2(old.count - 1, c_nMaxCredits)
    BY <1>2, <1>5 DEF MoreOfPartial
  <2>2. more \in Nat /\ more <= old.count - 1 /\ (more = 0 => old.count = 1)
    BY <2>1, <1>5, MichaelAssumption DEF Min2
  <2>3. PICK k \in Nat : k = old.count
    BY <1>5
  <2>4. PICK n \in Int : n = k - more - 1
    BY <2>2
  <2>5. nCapacity \in Nat /\ nCapacity <= 2048
    BY MichaelAssumption
  <2>6. n >= 0 /\ n <= 2047
    BY <2>2, <2>3, <2>4, <2>5, <1>6
  <2>7. n % 2048 = n
    BY <2>6
  <2> QED
    BY <2>2, <2>3, <2>4, <2>6, <2>7
<1>7a. PICK n \in Nat : n = old.count - more - 1
  BY <1>7
<1>7c. (old.count - more - 1) % 2048 = n
  BY <1>7, <1>7a
<1>7d. PICK s \in {ACTIVE, FULL} : s = IF more > 0 THEN ACTIVE ELSE FULL
  OBVIOUS
<1>7b. more \in Nat
  BY <1>7
<1>8. PICK a, r : /\ a = [old EXCEPT !.count = n, !.state = s]
                  /\ r = [my[t] EXCEPT !.pc = "pop", !.more = more]
  OBVIOUS
<1>9. /\ anchor' = [anchor EXCEPT ![d] = a] /\ my' = [my EXCEPT ![t] = r] /\ NewTag(t, d)
      /\ UNCHANGED heapVars /\ nNextFree' = nNextFree /\ users' = users
  <2>1. /\ my' = [my EXCEPT ![t].pc = "pop", ![t].more = more]
        /\ NewTag(t, d) /\ UNCHANGED <<heapVars, nNextFree, users>>
    BY <1>2 DEF TakePartial
  <2>2. anchor' = [anchor EXCEPT ![d] = a]
    <3> DEFINE F(c) == (c - more - 1) % 2048
    <3>1. anchor' = [anchor EXCEPT ![d].count = F(@),
          ![d].state = IF more > 0 THEN ACTIVE ELSE FULL]
      BY <1>2 DEF TakePartial
    <3>2. F(old.count) = n
      BY <1>7c
    <3> HIDE DEF F
    <3>3. anchor' = [anchor EXCEPT ![d].count = n, ![d].state = s]
      BY <3>1, <3>2, <1>2, <1>3, <1>7d DEF TypeOK
    <3> QED
      BY <3>3, <1>2, <1>3, <1>8 DEF TypeOK
  <2>3. my' = [my EXCEPT ![t] = r]
    BY <2>1, <1>8 DEF TypeOK
  <2> QED
    BY <2>1, <2>2, <2>3
<1>10. /\ a \in Anchors /\ a.avail = old.avail /\ a.count = old.count - more - 1
       /\ a.state = IF more > 0 THEN ACTIVE ELSE FULL
  <2>1. /\ a.avail = old.avail /\ a.count = n /\ a.state = s
        /\ s \in {ACTIVE, FULL, PARTIAL, EMPTY}
    BY <1>5, <1>8, <1>7d DEF Anchors
  <2>2. a \in Anchors
    BY <2>1, <1>5, <1>8, <1>7a DEF Anchors
  <2> QED
    BY <2>1, <2>2, <1>7a, <1>7d
<1>11. /\ r \in Locals /\ r.desc = d /\ r.pc = "pop" /\ r.more = more
       /\ r.block = my[t].block /\ r.last = my[t].last
  BY <1>2, <1>3, <1>7b, <1>8 DEF Locals, Popping
<1>12. my[t].pc = "take" /\ my[t].more = 0 /\ r.block = NULL /\ r.last = FALSE /\ LocalsOK(r)
  BY <1>1, <1>3, <1>11 DEF Locals, LocalsOK, Pc, Seeking, Popping, Carrying, Adding
<1>13. my'[t] = r /\ OthersStay(t) /\ anchor'[d] = a
  BY <1>3, <1>9 DEF TypeOK, OthersStay
<1>14. Owns(t)' <=> more > 0
  BY <1>7, <1>11, <1>12, <1>13 DEF Owns, Pc, Popping, Keeping, Carrying, Adding
<1>15. /\ stale' \in SUBSET Thread
       /\ \A u \in Thread \ {t} : /\ u \in stale => u \in stale'
                                  /\ my[u].desc = d /\ Pc(u) = "cas" => u \in stale'
  BY <1>9, NewTagIs DEF TypeOK
<1>16. \A u \in Thread \ {t} : Bears(u, d)
  BY <1>3, <1>9, <1>15 DEF Bears
<1>17. Used(d)' = Used(d)
  BY <1>9, <1>11, <1>12, <1>13, <1>2, SameUsed
<1>18. (d \in Serving)'
  <2>1. \A u \in Thread \ {t} : my'[u] = my[u]
    BY <1>13 DEF OthersStay
  <2>2. a.state # EMPTY
    BY <1>10 DEF ACTIVE, FULL, EMPTY
  <2> QED
    BY <2>1, <2>2, <1>4, <1>9, <1>11, <1>13 DEF Serving, heapVars, Pc
<1>19. Balanced(t, d)
  <2>1. /\ Pops(t, d) = 0 /\ Pops(t, d)' = 1 /\ Carried(t, d) = 0 /\ Carried(t, d)' = more
    BY <1>2, <1>11, <1>12, <1>13 DEF Pops, Carried, Pc, Popping
  <2>2. PICK x : x = Cardinality(Used(d)) /\ x = Cardinality(Used(d)')
    BY <1>17
  <2>3. x \in Nat
    BY <2>2, Finite DEF FiniteSets
  <2> QED
    BY <2>1, <2>2, <2>3, <1>2, <1>5, <1>7, <1>10, <1>13, <1>18 DEF Balanced
<1>20. ThreadOK(t)'
  BY <1>10, <1>11, <1>12, <1>13, <1>14 DEF ThreadOK, Pc, Popping, Carrying, Adding
<1>21. Settled(t, d)
  <2>1. active.desc # d /\ pPartial # d /\ d \notin ToSet(partialList)
    BY <1>3 DEF Findable
  <2>2. /\ a.state = FULL <=> ~(more > 0)
        /\ a.state # PARTIAL
    BY <1>10 DEF ACTIVE, FULL, PARTIAL
  <2> QED
    BY <2>1, <2>2, <1>3, <1>7, <1>10, <1>11, <1>13, <1>14 DEF Settled
<1>22. ChainOK(d)'
  BY <1>2, <1>3, <1>4, <1>9, <1>10, <1>13, <1>17, SameChain DEF Chains
<1>23. /\ my[t].desc \in {NULL, d} /\ r.desc \in {NULL, d}
       /\ nNextFree' \in [Desc -> [Index -> Index]] /\ users' \in [Block -> {0, 1}]
  BY <1>2, <1>9, <1>11 DEF TypeOK
<1> QED
  BY <1>3, <1>4, <1>9, <1>10, <1>11, <1>12, <1>15, <1>16, <1>19, <1>20,
        <1>21, <1>22, <1>23, AnchorStep

\* alloc_from_partial
LEMMA TakePartialStep ==
  ASSUME IInv, NEW t \in Thread, TakePartial(t)
  PROVE  IInv'
<1>1. CASE anchor[my[t].desc].state # EMPTY
  BY <1>1, TakeStep
<1>2. CASE anchor[my[t].desc].state = EMPTY
  <2>1. Pc(t) = "take" /\ Pc(t) \in Keeping /\ "release" \in Keeping
    BY DEF TakePartial, Keeping
  <2>2. /\ my' = [my EXCEPT ![t].pc = "release", ![t].then = "partial"]
        /\ UNCHANGED <<heapVars, anchor, nNextFree, stale, users>>
    BY <1>2 DEF TakePartial
  <2>3. my' = [my EXCEPT ![t] = [my[t] EXCEPT !.pc = "release", !.then = "partial"]]
    BY <2>2 DEF IInv, TypeOK
  <2> QED
    BY <1>2, <2>1, <2>2, <2>3, OwnerStep
<1> QED
  BY <1>1, <1>2

\* update_active, when another superblock is active by now
LEMMA GiveBackStep ==
  ASSUME IInv, NEW t \in Thread, GiveBack(t)
  PROVE  IInv'
<1> USE DEF IInv
<1>1. Pc(t) = "giveback" /\ Pc(t) \in Keeping
  BY DEF GiveBack, Keeping, Carrying
<1>2. PICK d, old, more : d = my[t].desc /\ old = anchor[d] /\ more = my[t].more
  OBVIOUS
<1>3. /\ my[t] \in Locals /\ LocalsOK(my[t]) /\ ThreadOK(t) /\ d \in Desc /\ d # NULL
      /\ d \in live /\ ~Findable(d) /\ Owns(t)
      /\ \A u \in Thread : Owns(u) /\ my[u].desc = d => u = t
  BY <1>1, <1>2, OwnerHas
<1>4. /\ old \in Anchors /\ old.state = ACTIVE /\ old.count \in Nat /\ more \in Nat /\ more > 0
      /\ my[t].block # NULL /\ my[t].pc = "giveback"
  BY <1>1, <1>2, <1>3 DEF ThreadOK, TypeOK, Anchors, Locals, LocalsOK, Carrying, Pc
<1>5. d \in Serving
  <2>1. old.state # EMPTY
    BY <1>4 DEF ACTIVE, EMPTY
  <2> QED
    BY <2>1, <1>1, <1>2, <1>3, OwnerServes
<1>5a. PICK n \in Nat : n = old.count + more
  BY <1>4
<1>6. PICK a, r : /\ a = [old EXCEPT !.count = n, !.state = PARTIAL]
                  /\ r = [my[t] EXCEPT !.pc = "add", !.more = 0]
  OBVIOUS
<1>7. /\ anchor' = [anchor EXCEPT ![d] = a] /\ my' = [my EXCEPT ![t] = r]
      /\ UNCHANGED heapVars /\ nNextFree' = nNextFree /\ users' = users /\ stale' = stale
  <2>1. /\ anchor' = [anchor EXCEPT ![d].count = @ + more, ![d].state = PARTIAL]
        /\ my' = [my EXCEPT ![t].pc = "add", ![t].more = 0]
        /\ UNCHANGED <<heapVars, nNextFree, stale, users>>
    BY <1>2 DEF GiveBack, GivenBack
  <2>2. anchor' = [anchor EXCEPT ![d] = a]
    BY <2>1, <1>2, <1>3, <1>6, <1>5a DEF TypeOK
  <2>3. my' = [my EXCEPT ![t] = r]
    BY <2>1, <1>6 DEF TypeOK
  <2> QED
    BY <2>1, <2>2, <2>3
<1>8. a \in Anchors /\ a.avail = old.avail /\ a.count = old.count + more /\ a.state = PARTIAL
  BY <1>4, <1>6, <1>5a DEF Anchors
<1>9. /\ r \in Locals /\ r.desc = d /\ r.pc = "add" /\ r.more = 0
      /\ r.block = my[t].block /\ r.last = my[t].last
  BY <1>2, <1>3, <1>6 DEF Locals, Keeping, Adding
<1>10. LocalsOK(r)
  BY <1>3, <1>4, <1>9 DEF LocalsOK, Seeking, Popping, Carrying, Adding
<1>11. my'[t] = r /\ OthersStay(t) /\ anchor'[d] = a
  BY <1>3, <1>7 DEF TypeOK, OthersStay
<1>12. \A u \in Thread \ {t} : Bears(u, d)
  BY <1>2, <1>3, <1>7, <1>8, <1>11 DEF Bears
<1>13. Used(d)' = Used(d)
  BY <1>2, <1>7, <1>9, <1>11, SameUsed
<1>14. (d \in Serving)'
  <2>1. \A u \in Thread \ {t} : my'[u] = my[u]
    BY <1>11 DEF OthersStay
  <2>2. a.state # EMPTY
    BY <1>8 DEF PARTIAL, EMPTY
  <2> QED
    BY <2>1, <2>2, <1>5, <1>7, <1>9, <1>11 DEF Serving, heapVars, Pc
<1>15. Balanced(t, d)
  <2>1. /\ Pops(t, d) = 0 /\ Pops(t, d)' = 0 /\ Carried(t, d) = more /\ Carried(t, d)' = 0
    BY <1>2, <1>4, <1>9, <1>11 DEF Pops, Carried, Pc, Popping
  <2>2. PICK x : x = Cardinality(Used(d)) /\ x = Cardinality(Used(d)')
    BY <1>13
  <2>3. x \in Nat
    BY <2>2, Finite DEF FiniteSets
  <2> QED
    BY <2>1, <2>2, <2>3, <1>2, <1>4, <1>8, <1>11, <1>14 DEF Balanced
<1>16. ThreadOK(t)'
  <2>1. users[<<d, r.block>>] = 0
    BY <1>2, <1>3, <1>4, <1>9 DEF ThreadOK
  <2> QED
    BY <2>1, <1>7, <1>8, <1>9, <1>11 DEF ThreadOK, Pc, Popping, Carrying, Adding
<1>17. Settled(t, d)
  <2>1. active.desc # d /\ pPartial # d /\ d \notin ToSet(partialList)
    BY <1>3 DEF Findable
  <2>2. Owns(t)' /\ a.state # FULL /\ a.count > 0
    BY <1>4, <1>8, <1>9, <1>11 DEF PARTIAL, FULL, Owns, Pc, Keeping, Adding
  <2> QED
    BY <2>1, <2>2, <1>3, <1>9, <1>11 DEF Settled
<1>18. ChainOK(d)'
  BY <1>2, <1>3, <1>5, <1>7, <1>8, <1>11, <1>13, SameChain DEF Chains
<1>19. /\ my[t].desc \in {NULL, d} /\ r.desc \in {NULL, d} /\ stale' \in SUBSET Thread
       /\ nNextFree' \in [Desc -> [Index -> Index]] /\ users' \in [Block -> {0, 1}]
  BY <1>2, <1>7, <1>9 DEF TypeOK
<1> QED
  BY <1>3, <1>5, <1>7, <1>8, <1>9, <1>10, <1>12, <1>15, <1>16, <1>17, <1>18, <1>19, AnchorStep

\* The free list without its first block, which is used now.
LEMMA ChainTail ==
  ASSUME NEW d, NEW n \in Nat \ {0}, NEW f, Chain(d, f, n),
         nNextFree'[d] = nNextFree[d], Used(d)' = Used(d) \cup {f[1]},
         anchor'[d].avail = nNextFree[d][f[1]]
  PROVE  (\E g : Chain(d, g, n - 1))'
<1> DEFINE g == [k \in 1 .. n - 1 |-> f[k + 1]]
<1>1. \A k \in 1 .. n - 1 : k + 1 \in 1 .. n /\ k + 1 # 1 /\ k \in 1 .. n
  OBVIOUS
<1>2. 1 \in 1 .. n /\ \A k \in 1 .. n : f[k] \in Index \ Used(d)
  BY DEF Chain
<1>3. g \in [1 .. n - 1 -> Index \ Used(d)']
  BY <1>1, <1>2 DEF Chain
<1>4. \A j, k \in 1 .. n - 1 : g[j] = g[k] => j = k
  BY <1>1 DEF Chain
<1>5. \A i \in Index \ Used(d)' : \E k \in 1 .. n - 1 : g[k] = i
  <2>1. ASSUME NEW i \in Index \ Used(d)'
        PROVE  \E k \in 1 .. n - 1 : g[k] = i
    <3>1. PICK k \in 1 .. n : f[k] = i
      BY DEF Chain
    <3>2. k - 1 \in 1 .. n - 1 /\ (k - 1) + 1 = k
      BY <3>1
    <3> QED
      BY <3>1, <3>2
  <2> QED
    BY <2>1
<1>6. n - 1 > 0 => g[1] = anchor'[d].avail
  <2>1. n - 1 > 0 => 1 \in 1 .. n - 1 /\ f[1 + 1] = nNextFree[d][f[1]]
    BY DEF Chain
  <2> QED
    BY <2>1
<1>7. \A k \in 1 .. (n - 1) - 1 : g[k + 1] = nNextFree'[d][g[k]]
  <2>1. ASSUME NEW k \in 1 .. (n - 1) - 1
        PROVE  /\ k \in 1 .. n - 1 /\ k + 1 \in 1 .. n - 1
               /\ f[(k + 1) + 1] = nNextFree[d][f[k + 1]]
    BY DEF Chain
  <2> QED
    BY <2>1
<1> HIDE DEF g
<1> QED
  BY <1>3, <1>4, <1>5, <1>6, <1>7 DEF Chain

\* A block more is used.
LEMMA UsedMore ==
  ASSUME NEW d, NEW i, i \notin Used(d), Used(d)' = Used(d) \cup {i}
  PROVE  Cardinality(Used(d)') = Cardinality(Used(d)) + 1
<1>1. IsFiniteSet(Used(d)) /\ Cardinality(Used(d)) \in Nat
  BY Finite DEF FiniteSets
<1>2. PICK S, T : S = Used(d) /\ T = Used(d)'
  OBVIOUS
<1>3. Cardinality(S \cup {i}) = Cardinality(S) + 1
  BY <1>1, <1>2, FS_AddElement
<1> QED
  BY <1>2, <1>3

\* A superblock of which something is out serves, and its list is as long as what is not
\* used of it.
LEMMA OutServes ==
  ASSUME IInv, NEW d \in Desc, Out(d) > 0
  PROVE  /\ d \in Serving /\ d \in live /\ anchor[d].state # EMPTY
         /\ \A u \in Thread : my[u].desc = d => Pc(u) \notin {"publish", "release"}
         /\ anchor[d].count + Out(d) = nCapacity
<1>1. d \in Serving /\ anchor[d].count + Out(d) = nCapacity
  BY DEF IInv, Counts, CountOK
<1> QED
  BY <1>1 DEF Serving

\* What a popper knows.
LEMMA PopperHas ==
  ASSUME IInv, NEW t \in Thread, Pc(t) \in Popping
  PROVE  /\ my[t] \in Locals /\ LocalsOK(my[t]) /\ ThreadOK(t)
         /\ my[t].desc \in Desc /\ my[t].desc # NULL
         /\ my[t].block = NULL /\ my[t].more \in Nat /\ my[t].last \in BOOLEAN
         /\ my[t].last => my[t].more = 0
         /\ Owns(t) <=> my[t].last \/ my[t].more > 0
         /\ my[t].desc \in Serving
         /\ \E n \in Nat \ {0} : /\ n = nCapacity - Cardinality(Used(my[t].desc))
                                 /\ \E f : Chain(my[t].desc, f, n)
<1> USE DEF IInv
<1>1. my[t] \in Locals /\ LocalsOK(my[t]) /\ ThreadOK(t) /\ my[t].pc \in Popping
  BY DEF TypeOK, LocalsSet, ThreadsOK, Pc
<1>2. /\ my[t].desc \in Desc /\ my[t].desc # NULL
      /\ my[t].block = NULL /\ my[t].more \in Nat /\ my[t].last \in BOOLEAN
      /\ my[t].last => my[t].more = 0
  BY <1>1, NullIs DEF Locals, LocalsOK, Seeking, Popping, Carrying, Adding
<1>3. Owns(t) <=> my[t].last \/ my[t].more > 0
  BY <1>1 DEF Owns, Pc, Popping, Carrying, Adding, Keeping
<1>4. PICK d \in Desc : d = my[t].desc
  BY <1>2
<1>5. PICK p, x : p = Cardinality(Poppers(d)) /\ x = Cardinality(Used(d))
  OBVIOUS
<1>6. /\ p \in Nat /\ x \in Nat /\ p > 0 /\ Credits(d) \in Nat /\ More(d) \in Nat
      /\ Out(d) = Credits(d) + p + More(d) + x
  <2>1. Poppers(d) # {}
    BY <1>4 DEF Poppers
  <2> QED
    BY <2>1, <1>5, OutIs, Finite DEF FiniteSets
<1>7. d \in Serving /\ anchor[d].count + Out(d) = nCapacity /\ anchor[d].count \in Nat
  BY <1>6, OutServes DEF TypeOK, Anchors
<1>8. nCapacity - x \in Nat \ {0}
  BY <1>6, <1>7, MichaelAssumption
<1>9. \E f : Chain(d, f, nCapacity - Cardinality(Used(d)))
  BY <1>7 DEF Chains, ChainOK
<1> QED
  BY <1>1, <1>2, <1>3, <1>4, <1>5, <1>7, <1>8, <1>9

\* The block is popped: a reservation becomes a block in use.
LEMMA PopStep ==
  ASSUME IInv, NEW t \in Thread, Pop(t)
  PROVE  IInv'
<1> USE DEF IInv
<1>1. Pc(t) = "cas" /\ my[t].pc = "cas" /\ Pc(t) \in Popping
  BY DEF Pop, Popping, Pc
<1>2. PICK d, old, seen, last : d = my[t].desc /\ old = anchor[d]
                                /\ seen = my[t].seen /\ last = my[t].last
  OBVIOUS
<1>3. /\ my[t] \in Locals /\ LocalsOK(my[t]) /\ ThreadOK(t) /\ d \in Desc /\ d # NULL
      /\ my[t].block = NULL /\ my[t].more \in Nat /\ last \in BOOLEAN /\ (last => my[t].more = 0)
      /\ (Owns(t) <=> last \/ my[t].more > 0) /\ d \in Serving
  BY <1>1, <1>2, PopperHas
<1>4. /\ t \notin stale /\ seen.anchor = old /\ seen.next = nNextFree[d][old.avail]
      /\ seen.next \in Index
      /\ UNCHANGED heapVars /\ nNextFree' = nNextFree /\ NewTag(t, d)
  <2>1. seen \in Loads /\ t \notin stale /\ seen.anchor = old
    BY <1>1, <1>2, <1>3 DEF Pop, CasSucceeds, LocalsOK
  <2>2. seen.next = nNextFree[d][old.avail]
    BY <2>1, <1>1, <1>2, <1>3 DEF ThreadOK
  <2> QED
    BY <2>1, <2>2, <1>2 DEF Pop, Loads
<1>5. PICK i, n : /\ i = old.avail /\ n \in Nat \ {0} /\ n = nCapacity - Cardinality(Used(d))
                  /\ \E f : Chain(d, f, n)
  BY <1>1, <1>2, PopperHas
<1>6. PICK f : Chain(d, f, n)
  BY <1>5
<1>7. old \in Anchors /\ i \in Index /\ old.count \in Nat /\ i = f[1] /\ i \notin Used(d)
  <2>1. 1 \in 1 .. n
    BY <1>5
  <2> QED
    BY <2>1, <1>2, <1>3, <1>5, <1>6 DEF TypeOK, Anchors, Chain
\* What is taken with the block, and what is left.
<1>8. PICK taken : taken = IF last THEN Min2(old.count, c_nMaxCredits) ELSE 0
  OBVIOUS
<1>9. /\ taken \in Nat /\ old.count - taken \in Nat /\ (taken = 0 /\ last => old.count = 0)
      /\ ~last => taken = 0
  BY <1>7, <1>8, MichaelAssumption DEF Min2
<1>10. PICK left \in Nat : left = old.count - taken
  BY <1>9
<1>11. PICK more \in Nat : /\ more = IF last THEN taken ELSE my[t].more
                           /\ more = my[t].more + taken
  <2>1. taken \in Nat /\ my[t].more \in Nat
    BY <1>3, <1>9
  <2>2. last => my[t].more + taken = taken
    BY <1>3, <2>1
  <2>3. ~last => my[t].more + taken = my[t].more
    BY <1>9, <2>1
  <2> QED
    BY <2>1, <2>2, <2>3
<1>12. PICK state, a : /\ state = IF last /\ old.count = 0 THEN FULL ELSE old.state
                       /\ a = [avail |-> seen.next, count |-> left, state |-> state]
  OBVIOUS
<1>13. Popped(t) = a
  <2>1. last => Popped(t).count = left /\ Popped(t) = a
    BY <1>2, <1>4, <1>8, <1>10, <1>12 DEF Popped
  <2>2. ~last => Popped(t) = a
    <3>1. ~last => left = old.count
      BY <1>7, <1>9, <1>10
    <3> QED
      BY <3>1, <1>2, <1>4, <1>8, <1>10, <1>12 DEF Popped
  <2> QED
    BY <2>1, <2>2
<1>14. old.count - left = taken
  BY <1>7, <1>9, <1>10
<1>15. /\ anchor' = [anchor EXCEPT ![d] = a]
       /\ IF more = 0 THEN Return(t, d, i)
          ELSE /\ my' = [my EXCEPT ![t] = [Idle EXCEPT !.pc = "install", !.desc = d,
                                               !.more = more, !.block = i]]
               /\ UNCHANGED users
  <2>1. more = IF my[t].last THEN my[t].seen.anchor.count - Popped(t).count ELSE my[t].more
    BY <1>2, <1>4, <1>11, <1>12, <1>13, <1>14
  <2>2. i = my[t].seen.anchor.avail
    BY <1>2, <1>4, <1>5
  <2> QED
    BY <2>1, <2>2, <1>2, <1>13 DEF Pop
<1>16. a.avail = seen.next /\ a.count = left /\ a.state = state /\ a \in Anchors
  BY <1>4, <1>7, <1>10, <1>12 DEF Anchors
<1>17. PICK r : /\ r = IF more = 0 THEN Idle
                       ELSE [Idle EXCEPT !.pc = "install", !.desc = d, !.more = more, !.block = i]
                /\ my' = [my EXCEPT ![t] = r]
  BY <1>15 DEF Return
<1>18. /\ r.pc = IF more = 0 THEN "idle" ELSE "install"
       /\ r.desc = IF more = 0 THEN NULL ELSE d
       /\ r.more = more /\ r.last = FALSE
       /\ r.block = IF more = 0 THEN NULL ELSE i
  BY <1>17 DEF Idle
<1>19. r \in Locals
  <2>1. Idle \in Locals
    BY DEF Idle, Locals, Seeking
  <2> QED
    BY <2>1, <1>3, <1>7, <1>17 DEF Locals, Keeping, Carrying
<1>20. LocalsOK(r)
  <2>1. i # NULL
    BY <1>7, NullIs
  <2> QED
    BY <2>1, <1>3, <1>18 DEF LocalsOK, Seeking, Popping, Carrying, Adding
<1>21. my'[t] = r /\ OthersStay(t) /\ anchor'[d] = a
  BY <1>3, <1>15, <1>17 DEF TypeOK, OthersStay
<1>22. Owns(t)' <=> more > 0
  BY <1>18, <1>21 DEF Owns, Pc, Popping, Keeping, Carrying, Adding
<1>23. /\ <<d, i>> \in Block /\ users[<<d, i>>] = 0
       /\ users' \in [Block -> {0, 1}]
       /\ users'[<<d, i>>] = IF more = 0 THEN 1 ELSE 0
       /\ \A b \in Block : b # <<d, i>> => users'[b] = users[b]
  <2>1. users \in [Block -> {0, 1}] /\ <<d, i>> \in Block
    BY <1>3, <1>7 DEF TypeOK, Block
  <2>2. users[<<d, i>>] = 0
    BY <2>1, <1>7 DEF Used
  <2> QED
    BY <2>1, <2>2, <1>15 DEF Return
<1>24. Used(d)' = Used(d) \cup {i}
  <2>1. ASSUME NEW j \in Index, j # i
        PROVE  j \in Used(d)' <=> j \in Used(d)
    <3>1. users'[<<d, j>>] = users[<<d, j>>]
      BY <2>1, <1>3, <1>23 DEF Block
    <3>2. ~(my[t].desc = d /\ my[t].block = j) /\ ~(my'[t].desc = d /\ my'[t].block = j)
      BY <2>1, <1>3, <1>18, <1>21, NullIs
    <3> QED
      BY <3>1, <3>2, <1>21 DEF Used, OthersStay
  <2>2. i \in Used(d)'
    BY <1>7, <1>18, <1>21, <1>23 DEF Used
  <2> QED
    BY <2>1, <2>2 DEF Used
<1>25. /\ stale' \in SUBSET Thread
       /\ \A u \in Thread \ {t} : /\ u \in stale => u \in stale'
                                  /\ my[u].desc = d /\ Pc(u) = "cas" => u \in stale'
  BY <1>4, NewTagIs DEF TypeOK
<1>26. state # EMPTY /\ (d \in Serving)'
  <2>1. state # EMPTY
    BY <1>3, <1>2, <1>12 DEF Serving, FULL, EMPTY
  <2>2. \A u \in Thread \ {t} : my'[u] = my[u]
    BY <1>21 DEF OthersStay
  <2> QED
    BY <2>1, <2>2, <1>3, <1>4, <1>16, <1>18, <1>21 DEF Serving, heapVars, Pc
<1>27. \A u \in Thread \ {t} : Owns(u) /\ my[u].desc = d => ~Owns(t)
  BY <1>2 DEF OnePlace, Alone
<1>28. ~Owns(t) => state = old.state /\ ~last /\ more = 0 /\ left = old.count
  <2>1. ~Owns(t) => ~last /\ my[t].more = 0
    BY <1>3
  <2>2. ~last => taken = 0 /\ state = old.state
    BY <1>9, <1>12
  <2>3. taken = 0 => left = old.count
    BY <1>7, <1>10
  <2>4. taken = 0 /\ my[t].more = 0 => more = 0
    BY <1>11
  <2> QED
    BY <2>1, <2>2, <2>3, <2>4
<1>29. ASSUME NEW u \in Thread \ {t}
       PROVE  Bears(u, d)
  <2>1. my[u].desc = d => Pc(u) # "publish"
    BY <1>3 DEF Serving
  <2>2. my[u].desc = d /\ my[u].block # NULL =>
           users'[<<d, my[u].block>>] = users[<<d, my[u].block>>]
    <3>1. my[u].block # NULL => my[u].block \in Index
      BY DEF TypeOK, Locals
    <3>2. my[u].desc = d /\ my[u].block # NULL => my[u].block \in Used(d)
      BY <3>1 DEF Used
    <3> QED
      BY <3>1, <3>2, <1>3, <1>7, <1>23 DEF Block
  <2> QED
    BY <2>1, <2>2, <1>2, <1>16, <1>21, <1>25, <1>27, <1>28 DEF Bears
<1>30. Balanced(t, d)
  <2>1. /\ Pops(t, d) = 1 /\ Pops(t, d)' = 0 /\ Carried(t, d) = my[t].more /\ Carried(t, d)' = more
    BY <1>1, <1>2, <1>3, <1>18, <1>21 DEF Pops, Carried, Pc, Popping
  <2>2. Cardinality(Used(d)') = Cardinality(Used(d)) + 1
    BY <1>7, <1>24, UsedMore
  <2>3. PICK x \in Nat : x = Cardinality(Used(d))
    BY Finite DEF FiniteSets
  <2>4. left + ((0 - 1) + (more - my[t].more) + ((x + 1) - x)) = old.count
    <3>1. PICK k \in Nat, m \in Nat : k = old.count /\ m = my[t].more
      BY <1>3, <1>7
    <3>2. left = k - taken /\ more = m + taken /\ taken \in Nat
      BY <3>1, <1>9, <1>10, <1>11
    <3>3. left + ((0 - 1) + (more - m) + ((x + 1) - x)) = k
      BY <3>2
    <3> QED
      BY <3>1, <3>3
  <2> QED
    BY <2>1, <2>2, <2>3, <2>4, <1>2, <1>16, <1>21, <1>26 DEF Balanced
<1>31. Owns(t) => old.state = ACTIVE /\ ~Findable(d)
  BY <1>1, <1>2, <1>3 DEF ThreadOK, OnePlace, Alone
<1>32. ThreadOK(t)'
  <2>1. more > 0 => state = ACTIVE
    <3>1. more > 0 => Owns(t) /\ (last => old.count # 0)
      BY <1>3, <1>7, <1>8, <1>11, <1>28, MichaelAssumption DEF Min2
    <3> QED
      BY <3>1, <1>12, <1>31
  <2> QED
    BY <2>1, <1>16, <1>18, <1>21, <1>23 DEF ThreadOK, Pc, Popping, Carrying, Adding
<1>33. Settled(t, d)
  <2>1. Owns(t)' => r.desc = d /\ Owns(t)
    BY <1>18, <1>22, <1>28
  <2>2. CASE ~Owns(t)
    BY <2>1, <2>2, <1>2, <1>3, <1>16, <1>21, <1>28 DEF Settled, States
  <2>3. CASE Owns(t)
    <3>1. active.desc # d /\ pPartial # d /\ d \notin ToSet(partialList)
      BY <2>3, <1>31 DEF Findable
    <3>2. state \in {ACTIVE, FULL} /\ (state = FULL => last /\ old.count = 0)
      BY <2>3, <1>12, <1>31 DEF ACTIVE, FULL
    <3>3. state = FULL => left = 0
      BY <3>2, <1>7, <1>9, <1>10
    <3>4. state # FULL => more > 0
      <4>1. state # FULL => ~(last /\ old.count = 0)
        BY <1>12
      <4> QED
        BY <4>1, <2>3, <1>3, <1>9, <1>11
    <3> QED
      BY <2>1, <2>3, <3>1, <3>2, <3>3, <3>4, <1>16, <1>21, <1>22 DEF Settled, ACTIVE, PARTIAL, FULL
  <2> QED
    BY <2>2, <2>3
<1>34. ChainOK(d)'
  <2>1. (\E g : Chain(d, g, n - 1))'
    BY <1>2, <1>4, <1>5, <1>6, <1>7, <1>16, <1>21, <1>24, ChainTail
  <2>2. nCapacity - Cardinality(Used(d)') = n - 1
    <3>1. Cardinality(Used(d)') = Cardinality(Used(d)) + 1 /\ Cardinality(Used(d)) \in Nat
      BY <1>7, <1>24, UsedMore, Finite DEF FiniteSets
    <3> QED
      BY <3>1, <1>5, MichaelAssumption
  <2> QED
    BY <2>1, <2>2 DEF ChainOK
<1>35. /\ my[t].desc \in {NULL, d} /\ r.desc \in {NULL, d}
       /\ nNextFree' \in [Desc -> [Index -> Index]]
       /\ \A e \in Desc : e # d => nNextFree'[e] = nNextFree[e]
       /\ \A e \in Desc, j \in Index : e # d => users'[<<e, j>>] = users[<<e, j>>]
  BY <1>2, <1>4, <1>18, <1>23 DEF TypeOK, Block
<1> QED
  BY <1>3, <1>4, <1>15, <1>16, <1>17, <1>19, <1>20, <1>23, <1>25, <1>29, <1>30, <1>32, <1>33,
     <1>34, <1>35, AnchorStep

\* The free list with a block in front, which is not used any more.
LEMMA ChainFront ==
  ASSUME NEW d, NEW n \in Nat, NEW f, Chain(d, f, n), NEW i \in Index, i \in Used(d),
         nNextFree[d] \in [Index -> Index],
         nNextFree'[d] = [nNextFree[d] EXCEPT ![i] = anchor[d].avail],
         Used(d)' = Used(d) \ {i}, anchor'[d].avail = i
  PROVE  (\E g : Chain(d, g, n + 1))'
<1> DEFINE g == [k \in 1 .. n + 1 |-> IF k = 1 THEN i ELSE f[k - 1]]
<1>1. \A k \in 1 .. n + 1 : k # 1 => k - 1 \in 1 .. n
  OBVIOUS
<1>2. \A k \in 1 .. n : f[k] \in Index \ Used(d) /\ f[k] # i
  BY DEF Chain
<1>3. g \in [1 .. n + 1 -> Index \ Used(d)']
  BY <1>1, <1>2
<1>4. \A j, k \in 1 .. n + 1 : g[j] = g[k] => j = k
  <2>1. ASSUME NEW j \in 1 .. n + 1, NEW k \in 1 .. n + 1, g[j] = g[k]
        PROVE  j = k
    <3>1. CASE j = 1 \/ k = 1
      BY <3>1, <2>1, <1>1, <1>2
    <3>2. CASE j # 1 /\ k # 1
      <4>1. j - 1 \in 1 .. n /\ k - 1 \in 1 .. n /\ f[j - 1] = f[k - 1]
        BY <3>2, <2>1, <1>1
      <4>2. j - 1 = k - 1
        BY <4>1 DEF Chain
      <4> QED
        BY <4>2
    <3> QED
      BY <3>1, <3>2
  <2> QED
    BY <2>1
<1>5. \A m \in Index \ Used(d)' : \E k \in 1 .. n + 1 : g[k] = m
  <2>1. ASSUME NEW m \in Index \ Used(d)', m # i
        PROVE  \E k \in 1 .. n + 1 : g[k] = m
    <3>1. PICK k \in 1 .. n : f[k] = m
      BY <2>1 DEF Chain
    <3>2. k + 1 \in 1 .. n + 1 /\ k + 1 # 1 /\ (k + 1) - 1 = k
      OBVIOUS
    <3> QED
      BY <3>1, <3>2
  <2>2. 1 \in 1 .. n + 1 /\ g[1] = i
    OBVIOUS
  <2> QED
    BY <2>1, <2>2
<1>6. n + 1 > 0 => g[1] = anchor'[d].avail
  OBVIOUS
<1>7. \A k \in 1 .. (n + 1) - 1 : g[k + 1] = nNextFree'[d][g[k]]
  <2>1. ASSUME NEW k \in 1 .. (n + 1) - 1
        PROVE  g[k + 1] = nNextFree'[d][g[k]]
    <3>1. k \in 1 .. n /\ k \in 1 .. n + 1 /\ k + 1 \in 1 .. n + 1 /\ k + 1 # 1 /\ (k + 1) - 1 = k
      OBVIOUS
    <3>2. g[k + 1] = f[k]
      BY <3>1
    <3>3. CASE k = 1
      BY <3>1, <3>2, <3>3 DEF Chain
    <3>4. CASE k # 1
      <4>1. k - 1 \in 1 .. n - 1 /\ k - 1 \in 1 .. n /\ (k - 1) + 1 = k
        BY <3>1, <3>4
      <4>2. g[k] = f[k - 1] /\ f[k] = nNextFree[d][f[k - 1]]
        BY <4>1, <3>1, <3>4 DEF Chain
      <4> QED
        BY <4>1, <4>2, <3>2, <1>2
    <3> QED
      BY <3>3, <3>4
  <2> QED
    BY <2>1
<1> HIDE DEF g
<1> QED
  BY <1>3, <1>4, <1>5, <1>6, <1>7 DEF Chain

\* A block less is used.
LEMMA UsedLess ==
  ASSUME NEW d, NEW i, i \in Used(d), Used(d)' = Used(d) \ {i}
  PROVE  Cardinality(Used(d)') = Cardinality(Used(d)) - 1
<1>1. IsFiniteSet(Used(d)) /\ Cardinality(Used(d)) \in Nat
  BY Finite DEF FiniteSets
<1>2. PICK S, T : S = Used(d) /\ T = Used(d)'
  OBVIOUS
<1>3. Cardinality(S \ {i}) = Cardinality(S) - 1
  BY <1>1, <1>2, FS_RemoveElement
<1> QED
  BY <1>2, <1>3

\* Of a superblock that has all its blocks but one on its list nothing else is out.
LEMMA LastOne ==
  ASSUME IInv, NEW d \in Desc, NEW i \in Used(d), anchor[d].count = nCapacity - 1
  PROVE  /\ active.desc # d /\ Out(d) = 1
         /\ \A u \in Thread : my[u].desc = d => Pc(u) \notin Popping /\ my[u].more = 0
<1> USE DEF IInv
<1>1. PICK p, x : p = Cardinality(Poppers(d)) /\ x = Cardinality(Used(d))
  OBVIOUS
<1>2. /\ p \in Nat /\ x \in Nat /\ x > 0 /\ Credits(d) \in Nat /\ More(d) \in Nat
      /\ Out(d) = Credits(d) + p + More(d) + x
      /\ (Credits(d) = 0 <=> active.desc # d) /\ (p = 0 <=> Poppers(d) = {})
  <2>1. /\ Credits(d) \in Nat /\ More(d) \in Nat
        /\ Out(d) = Credits(d) + Cardinality(Poppers(d)) + More(d) + Cardinality(Used(d))
        /\ (Credits(d) = 0 <=> active.desc # d)
        /\ (Cardinality(Poppers(d)) = 0 <=> Poppers(d) = {})
        /\ (Cardinality(Used(d)) = 0 <=> Used(d) = {})
    BY OutIs
  <2>2. p \in Nat /\ x \in Nat
    BY <1>1, Finite DEF FiniteSets
  <2>3. (p = 0 <=> Poppers(d) = {}) /\ x > 0
    BY <1>1, <2>1, <2>2
  <2> QED
    BY <1>1, <2>1, <2>2, <2>3
<1>3. anchor[d].count + Out(d) = nCapacity /\ anchor[d].count \in Nat
  BY <1>2, OutServes DEF TypeOK, Anchors
<1>4. nCapacity \in Nat /\ Out(d) \in Nat
  <2>1. nCapacity \in Nat
    BY MichaelAssumption
  <2>2. Out(d) \in Nat
    BY OutIs
  <2> QED
    BY <2>1, <2>2
<1>5. Out(d) = 1
  <2>1. PICK c, m : c = nCapacity - 1 /\ m = Out(d)
    OBVIOUS
  <2>2. c + m = nCapacity
    BY <2>1, <1>3
  <2> QED
    BY <2>1, <2>2, <1>4
<1>6. Credits(d) = 0 /\ p = 0 /\ More(d) = 0
  BY <1>2, <1>5
<1>7. \A u \in Thread : my[u].desc = d => my[u].more = 0
  <2>1. MoreFacts(d) /\ \A u \in Thread : my[u].more \in Nat
    BY MoreIs DEF TypeOK, Locals
  <2> QED
    BY <2>1, <1>6 DEF MoreFacts
<1> QED
  BY <1>2, <1>5, <1>6, <1>7 DEF Poppers

\* free(): a block in use becomes the first of the free list.
LEMMA FreeStep ==
  ASSUME IInv, NEW t \in Thread, Free(t)
  PROVE  IInv'
<1> USE DEF IInv
<1>1. PICK b \in Block :
         LET d == b[1]
             new == Pushed(anchor[d], b[2])
         IN  /\ users[b] > 0
             /\ users' = [users EXCEPT ![b] = @ - 1]
             /\ nNextFree' = [nNextFree EXCEPT ![d][b[2]] = anchor[d].avail]
             /\ anchor' = [anchor EXCEPT ![d] = new]
             /\ NewTag(t, d)
             /\ CASE new.state = EMPTY -> my' = [my EXCEPT ![t].pc = "unlink", ![t].desc = d]
                  [] new.state # EMPTY /\ anchor[d].state = FULL ->
                        my' = [my EXCEPT ![t].pc = "add", ![t].desc = d]
                  [] OTHER -> UNCHANGED my
  BY DEF Free
<1>2. PICK d \in Desc, i \in Index : b = <<d, i>> /\ b[1] = d /\ b[2] = i
  BY DEF Block
<1>3. PICK old, a : old = anchor[d] /\ a = Pushed(old, i)
  OBVIOUS
<1>4. /\ users[<<d, i>>] > 0
      /\ users' = [users EXCEPT ![<<d, i>>] = @ - 1]
      /\ nNextFree' = [nNextFree EXCEPT ![d][i] = old.avail]
      /\ anchor' = [anchor EXCEPT ![d] = a]
      /\ NewTag(t, d) /\ UNCHANGED heapVars
  BY <1>1, <1>2, <1>3 DEF Free
<1>5. /\ a.state = EMPTY => my' = [my EXCEPT ![t].pc = "unlink", ![t].desc = d]
      /\ a.state # EMPTY /\ old.state = FULL => my' = [my EXCEPT ![t].pc = "add", ![t].desc = d]
      /\ a.state # EMPTY /\ old.state # FULL => my' = my
  BY <1>1, <1>2, <1>3
<1>6. /\ my[t] \in Locals /\ LocalsOK(my[t]) /\ ThreadOK(t) /\ my[t].pc = "idle" /\ d # NULL
      /\ my[t].desc = NULL /\ my[t].block = NULL /\ my[t].more = 0 /\ my[t].last = FALSE /\ ~Owns(t)
  <2>1. my[t] \in Locals /\ LocalsOK(my[t]) /\ ThreadOK(t) /\ my[t].pc = "idle" /\ Pc(t) = "idle"
    BY DEF Free, TypeOK, LocalsSet, ThreadsOK, Pc
  <2> QED
    BY <2>1, NullIs
       DEF Locals, LocalsOK, Owns, Seeking, Popping, Carrying, Adding, Keeping
<1>7. /\ old \in Anchors /\ nNextFree[d] \in [Index -> Index] /\ old.count \in Nat
      /\ users[<<d, i>>] = 1 /\ <<d, i>> \in Block
      /\ i \in Used(d)
  <2>1. <<d, i>> \in Block
    BY DEF Block
  <2>2. users[<<d, i>>] \in {0, 1}
    BY <2>1 DEF TypeOK
  <2> QED
    BY <2>1, <2>2, <1>3, <1>4 DEF TypeOK, Used, Anchors
\* The superblock serves.
<1>8. PICK x \in Nat : x = Cardinality(Used(d))
  BY Finite DEF FiniteSets
<1>9. /\ d \in Serving /\ d \in live /\ old.state # EMPTY
      /\ \A u \in Thread : my[u].desc = d => Pc(u) \notin {"publish", "release"}
      /\ Out(d) \in Nat /\ Out(d) > 0 /\ old.count + Out(d) = nCapacity
  <2>1. Out(d) \in Nat /\ Out(d) > 0
    BY <1>7, <1>8, OutIs, Finite DEF FiniteSets
  <2> QED
    BY <2>1, <1>3, OutServes
\* Whether it is empty now.
<1>10. PICK empty \in BOOLEAN : empty <=> old.count = nCapacity - 1
  OBVIOUS
<1>11. /\ a.avail = i
       /\ a.count = IF empty THEN old.count ELSE old.count + 1
       /\ a.state = IF empty THEN EMPTY ELSE IF old.state = FULL THEN PARTIAL ELSE old.state
  BY <1>3, <1>10 DEF Pushed, IsLast
<1>12. a \in Anchors /\ a.count \in Nat
  <2>1. a = [avail |-> a.avail, count |-> a.count, state |-> a.state]
    BY <1>3 DEF Pushed
  <2>2. a.count \in Nat /\ a.state \in {ACTIVE, FULL, PARTIAL, EMPTY}
    BY <1>7, <1>11 DEF Anchors
  <2> QED
    BY <2>1, <2>2, <1>11 DEF Anchors
<1>13. a.state = EMPTY <=> empty
  BY <1>9, <1>11 DEF EMPTY, PARTIAL
<1>14. empty => /\ active.desc # d /\ Out(d) = 1
                /\ \A u \in Thread : my[u].desc = d => Pc(u) \notin Popping /\ my[u].more = 0
  BY <1>3, <1>7, <1>10, LastOne
<1>15. empty => old.state # FULL
  <2>1. old.state = FULL => old.count = 0
    BY <1>3 DEF States
  <2>2. nCapacity - 1 # 0
    BY MichaelAssumption
  <2> QED
    BY <2>1, <2>2, <1>10
<1>16. PICK r : /\ r = IF empty THEN [my[t] EXCEPT !.pc = "unlink", !.desc = d]
                       ELSE IF old.state = FULL THEN [my[t] EXCEPT !.pc = "add", !.desc = d]
                       ELSE my[t]
                /\ my' = [my EXCEPT ![t] = r]
  <2>1. my = [my EXCEPT ![t] = my[t]]
    BY DEF TypeOK
  <2>2. CASE empty
    BY <2>2, <1>5, <1>13 DEF TypeOK
  <2>3. CASE ~empty /\ old.state = FULL
    BY <2>3, <1>5, <1>13 DEF TypeOK
  <2>4. CASE ~empty /\ old.state # FULL
    BY <2>1, <2>4, <1>5, <1>13
  <2> QED
    BY <2>2, <2>3, <2>4
<1>17. /\ r.pc = IF empty THEN "unlink" ELSE IF old.state = FULL THEN "add" ELSE "idle"
       /\ r.desc = IF empty \/ old.state = FULL THEN d ELSE NULL
       /\ r.block = NULL /\ r.more = 0 /\ r.last = FALSE /\ r \in Locals
  BY <1>6, <1>16 DEF Locals, Keeping, Adding
<1>18. LocalsOK(r)
  BY <1>6, <1>17 DEF LocalsOK, Seeking, Popping, Carrying, Adding
<1>19. my'[t] = r /\ OthersStay(t) /\ anchor'[d] = a
  BY <1>4, <1>16 DEF TypeOK, OthersStay
<1>20. Owns(t)' <=> ~empty /\ old.state = FULL
  BY <1>17, <1>19 DEF Owns, Pc, Popping, Keeping, Carrying, Adding
<1>21. /\ users' \in [Block -> {0, 1}] /\ users'[<<d, i>>] = 0
       /\ \A c \in Block : c # <<d, i>> => users'[c] = users[c]
  BY <1>4, <1>7 DEF TypeOK
<1>22. \A u \in Thread : my[u].desc = d => my[u].block # i
  <2>1. NULL \notin Index
    BY NullIs
  <2> QED
    BY <2>1, <1>7 DEF ThreadsOK, ThreadOK
<1>23. Used(d)' = Used(d) \ {i}
  <2>1. ASSUME NEW j \in Index, j # i
        PROVE  j \in Used(d)' <=> j \in Used(d)
    <3>1. users'[<<d, j>>] = users[<<d, j>>]
      BY <2>1, <1>21 DEF Block
    <3>2. ~(my[t].desc = d /\ my[t].block = j) /\ ~(my'[t].desc = d /\ my'[t].block = j)
      BY <1>6, <1>17, <1>19, NullIs
    <3> QED
      BY <3>1, <3>2, <1>19 DEF Used, OthersStay
  <2>2. i \notin Used(d)'
    <3>1. my'[t].block # i
      BY <1>17, <1>19, NullIs
    <3> QED
      BY <3>1, <1>19, <1>21, <1>22 DEF Used, OthersStay
  <2> QED
    BY <2>1, <2>2 DEF Used
<1>24. /\ stale' \in SUBSET Thread
       /\ \A u \in Thread \ {t} : /\ u \in stale => u \in stale'
                                  /\ my[u].desc = d /\ Pc(u) = "cas" => u \in stale'
  BY <1>4, NewTagIs DEF TypeOK
<1>25. (d \in Serving)' <=> ~empty
  <2>1. \A u \in Thread \ {t} : my'[u] = my[u]
    BY <1>19 DEF OthersStay
  <2>2. r.pc \notin {"publish", "release"}
    BY <1>17
  <2> QED
    BY <2>1, <2>2, <1>4, <1>9, <1>13, <1>19 DEF Serving, heapVars, Pc
\* Nobody has a full superblock in hand; nor, of an empty one, more than the task to put
\* it away or to take it.
<1>26. ASSUME NEW u \in Thread, Owns(u), my[u].desc = d
       PROVE  old.state # FULL /\ (empty => Pc(u) \in Adding \cup {"take"})
  <2>1. Pc(u) \in Popping \cup Carrying \cup Adding \cup {"take"}
    BY <1>9, <1>26 DEF Owns, Keeping
  <2>2. Pc(u) \in Carrying => my[u].more > 0
    BY DEF LocalsSet, LocalsOK, Pc
  <2>3. Pc(u) \in Popping \cup Carrying => old.state = ACTIVE
    BY <1>3, <1>26 DEF ThreadsOK, ThreadOK
  <2>4. Pc(u) \in Adding \cup {"take"} => old.state \in {PARTIAL, EMPTY}
    BY <1>3, <1>26 DEF ThreadsOK, ThreadOK
  <2>5. old.state # FULL
    BY <2>1, <2>3, <2>4 DEF ACTIVE, FULL, PARTIAL, EMPTY
  <2>6. empty => Pc(u) \notin Popping \cup Carrying
    BY <2>2, <1>14, <1>26
  <2> QED
    BY <2>1, <2>5, <2>6
<1>27. ASSUME NEW u \in Thread \ {t}
       PROVE  Bears(u, d)
  <2>1. my[u].desc = d /\ my[u].block # NULL =>
           users'[<<d, my[u].block>>] = users[<<d, my[u].block>>]
    <3>1. my[u].block # NULL => my[u].block \in Index
      BY DEF TypeOK, Locals
    <3> QED
      BY <3>1, <1>21, <1>22 DEF Block
  <2>2. my[u].desc = d /\ Owns(u) =>
           /\ Pc(u) # "publish"
           /\ \/ a.state = old.state
              \/ Pc(u) \in Adding \cup {"take"} /\ a.state = EMPTY
    BY <1>9, <1>11, <1>26
  <2> QED
    BY <2>1, <2>2, <1>3, <1>19, <1>24 DEF Bears
<1>28. Balanced(t, d)
  <2>1. /\ Pops(t, d) = 0 /\ Pops(t, d)' = 0 /\ Carried(t, d) = 0 /\ Carried(t, d)' = 0
    BY <1>6, <1>17, <1>19 DEF Pops, Carried, Pc, Popping
  <2>2. Cardinality(Used(d)') = x - 1
    BY <1>7, <1>8, <1>23, UsedLess
  <2>3. (0 - 0) + (0 - 0) + ((x - 1) - x) = -1
    OBVIOUS
  <2>4. ~empty => a.count + (-1) = old.count
    BY <1>7, <1>11
  <2>5. empty => Out(d) + (-1) = 0
    BY <1>14
  <2> QED
    BY <2>1, <2>2, <2>3, <2>4, <2>5, <1>3, <1>8, <1>19, <1>25 DEF Balanced
<1>29. ThreadOK(t)'
  BY <1>11, <1>17, <1>19 DEF ThreadOK, Pc, Popping, Carrying, Adding
<1>30. Settled(t, d)
  <2>1. old.state = FULL => ~Findable(d)
    BY <1>3, <1>6 DEF Findable, States, ACTIVE, FULL, PARTIAL, EMPTY
  <2>2. Owns(t)' => my'[t].desc = d /\ ~Findable(d) /\ \A u \in Thread : Owns(u) => my[u].desc # d
    BY <2>1, <1>17, <1>19, <1>20, <1>26
  <2>3. a.state = FULL \/ Owns(t)' \/ (~Owns(t) /\ old.state # FULL)
    BY <1>6, <1>15, <1>20
  <2>4. active.desc = d => a.state = ACTIVE
    BY <1>3, <1>6, <1>11, <1>14 DEF States, ACTIVE, FULL
  <2>5. pPartial = d \/ d \in ToSet(partialList) => a.state \in {PARTIAL, EMPTY}
    BY <1>3, <1>11 DEF States
  <2>6. a.state = PARTIAL => a.count > 0
    BY <1>7, <1>11 DEF PARTIAL, EMPTY
  <2>7. a.state # FULL
    BY <1>11 DEF FULL, PARTIAL, EMPTY
  <2> QED
    BY <2>2, <2>3, <2>4, <2>5, <2>6, <2>7, <1>3, <1>19 DEF Settled
<1>31. ChainOK(d)'
  <2>1. CASE empty
    BY <2>1, <1>25 DEF ChainOK
  <2>2. CASE ~empty
    <3>1. PICK f : Chain(d, f, nCapacity - x)
      BY <1>8, <1>9 DEF Chains, ChainOK
    <3>2. PICK n \in Nat : n = nCapacity - x
      BY <1>8, Finite, MichaelAssumption DEF FiniteSets
    <3>3. nNextFree'[d] = [nNextFree[d] EXCEPT ![i] = anchor[d].avail]
      BY <1>3, <1>4 DEF TypeOK
    <3>4. (\E g : Chain(d, g, n + 1))'
      BY <3>1, <3>2, <3>3, <1>7, <1>11, <1>19, <1>23, ChainFront
    <3>5. nCapacity - Cardinality(Used(d)') = n + 1
      <4>1. Cardinality(Used(d)') = x - 1
        BY <1>7, <1>8, <1>23, UsedLess
      <4> QED
        BY <4>1, <3>2, MichaelAssumption
    <3> QED
      BY <3>4, <3>5 DEF ChainOK
  <2> QED
    BY <2>1, <2>2
<1>32. /\ my[t].desc \in {NULL, d} /\ r.desc \in {NULL, d}
       /\ nNextFree' \in [Desc -> [Index -> Index]]
       /\ \A e \in Desc : e # d => nNextFree'[e] = nNextFree[e]
       /\ \A e \in Desc, j \in Index : e # d => users'[<<e, j>>] = users[<<e, j>>]
  <2>1. old.avail \in Index
    BY <1>7 DEF Anchors
  <2>2. /\ nNextFree' \in [Desc -> [Index -> Index]]
        /\ \A e \in Desc : e # d => nNextFree'[e] = nNextFree[e]
    BY <2>1, <1>4 DEF TypeOK
  <2> QED
    BY <2>2, <1>6, <1>17, <1>21 DEF Block
<1> QED
  BY <1>4, <1>9, <1>12, <1>16, <1>17, <1>18, <1>21, <1>24, <1>27, <1>28, <1>29, <1>30,
     <1>31, <1>32, AnchorStep

-----------------------------------------------------------------------------
(* A new superblock. *)

\* The credits of a new superblock.
LEMMA NewCreditsIs ==
  /\ NewCredits \in Nat \ {0} /\ nCapacity \in Nat /\ nCapacity >= 2
  /\ nCapacity - 1 - NewCredits \in Nat
  /\ 0 \in Index /\ 1 \in Index
BY MichaelAssumption, Z3 DEF NewCredits, Min2, Index

\* Where a descriptor comes from, it was not in use.
LEMMA NewDesc ==
  ASSUME IInv, NEW d \in Desc,
         IF listSBDescFree = <<>>
         THEN d \in fresh /\ fresh' = fresh \ {d} /\ UNCHANGED listSBDescFree
         ELSE d = Head(listSBDescFree) /\ listSBDescFree' = Tail(listSBDescFree) /\ UNCHANGED fresh,
         live' = live \cup {d}
  PROVE  /\ d \notin live /\ ~Findable(d) /\ Out(d) = 0 /\ Credits(d) = 0 /\ Used(d) = {}
         /\ \A u \in Thread : my[u].desc = d => ~Owns(u) /\ Pc(u) \notin Popping
         /\ fresh' \in SUBSET Desc /\ listSBDescFree' \in Seq(Desc) /\ FreeOnce'
<1> USE DEF IInv
<1>1. /\ d \notin live /\ fresh' \in SUBSET Desc /\ listSBDescFree' \in Seq(Desc) /\ FreeOnce'
  <2>1. CASE listSBDescFree = <<>>
    BY <2>1 DEF TypeOK, OnePlace, FreeOnce
  <2>2. CASE listSBDescFree # <<>>
    <3>1. /\ listSBDescFree' \in Seq(Desc) /\ d \in ToSet(listSBDescFree)
          /\ ToSet(listSBDescFree') = ToSet(listSBDescFree) \ {d} /\ Distinct(listSBDescFree')
      <4>1. listSBDescFree \in Seq(Desc) /\ Distinct(listSBDescFree)
        BY DEF TypeOK, OnePlace, FreeOnce
      <4>2. d = Head(listSBDescFree) /\ listSBDescFree' = Tail(listSBDescFree)
        BY <2>2
      <4> QED
        BY <4>1, <4>2, <2>2, Beheaded
    <3> QED
      BY <2>2, <3>1 DEF TypeOK, OnePlace, FreeOnce
  <2> QED
    BY <2>1, <2>2
<1>2. ~Findable(d)
  BY <1>1 DEF OnePlace, FoundOnce
<1>3. Out(d) = 0
  BY <1>1 DEF Counts, CountOK, Serving
<1>4. Poppers(d) = {} /\ Used(d) = {} /\ Credits(d) = 0
  BY <1>3, OutIs, Finite DEF FiniteSets
<1>5. \A u \in Thread : my[u].desc = d => ~Owns(u) /\ Pc(u) \notin Popping
  BY <1>1, <1>4 DEF OnePlace, Alone, Poppers
<1> QED
  BY <1>1, <1>2, <1>3, <1>4, <1>5

\* alloc_from_new_superblock, up to where it becomes active
LEMMA NewSuperblockStep ==
  ASSUME IInv, NEW t \in Thread, NewSuperblock(t)
  PROVE  IInv'
<1> USE DEF IInv
<1>1. PICK d \in Desc :
         /\ IF listSBDescFree = <<>>
            THEN d \in fresh /\ fresh' = fresh \ {d} /\ UNCHANGED listSBDescFree
            ELSE d = Head(listSBDescFree) /\ listSBDescFree' = Tail(listSBDescFree)
                    /\ UNCHANGED fresh
         /\ SetUp(d)
         /\ NewTag(t, d)
         /\ live' = live \cup {d}
         /\ my' = [my EXCEPT ![t].pc = "publish", ![t].desc = d]
  BY DEF NewSuperblock
<1>2. UNCHANGED <<active, pPartial, partialList, users>> /\ made' = made + 1
  BY DEF NewSuperblock
<1>3. /\ d \notin live /\ ~Findable(d) /\ Out(d) = 0 /\ Credits(d) = 0 /\ Used(d) = {}
      /\ \A u \in Thread : my[u].desc = d => ~Owns(u) /\ Pc(u) \notin Popping
      /\ fresh' \in SUBSET Desc /\ listSBDescFree' \in Seq(Desc) /\ FreeOnce'
  BY <1>1, NewDesc
<1>4. /\ my[t] \in Locals /\ LocalsOK(my[t]) /\ my[t].pc = "new"
      /\ my[t].desc = NULL /\ my[t].block = NULL /\ my[t].more = 0 /\ my[t].last = FALSE /\ ~Owns(t)
  <2>1. my[t] \in Locals /\ LocalsOK(my[t]) /\ my[t].pc = "new" /\ Pc(t) = "new"
    BY DEF NewSuperblock, TypeOK, LocalsSet, Pc
  <2> QED
    BY <2>1, NullIs DEF Locals, LocalsOK, Owns, Seeking, Popping, Carrying, Adding, Keeping
<1>5. PICK r : r = [my[t] EXCEPT !.pc = "publish", !.desc = d]
  OBVIOUS
<1>6. /\ r.pc = "publish" /\ r.desc = d /\ r.block = NULL /\ r.more = 0 /\ r.last = FALSE
      /\ r \in Locals /\ d # NULL
  BY <1>4, <1>5, NullIs DEF Locals, Keeping
<1>7. LocalsOK(r)
  BY <1>6 DEF LocalsOK, Seeking, Popping, Carrying, Adding
<1>8. my' = [my EXCEPT ![t] = r]
  BY <1>1, <1>5 DEF TypeOK
<1>9. /\ my' \in [Thread -> Locals] /\ LocalsSet' /\ OthersStay(t) /\ my'[t] = r
      /\ \A u \in Thread \ {t} : (Owns(u)' <=> Owns(u)) /\ my'[u] = my[u]
  BY <1>6, <1>7, <1>8, ThreadStep DEF TypeOK, OthersStay
<1>10. PICK a, l : /\ a = [avail |-> 1, count |-> nCapacity - 1 - NewCredits, state |-> ACTIVE]
                   /\ l = [i \in Index |-> (i + 1) % nCapacity]
  OBVIOUS
<1>11. /\ a \in Anchors /\ a.state = ACTIVE
  BY <1>10, NewCreditsIs DEF Anchors
<1>12. l \in [Index -> Index]
  <2>1. ASSUME NEW i \in Index
        PROVE  (i + 1) % nCapacity \in Index
    BY NewCreditsIs DEF Index
  <2> QED
    BY <2>1, <1>10
<1>13. anchor' = [anchor EXCEPT ![d] = a] /\ nNextFree' = [nNextFree EXCEPT ![d] = l]
  BY <1>1, <1>10 DEF SetUp, NewCredits
<1>14. /\ anchor' \in [Desc -> Anchors] /\ nNextFree' \in [Desc -> [Index -> Index]]
       /\ anchor'[d] = a /\ nNextFree'[d] = l
       /\ \A e \in Desc : e # d => anchor'[e] = anchor[e] /\ nNextFree'[e] = nNextFree[e]
  BY <1>11, <1>12, <1>13 DEF TypeOK
<1>15. /\ stale' \in SUBSET Thread
       /\ \A u \in Thread \ {t} : /\ u \in stale => u \in stale'
                                  /\ my[u].desc = d /\ Pc(u) = "cas" => u \in stale'
  BY <1>1, NewTagIs DEF TypeOK
<1>16. TypeOK'
  BY <1>1, <1>2, <1>3, <1>9, <1>14, <1>15 DEF TypeOK
<1>17. Owns(t)' /\ \A e : (Findable(e)' <=> Findable(e))
  BY <1>2, <1>6, <1>9 DEF Findable, Owns, Pc, Keeping
<1>18. OnePlace'
  <2>1. Alone'
    <3>1. ASSUME NEW u \in Thread, NEW v \in Thread, Owns(u)', Owns(v)', my'[u].desc = my'[v].desc
          PROVE  u = v
      BY <3>1, <1>3, <1>6, <1>9 DEF OnePlace, Alone
    <3>2. ASSUME NEW u \in Thread, NEW x, x = my'[u].desc, Owns(u)'
          PROVE  x \in live' /\ ~Findable(x)'
      <4>1. x \in live \cup {d} /\ ~Findable(x)
        BY <3>2, <1>3, <1>6, <1>9 DEF OnePlace, Alone
      <4> QED
        BY <4>1, <1>1, <1>17
    <3>3. \A u \in Thread : (Owns(u) => my[u].desc \in live /\ ~Findable(my[u].desc))'
      BY <3>2
    <3> QED
      BY <3>1, <3>3 DEF Alone
  <2>2. FoundOnce'
    BY <1>1, <1>2, <1>17 DEF OnePlace, FoundOnce
  <2> QED
    BY <2>1, <2>2, <1>3 DEF OnePlace
<1>19. Somewhere'
  <2>1. ASSUME NEW e \in live', anchor'[e].state # FULL, ~Findable(e)
        PROVE  \E u \in Thread : Owns(u)' /\ my'[u].desc = e
    <3>1. CASE e = d
      BY <3>1, <1>6, <1>9, <1>17
    <3>2. CASE e # d
      <4>1. e \in live /\ e \in Desc
        BY <3>2, <1>1 DEF TypeOK
      <4>2. PICK u \in Thread : Owns(u) /\ my[u].desc = e
        BY <4>1, <3>2, <2>1, <1>14 DEF Somewhere
      <4> QED
        BY <4>2, <1>4, <1>9
    <3> QED
      BY <3>1, <3>2
  <2> QED
    BY <2>1, <1>17 DEF Somewhere
<1>20. States'
  <2>1. ~(d = active.desc \/ d = pPartial \/ d \in ToSet(partialList))
    BY <1>3 DEF Findable
  <2>2. \A e \in Desc : /\ anchor'[e].state = PARTIAL => anchor'[e].count > 0
                        /\ anchor'[e].state = FULL => anchor'[e].count = 0
    BY <1>11, <1>14 DEF States, ACTIVE, PARTIAL, FULL
  <2>3. active.desc # NULL => active.desc \in Desc
    BY DEF TypeOK
  <2> QED
    BY <2>1, <2>2, <2>3, <1>2, <1>14 DEF States
<1>21. ThreadsOK'
  <2>1. ThreadOK(t)'
    BY <1>6, <1>9, <1>10, <1>14 DEF ThreadOK, AsSetUp, Pc, Popping, Carrying, Adding
  <2>2. ASSUME NEW u \in Thread \ {t}
        PROVE  ThreadOK(u)'
    <3>1. Bears(u, d)
      BY <1>2, <1>3, <1>15 DEF Bears
    <3> QED
      BY <3>1, <1>2, <1>9, <1>14, OtherThread DEF ThreadsOK, LocalsSet, TypeOK
  <2> QED
    BY <2>1, <2>2 DEF ThreadsOK
<1>22. \A e \in Desc : Credits(e)' = Credits(e)
  BY <1>2 DEF Credits
<1>23. ASSUME NEW e \in Desc, e # d
       PROVE  CountOK(e)' /\ ChainOK(e)'
  <2>1. e # NULL /\ (e \in live' <=> e \in live)
    BY <1>1, <1>23, NullIs
  <2> QED
    BY <2>1, <1>2, <1>4, <1>6, <1>9, <1>14, <1>16, <1>18, <1>22, <1>23, OtherDesc DEF Counts, Chains
<1>24. CountOK(d)' /\ ChainOK(d)'
  <2>1. (d \notin Serving)'
    BY <1>6, <1>9 DEF Serving, Pc
  <2>2. Used(d)' = Used(d)
    BY <1>2, <1>4, <1>6, <1>9, NullIs, SameUsed
  <2>3. /\ Pops(t, d) = 0 /\ Pops(t, d)' = 0 /\ Carried(t, d) = 0 /\ Carried(t, d)' = 0
    BY <1>4, <1>6, <1>9 DEF Pops, Carried, Pc, Popping
  <2>4. Out(d)' = Out(d)
    BY <2>2, <2>3, <1>9, <1>16, <1>18, <1>22, SameOut
  <2> QED
    BY <2>1, <2>4, <1>3 DEF CountOK, ChainOK
<1> QED
  BY <1>9, <1>16, <1>18, <1>19, <1>20, <1>21, <1>23, <1>24 DEF Counts, Chains

\* The free list of a superblock as it was set up, of which the first block is used.
LEMMA NewChain ==
  ASSUME NEW d, AsSetUp(d), anchor'[d] = anchor[d], nNextFree'[d] = nNextFree[d], Used(d)' = {0}
  PROVE  (\E f : Chain(d, f, nCapacity - 1))'
<1> DEFINE f == [k \in 1 .. nCapacity - 1 |-> k]
<1>1. nCapacity \in Nat /\ nCapacity >= 2
  BY NewCreditsIs
<1>2. Index \ {0} = 1 .. nCapacity - 1
  BY <1>1 DEF Index
<1>3. anchor[d].avail = 1 /\ 1 \in 1 .. nCapacity - 1
  BY <1>1 DEF AsSetUp
<1>4. \A k \in 1 .. (nCapacity - 1) - 1 : f[k + 1] = nNextFree[d][f[k]]
  <2>1. ASSUME NEW k \in 1 .. (nCapacity - 1) - 1
        PROVE  f[k + 1] = nNextFree[d][f[k]]
    <3>1. k \in Index /\ k \in 1 .. nCapacity - 1 /\ k + 1 \in 1 .. nCapacity - 1
      BY <1>1 DEF Index
    <3>2. (k + 1) % nCapacity = k + 1
      BY <1>1
    <3>3. nNextFree[d][k] = (k + 1) % nCapacity
      BY <3>1 DEF AsSetUp
    <3> HIDE DEF AsSetUp
    <3> QED
      BY Zenon, <3>1, <3>2, <3>3
  <2> QED
    BY <2>1
<1> QED
  <2>1. f \in [1 .. nCapacity - 1 -> Index \ {0}]
    BY <1>2
  <2>2. \A j, k \in 1 .. nCapacity - 1 : f[j] = f[k] => j = k
    OBVIOUS
  <2>3. \A i \in Index \ {0} : \E k \in 1 .. nCapacity - 1 : f[k] = i
    BY <1>2
  <2>4. f[1] = anchor[d].avail
    BY <1>3
  <2>5. Chain(d, f, nCapacity - 1)'
    <3> HIDE DEF f
    <3> QED
      BY <2>1, <2>2, <2>3, <2>4, <1>4 DEF Chain
  <2> HIDE DEF f
  <2> QED
    BY <2>5

\* alloc_from_new_superblock: it becomes active.
LEMMA ActivateStep ==
  ASSUME IInv, NEW t \in Thread, Publish(t), active.desc = NULL
  PROVE  IInv'
<1> USE DEF IInv
<1>1. Pc(t) = "publish" /\ Pc(t) \in Keeping /\ my[t].pc = "publish"
  BY DEF Publish, Keeping, Pc
<1>2. PICK d : d = my[t].desc
  OBVIOUS
<1>3. /\ my[t] \in Locals /\ LocalsOK(my[t]) /\ ThreadOK(t) /\ d \in Desc /\ d # NULL
      /\ d \in live /\ ~Findable(d) /\ Owns(t)
      /\ \A u \in Thread : Owns(u) /\ my[u].desc = d => u = t
  BY <1>1, <1>2, OwnerHas
<1>4. /\ my[t].block = NULL /\ my[t].more = 0 /\ AsSetUp(d)
      /\ anchor[d].state = ACTIVE /\ anchor[d].count = nCapacity - 1 - NewCredits
  BY <1>1, <1>2, <1>3 DEF Locals, LocalsOK, ThreadOK, AsSetUp, Seeking, Popping, Carrying, Adding
<1>5. Out(d) = 0 /\ Used(d) = {} /\ Credits(d) = 0
  <2>1. Out(d) = 0
    BY <1>1, <1>2, <1>3 DEF Counts, CountOK, Serving
  <2> QED
    BY <2>1, <1>3, OutIs, Finite DEF FiniteSets
<1>6. /\ active' = [desc |-> d, credits |-> NewCredits - 1]
      /\ users' = [users EXCEPT ![<<d, 0>>] = @ + 1]
      /\ my' = [my EXCEPT ![t] = Idle]
      /\ UNCHANGED <<anchor, nNextFree, pPartial, partialList, listSBDescFree, fresh, live,
                     made, stale>>
  BY <1>2 DEF Publish, Return, NewCredits
<1>7. PICK r : r = Idle
  OBVIOUS
<1>8. r \in Locals /\ LocalsOK(r) /\ r.desc = NULL /\ r.block = NULL /\ r.pc = "idle" /\ r.more = 0
  BY <1>7 DEF Locals, LocalsOK, Idle, Seeking, Popping, Carrying, Adding
<1>9. /\ my' \in [Thread -> Locals] /\ LocalsSet' /\ OthersStay(t) /\ my'[t] = r
      /\ \A u \in Thread \ {t} : (Owns(u)' <=> Owns(u)) /\ my'[u] = my[u]
  BY <1>6, <1>7, <1>8, ThreadStep DEF TypeOK, OthersStay
<1>10. /\ users' \in [Block -> {0, 1}] /\ users'[<<d, 0>>] = 1
       /\ \A b \in Block : b # <<d, 0>> => users'[b] = users[b]
       /\ \A i \in Index : users[<<d, i>>] = 0
  <2>1. users \in [Block -> {0, 1}] /\ <<d, 0>> \in Block
    BY <1>3, NewCreditsIs DEF TypeOK, Block
  <2>2. \A i \in Index : users[<<d, i>>] \in {0, 1} /\ ~(users[<<d, i>>] > 0)
    BY <2>1, <1>3, <1>5 DEF Used, Block
  <2>3. users[<<d, 0>>] = 0
    BY <2>2, NewCreditsIs
  <2> QED
    BY <2>1, <2>2, <2>3, <1>6
<1>11. /\ active' \in [desc : Desc \cup {NULL}, credits : Nat]
       /\ active'.desc = d /\ active'.credits = NewCredits - 1
  BY <1>3, <1>6, NewCreditsIs
<1>12. TypeOK'
  BY <1>6, <1>9, <1>10, <1>11 DEF TypeOK
<1>13. /\ ~Owns(t)' /\ d # pPartial /\ d \notin ToSet(partialList)
       /\ \A e : Findable(e)' <=> (Findable(e) /\ e # NULL) \/ e = d \/ (e = NULL /\ e = pPartial)
                                  \/ (e = NULL /\ e \in ToSet(partialList))
  BY <1>3, <1>6, <1>8, <1>9, <1>11 DEF Findable, Owns, Pc, Seeking, Popping, Carrying, Adding,
     Keeping
<1>14. \A e \in Desc : Findable(e)' <=> Findable(e) \/ e = d
  BY <1>13, NullIs
<1>15. OnePlace'
  <2>1. \A u \in Thread : Owns(u) => my[u].desc \in Desc
    BY DEF OnePlace, Alone, TypeOK
  <2>2. Alone'
    <3>1. ASSUME NEW u \in Thread, NEW v \in Thread, Owns(u)', Owns(v)', my'[u].desc = my'[v].desc
          PROVE  u = v
      BY <3>1, <1>9, <1>13 DEF OnePlace, Alone
    <3>2. ASSUME NEW u \in Thread, NEW x, x = my'[u].desc, Owns(u)'
          PROVE  x \in live' /\ ~Findable(x)'
      <4>1. u # t /\ Owns(u) /\ x = my[u].desc
        BY <3>2, <1>9, <1>13
      <4>2. x # d /\ x \in live /\ ~Findable(x) /\ x \in Desc
        BY <4>1, <2>1, <1>3 DEF OnePlace, Alone
      <4> QED
        BY <4>2, <1>6, <1>14
    <3>3. \A u \in Thread : (Owns(u) => my[u].desc \in live /\ ~Findable(my[u].desc))'
      BY <3>2
    <3> QED
      BY <3>1, <3>3 DEF Alone
  <2>3. FoundOnce'
    <3>1. \A e \in ToSet(partialList) : e # d /\ e # pPartial
      BY <1>13 DEF OnePlace, FoundOnce
    <3> QED
      BY <3>1, <1>3, <1>6, <1>11, <1>13, <1>14 DEF OnePlace, FoundOnce
  <2>4. FreeOnce'
    BY <1>6 DEF OnePlace, FreeOnce
  <2> QED
    BY <2>2, <2>3, <2>4 DEF OnePlace
<1>16. Somewhere'
  <2>1. live \subseteq Desc
    BY DEF TypeOK
  <2> QED
    BY <2>1, <1>2, <1>6, <1>9, <1>14 DEF Somewhere
<1>17. States'
  BY <1>4, <1>6, <1>11 DEF States
<1>18. ThreadsOK'
  <2>1. ThreadOK(t)'
    BY <1>8, <1>9 DEF ThreadOK, Pc, Popping, Carrying, Adding
  <2>2. ASSUME NEW u \in Thread \ {t}
        PROVE  ThreadOK(u)'
    <3>1. my[u].block # NULL => Owns(u) /\ my[u].desc \in Desc /\ my[u].block \in Index
      BY NullIs DEF TypeOK, Locals, LocalsSet, LocalsOK, Owns, Pc, Keeping, Seeking, Carrying,
         Adding
    <3>2. my[u].block # NULL => my[u].desc # d
      BY <3>1, <1>3
    <3>3. my[u].block # NULL =>
             users'[<<my[u].desc, my[u].block>>] = users[<<my[u].desc, my[u].block>>]
      BY <3>1, <3>2, <1>10 DEF Block
    <3> QED
      BY <3>3, <1>6, <1>9, SameThread DEF ThreadsOK, LocalsSet
  <2> QED
    BY <2>1, <2>2 DEF ThreadsOK
<1>19. ASSUME NEW e \in Desc, e # d
       PROVE  CountOK(e)' /\ ChainOK(e)'
  <2>1. e # NULL /\ Credits(e)' = Credits(e) /\ \A i \in Index : users'[<<e, i>>] = users[<<e, i>>]
    BY <1>10, <1>11, <1>19, NullIs DEF Credits, Block
  <2> QED
    BY <2>1, <1>2, <1>6, <1>8, <1>9, <1>12, <1>15, <1>19, OtherDesc DEF Counts, Chains
<1>20. Used(d)' = {0}
  <2>1. 0 \in Used(d)'
    BY <1>10, NewCreditsIs DEF Used
  <2>2. ASSUME NEW i \in Index, i # 0
        PROVE  i \notin Used(d)'
    <3>1. users'[<<d, i>>] = users[<<d, i>>]
      BY <2>2, <1>3, <1>10 DEF Block
    <3>2. i \notin Used(d) /\ i # NULL
      BY <1>5, NullIs
    <3> QED
      BY <3>1, <3>2, <1>8, <1>9 DEF Used
  <2> QED
    BY <2>1, <2>2 DEF Used
<1>21. Cardinality(Used(d)') = 1 /\ Cardinality(Used(d)) = 0
  BY <1>5, <1>20, FS_EmptySet, FS_Singleton
<1>22. (d \in Serving)'
  <2>1. \A u \in Thread \ {t} : my[u].desc = d => Pc(u) \notin {"publish", "release"}
    BY <1>3 DEF Owns, Keeping
  <2>2. anchor'[d].state # EMPTY
    BY <1>4, <1>6 DEF ACTIVE, EMPTY
  <2> QED
    BY <2>1, <2>2, <1>3, <1>6, <1>8, <1>9 DEF Serving, Pc
<1>23. CountOK(d)'
  <2>1. /\ Terms(t, d) /\ Terms(t, d)'
        /\ Out(d)' = Out(d) + (Credits(d)' - Credits(d)) + (Pops(t, d)' - Pops(t, d))
                            + (Carried(t, d)' - Carried(t, d))
                            + (Cardinality(Used(d)') - Cardinality(Used(d)))
    BY <1>3, <1>9, <1>12, <1>15, OutStep
  <2>2. /\ Pops(t, d) = 0 /\ Pops(t, d)' = 0 /\ Carried(t, d) = 0 /\ Carried(t, d)' = 0
    BY <1>1, <1>3, <1>4, <1>8, <1>9 DEF Pops, Carried, Pc, Popping
  <2>3. Credits(d)' = NewCredits
    BY <1>11, NewCreditsIs DEF Credits
  <2>4. Out(d)' = 0 + (NewCredits - 0) + (0 - 0) + (0 - 0) + (1 - 0)
    BY <2>1, <2>2, <2>3, <1>5, <1>21
  <2>5. Out(d)' = NewCredits + 1
    BY <2>4, NewCreditsIs
  <2>6. anchor'[d].count + Out(d)' = nCapacity
    <3>1. anchor'[d].count = nCapacity - 1 - NewCredits
      BY <1>4, <1>6
    <3> QED
      BY <3>1, <2>5, NewCreditsIs
  <2> QED
    BY <2>6, <1>22 DEF CountOK
<1>24. ChainOK(d)'
  <2>1. (\E f : Chain(d, f, nCapacity - 1))'
    BY <1>4, <1>6, <1>20, NewChain
  <2> QED
    BY <2>1, <1>21 DEF ChainOK
<1> QED
  BY <1>9, <1>12, <1>15, <1>16, <1>17, <1>18, <1>19, <1>23, <1>24 DEF Counts, Chains

\* alloc_from_new_superblock: it becomes active, or another one is by now.
LEMMA PublishStep ==
  ASSUME IInv, NEW t \in Thread, Publish(t)
  PROVE  IInv'
<1>1. CASE active.desc = NULL
  BY <1>1, ActivateStep
<1>2. CASE active.desc # NULL
  <2>1. Pc(t) = "publish" /\ Pc(t) \in Keeping /\ "release" \in Keeping
    BY DEF Publish, Keeping
  <2>2. /\ my' = [my EXCEPT ![t].pc = "release", ![t].then = "reserve"]
        /\ UNCHANGED <<heapVars, anchor, nNextFree, stale, users>>
    BY <1>2 DEF Publish, heapVars
  <2>3. my' = [my EXCEPT ![t] = [my[t] EXCEPT !.pc = "release", !.then = "reserve"]]
    BY <2>2 DEF IInv, TypeOK
  <2> QED
    BY <2>1, <2>2, <2>3, OwnerStep
<1> QED
  BY <1>1, <1>2

-----------------------------------------------------------------------------
(* The invariant of the heap. *)

\* Nothing is set up at first.
LEMMA InitIInv ==
  ASSUME Init
  PROVE  IInv
<1>1. /\ active = NoActive /\ active \in [desc : Desc \cup {NULL}, credits : Nat]
      /\ anchor = [d \in Desc |-> [avail |-> 0, count |-> 0, state |-> EMPTY]]
      /\ nNextFree = [d \in Desc |-> [i \in Index |-> 0]]
      /\ pPartial = NULL /\ partialList = <<>> /\ listSBDescFree = <<>>
      /\ fresh = Desc /\ live = {}
      /\ my = [t \in Thread |-> Idle] /\ stale = {}
      /\ users = [b \in Block |-> 0] /\ made = 0
  BY DEF Init, NoActive
<1>2. PICK r : r = Idle /\ \A t \in Thread : my[t] = r
  BY <1>1
<1>3. r \in Locals /\ LocalsOK(r) /\ r.desc = NULL /\ r.block = NULL /\ r.pc = "idle" /\ r.more = 0
  BY <1>2 DEF Locals, LocalsOK, Idle, Seeking, Popping, Carrying, Adding
<1>4. TypeOK
  <2>1. 0 \in Index /\ [avail |-> 0, count |-> 0, state |-> EMPTY] \in Anchors
    BY NewCreditsIs DEF Anchors
  <2>2. my \in [Thread -> Locals]
    BY <1>1, <1>2, <1>3
  <2> QED
    BY <2>1, <2>2, <1>1 DEF TypeOK
<1>5. LocalsSet
  BY <1>2, <1>3 DEF LocalsSet
<1>6. \A t \in Thread : ~Owns(t)
  BY <1>2, <1>3 DEF Owns, Pc, Keeping, Popping, Carrying, Adding
<1>7. ToSet(partialList) = {} /\ ToSet(listSBDescFree) = {}
  BY <1>1 DEF ToSet
<1>8. \A d \in Desc : ~Findable(d)
  BY <1>1, <1>7, NullIs DEF Findable, NoActive
<1>9. OnePlace
  <2>1. Distinct(partialList) /\ Distinct(listSBDescFree)
    BY <1>1 DEF Distinct
  <2> QED
    BY <2>1, <1>1, <1>6, <1>7, <1>8 DEF OnePlace, Alone, FoundOnce, FreeOnce
<1>10. Somewhere
  BY <1>1 DEF Somewhere
<1>11. States
  <2>1. \A d \in Desc : anchor[d].state = EMPTY
    BY <1>1
  <2> QED
    BY <2>1, <1>1, <1>7, NullIs DEF States, NoActive, PARTIAL, FULL, EMPTY
<1>12. ThreadsOK
  BY <1>2, <1>3 DEF ThreadsOK, ThreadOK, Pc, Popping, Carrying, Adding
<1>13. ASSUME NEW d \in Desc
       PROVE  CountOK(d) /\ ChainOK(d)
  <2>1. d \notin Serving
    BY <1>1 DEF Serving
  <2>2. Poppers(d) = {} /\ Used(d) = {} /\ Credits(d) = 0
    <3>1. d # NULL /\ NULL \notin Index
      BY NullIs
    <3>2. \A i \in Index : ~(users[<<d, i>>] > 0)
      BY <1>1 DEF Block
    <3> QED
      BY <3>1, <3>2, <1>1, <1>2, <1>3 DEF Poppers, Used, Credits, NoActive
  <2>3. More(d) = 0
    BY <1>2, <1>3 DEF More, Carriers
  <2>4. Out(d) = 0
    BY <2>2, <2>3, FS_EmptySet DEF Out
  <2> QED
    BY <2>1, <2>4 DEF CountOK, ChainOK
<1> QED
  BY <1>4, <1>5, <1>9, <1>10, <1>11, <1>12, <1>13 DEF IInv, Counts, Chains

\* A step that changes nothing.
LEMMA StutterStep ==
  ASSUME IInv, UNCHANGED vars
  PROVE  IInv'
<1>1. UNCHANGED <<active, anchor, nNextFree, pPartial, partialList, listSBDescFree, fresh, live,
                  my, stale, users, made>>
  BY DEF vars, heapVars
<1>2. /\ \A t \in Thread : Pc(t)' = Pc(t) /\ (Owns(t)' <=> Owns(t))
      /\ \A d : (Findable(d)' <=> Findable(d))
  BY <1>1 DEF Owns, Pc, Findable
<1>3. (TypeOK /\ LocalsSet /\ OnePlace /\ Somewhere /\ States /\ ThreadsOK)'
  <2>1. TypeOK' /\ LocalsSet'
    BY <1>1 DEF IInv, TypeOK, LocalsSet
  <2>2. OnePlace' /\ Somewhere' /\ States'
    BY <1>1, <1>2 DEF IInv, OnePlace, Alone, FoundOnce, FreeOnce, Somewhere, States
  <2>3. ThreadsOK'
    BY <1>1, <1>2 DEF IInv, ThreadsOK, ThreadOK, AsSetUp
  <2> QED
    BY <2>1, <2>2, <2>3
<1>4. ASSUME NEW d \in Desc
      PROVE  CountOK(d)' /\ ChainOK(d)'
  <2>1. Used(d)' = Used(d) /\ Poppers(d)' = Poppers(d) /\ Carriers(d)' = Carriers(d)
    BY <1>1 DEF Used, Poppers, Carriers, Pc
  <2>2. More(d)' = More(d) /\ Credits(d)' = Credits(d) /\ Serving' = Serving
    BY <2>1, <1>1 DEF More, Credits, Serving, Pc
  <2>3. Out(d)' = Out(d)
    BY <2>1, <2>2 DEF Out
  <2> QED
    BY <2>1, <2>2, <2>3, <1>1, SameFor DEF IInv, Counts, Chains
<1> QED
  BY <1>3, <1>4 DEF IInv, Counts, Chains

\* Every step keeps the invariant.
LEMMA IInvStep ==
  ASSUME IInv, [Next]_vars, [StillEmpty]_vars
  PROVE  IInv'
<1>1. CASE UNCHANGED vars
  BY <1>1, StutterStep
<1>2. CASE Next /\ StillEmpty
  <2>1. PICK t \in Thread :
           \/ Reserve(t) \/ PopLoad(t) \/ PopAgain(t) \/ Pop(t)
           \/ Install(t) \/ GiveBack(t) \/ AddPartial(t) \/ PushPartial(t)
           \/ GetPartial(t) \/ PopPartial(t) \/ TakePartial(t) \/ Release(t)
           \/ NewSuperblock(t) \/ Publish(t) \/ Free(t) \/ Unlink(t)
    BY <1>2 DEF Next
  <2>2. CASE Reserve(t)
    BY <2>2, ReserveStep
  <2>3. CASE PopLoad(t)
    BY <2>3, PopLoadStep
  <2>4. CASE PopAgain(t)
    BY <2>4, PopAgainStep
  <2>5. CASE Pop(t)
    BY <2>5, PopStep
  <2>6. CASE Install(t)
    BY <2>6, InstallStep
  <2>7. CASE GiveBack(t)
    BY <2>7, GiveBackStep
  <2>8. CASE AddPartial(t)
    BY <2>8, AddPartialStep
  <2>9. CASE PushPartial(t)
    BY <2>9, PushPartialStep
  <2>10. CASE GetPartial(t)
    BY <2>10, GetPartialStep
  <2>11. CASE PopPartial(t)
    BY <2>11, PopPartialStep
  <2>12. CASE TakePartial(t)
    BY <2>12, TakePartialStep
  <2>13. CASE Release(t)
    BY <2>13, ReleaseStep
  <2>14. CASE NewSuperblock(t)
    BY <2>14, NewSuperblockStep
  <2>15. CASE Publish(t)
    BY <2>15, PublishStep
  <2>16. CASE Free(t)
    BY <2>16, FreeStep
  <2>17. CASE Unlink(t)
    BY <2>17, <1>2, UnlinkStep
  <2> QED
    BY <2>1, <2>2, <2>3, <2>4, <2>5, <2>6, <2>7, <2>8, <2>9, <2>10, <2>11, <2>12, <2>13, <2>14,
       <2>15, <2>16, <2>17
<1> QED
  BY <1>1, <1>2

\* The invariant holds as long as no superblock is released that is not empty.
THEOREM IInvTheorem == CarefulSpec => []IInv
<1>1. Init => IInv
  BY InitIInv
<1>2. IInv /\ [Next]_vars /\ [StillEmpty]_vars => IInv'
  BY IInvStep
<1> QED
  BY <1>1, <1>2, PTL DEF CarefulSpec, Spec

-----------------------------------------------------------------------------
(* What follows for every heap. *)

\* A superblock that a thread releases has no block in use.
LEMMA ReleasedUnused ==
  ASSUME IInv, [Next]_vars, NEW d \in live \ live'
  PROVE  Used(d) = {}
<1>1. PICK t \in Thread : Release(t)
  <2>1. ~UNCHANGED vars
    BY DEF vars, heapVars
  <2>2. PICK t \in Thread :
           \/ Reserve(t) \/ PopLoad(t) \/ PopAgain(t) \/ Pop(t)
           \/ Install(t) \/ GiveBack(t) \/ AddPartial(t) \/ PushPartial(t)
           \/ GetPartial(t) \/ PopPartial(t) \/ TakePartial(t) \/ Release(t)
           \/ NewSuperblock(t) \/ Publish(t) \/ Free(t) \/ Unlink(t)
    BY <2>1 DEF Next
  <2>3. ~(live \subseteq live')
    OBVIOUS
  <2> QED
    BY <2>2, <2>3 DEF Reserve, PopLoad, PopAgain, Pop, Install, GiveBack, AddPartial, PushPartial,
       GetPartial, PopPartial, TakePartial, NewSuperblock, Publish, Free, Unlink, heapVars
<1>2. Pc(t) = "release" /\ my[t].desc = d /\ d \in Desc
  BY <1>1 DEF Release, IInv, TypeOK
<1>3. Out(d) = 0
  BY <1>2 DEF IInv, Counts, CountOK, Serving
<1> QED
  BY <1>2, <1>3, OutIs, Finite DEF IInv, FiniteSets

\* The users of the blocks: who gets one is its only user.
LEMMA Handed ==
  ASSUME TypeOK, TypeOK', NEW b, users' = [users EXCEPT ![b] = @ + 1]
  PROVE  [Contract!HNext]_users
<1>1. users \in [Block -> {0, 1}] /\ users' \in [Block -> {0, 1}]
  BY DEF TypeOK
<1>2. CASE b \notin Block
  BY <1>1, <1>2
<1>3. CASE b \in Block
  <2>1. users[b] = 0 /\ users' = [users EXCEPT ![b] = 1]
    <3>1. users[b] \in {0, 1} /\ users'[b] \in {0, 1} /\ users'[b] = users[b] + 1
      BY <1>1, <1>3
    <3>2. users[b] = 0 /\ users[b] + 1 = 1
      BY <3>1
    <3> QED
      BY <3>2, Zenon
  <2>2. Contract!Malloc(b)
    BY <2>1 DEF Contract!Malloc
  <2> QED
    BY <1>3, <2>2 DEF Contract!HNext
<1> QED
  BY <1>2, <1>3

\* A step is one of the contract, or does not change the users.
LEMMA NextKeepsContract ==
  ASSUME TypeOK, TypeOK', [Next]_vars
  PROVE  [Contract!HNext]_users
<1>1. CASE UNCHANGED users
  BY <1>1
<1>2. ASSUME NEW t \in Thread, Free(t)
      PROVE  [Contract!HNext]_users
  <2>1. PICK b \in Block : users[b] > 0 /\ users' = [users EXCEPT ![b] = @ - 1]
    BY <1>2 DEF Free
  <2>2. users[b] = 1 /\ users' = [users EXCEPT ![b] = 0]
    <3>1. users[b] \in {0, 1}
      BY DEF TypeOK
    <3>2. users[b] = 1 /\ users[b] - 1 = 0
      BY <2>1, <3>1
    <3> QED
      BY <2>1, <3>2, Zenon
  <2>3. Contract!Free(b)
    BY <2>2 DEF Contract!Free
  <2> QED
    BY <2>3 DEF Contract!HNext
<1>3. ASSUME NEW t \in Thread, Pop(t) \/ Install(t) \/ AddPartial(t) \/ PushPartial(t) \/ Publish(t)
      PROVE  UNCHANGED users \/ \E b : users' = [users EXCEPT ![b] = @ + 1]
  BY <1>3 DEF Pop, Install, AddPartial, PushPartial, Publish, AfterAdding, Return
<1>4. ASSUME NEW t \in Thread,
             \/ Reserve(t) \/ PopLoad(t) \/ PopAgain(t) \/ GiveBack(t)
             \/ GetPartial(t) \/ PopPartial(t)
             \/ TakePartial(t) \/ Release(t) \/ NewSuperblock(t) \/ Unlink(t)
      PROVE  UNCHANGED users
  BY <1>4 DEF Reserve, PopLoad, PopAgain, GiveBack, GetPartial, PopPartial, TakePartial, Release,
     NewSuperblock, Unlink
<1> QED
  BY <1>1, <1>2, <1>3, <1>4, Handed DEF Next, vars

\* The promises of the heap.
Promises ==
    /\ []CreditsExact /\ []ListExact /\ []NoUseAfterFree /\ []NothingLost
    /\ FreedWhenEmpty /\ KeepsContract

\* They follow from the invariant.
LEMMA Promised == Spec /\ []IInv => Promises
<1>1. IInv => CreditsExact /\ ListExact /\ NoUseAfterFree /\ NothingLost
  BY IInvImplies
<1>2. IInv /\ [Next]_vars => [\A d \in live \ live' : Used(d) = {}]_vars
  BY ReleasedUnused
<1>3. Init => Contract!HInit
  BY DEF Init, Contract!HInit
<1>4. IInv /\ IInv' /\ [Next]_vars => [Contract!HNext]_users
  BY NextKeepsContract DEF IInv
<1> QED
  BY <1>1, <1>2, <1>3, <1>4, PTL DEF Spec, Promises, FreedWhenEmpty, KeepsContract, Contract!HSpec

\* The count of a superblock, the credits and the reservations in flight add up (the CAS
\* loops of alloc_from_active, alloc_from_partial, update_active and free).
THEOREM CreditsExactTheorem == CarefulSpec => []CreditsExact
BY IInvTheorem, Promised, PTL DEF CarefulSpec, Promises

\* The links from the anchor on lead through the blocks that nobody uses, each once.
THEOREM ListExactTheorem == CarefulSpec => []ListExact
BY IInvTheorem, Promised, PTL DEF CarefulSpec, Promises

\* free_superblock takes no memory of which a block is used or reserved.
THEOREM NoUseAfterFreeTheorem == CarefulSpec => []NoUseAfterFree
BY IInvTheorem, Promised, PTL DEF CarefulSpec, Promises

\* A superblock with a block to give can be found, or is in the hands of a thread.
THEOREM NothingLostTheorem == CarefulSpec => []NothingLost
BY IInvTheorem, Promised, PTL DEF CarefulSpec, Promises

\* "superblock is empty and may be freed": what is freed has no block in use.
THEOREM FreedWhenEmptyTheorem == CarefulSpec => FreedWhenEmpty
BY IInvTheorem, Promised, PTL DEF CarefulSpec, Promises

\* No block is handed out while it is used, and the heap is the allocator of HeapContract.
THEOREM KeepsContractTheorem == CarefulSpec => KeepsContract
BY IInvTheorem, Promised, PTL DEF CarefulSpec, Promises

-----------------------------------------------------------------------------
(* When it is still empty: the condition of CarefulSpec. *)

\* A superblock is set up with a descriptor that never was one before.
DescOnce == \A d \in live' \ live : d \in fresh

\* There is one thread.
OneThread == \A t, u \in Thread : t = u

\* What free() found empty, and is about to release, is empty.
EmptyStays ==
    \A t \in Thread :
       Pc(t) = "unlink" => anchor[my[t].desc].state = EMPTY /\ my[t].desc \notin fresh

\* What free() does to the anchors.
LEMMA FreeDoes ==
  ASSUME IInv, NEW t \in Thread, Free(t)
  PROVE  \E d \in Desc :
            /\ anchor[d].state # EMPTY /\ d \notin fresh
            /\ \A e \in Desc : e # d => anchor'[e] = anchor[e]
            /\ Pc(t)' = "unlink" => my'[t].desc = d /\ anchor'[d].state = EMPTY
<1> USE DEF IInv
<1>1. PICK b \in Block :
         LET d == b[1]
             new == Pushed(anchor[d], b[2])
         IN  /\ users[b] > 0
             /\ anchor' = [anchor EXCEPT ![d] = new]
             /\ CASE new.state = EMPTY -> my' = [my EXCEPT ![t].pc = "unlink", ![t].desc = d]
                  [] new.state # EMPTY /\ anchor[d].state = FULL ->
                        my' = [my EXCEPT ![t].pc = "add", ![t].desc = d]
                  [] OTHER -> UNCHANGED my
  BY DEF Free
<1>2. PICK d \in Desc, i \in Index : b = <<d, i>> /\ b[1] = d /\ b[2] = i
  BY DEF Block
<1>3. PICK a : a = Pushed(anchor[d], i)
  OBVIOUS
<1>4. /\ users[<<d, i>>] > 0 /\ anchor' = [anchor EXCEPT ![d] = a]
      /\ a.state = EMPTY => my' = [my EXCEPT ![t].pc = "unlink", ![t].desc = d]
      /\ a.state # EMPTY => my' = [my EXCEPT ![t].pc = "add", ![t].desc = d] \/ my' = my
  BY <1>1, <1>2, <1>3
<1>5. Pc(t) = "idle" /\ my \in [Thread -> Locals] /\ anchor \in [Desc -> Anchors]
  BY DEF Free, TypeOK
<1>6. anchor[d].state # EMPTY /\ d \in live
  <2>1. Used(d) # {}
    BY <1>2, <1>4 DEF Used
  <2>2. Out(d) > 0
    BY <2>1, OutIs, Finite DEF FiniteSets
  <2> QED
    BY <2>2, OutServes
<1>7. d \notin fresh
  BY <1>6 DEF OnePlace, FreeOnce
<1>8. CASE a.state = EMPTY
  BY <1>4, <1>5, <1>6, <1>7, <1>8 DEF Pc, Locals
<1>9. CASE a.state # EMPTY
  <2>1. Pc(t)' # "unlink"
    BY <1>4, <1>5, <1>9 DEF Pc, Locals
  <2> QED
    BY <2>1, <1>4, <1>5, <1>6, <1>7
<1> QED
  BY <1>8, <1>9

\* A step changes the locals of one thread, and only free() goes to unlink.
LEMMA OneMoves ==
  ASSUME TypeOK, NEW t \in Thread,
         \/ Reserve(t) \/ PopLoad(t) \/ PopAgain(t) \/ Pop(t)
         \/ Install(t) \/ GiveBack(t) \/ AddPartial(t) \/ PushPartial(t)
         \/ GetPartial(t) \/ PopPartial(t) \/ TakePartial(t) \/ Release(t)
         \/ NewSuperblock(t) \/ Publish(t) \/ Free(t) \/ Unlink(t)
  PROVE  OthersStay(t) /\ (Pc(t)' = "unlink" => Free(t))
<1>1. /\ my \in [Thread -> Locals] /\ DOMAIN my = Thread
      /\ my[t].then \in {"idle", "reserve", "partial"}
      /\ Idle.pc = "idle"
  BY DEF TypeOK, Locals, Idle
<1>2. ASSUME NEW r, r.pc # "unlink", my' = [my EXCEPT ![t] = r]
      PROVE  OthersStay(t) /\ Pc(t)' # "unlink"
  BY <1>1, <1>2 DEF OthersStay, Pc
<1>3. ASSUME NEW label, label # "unlink", Goto(t, label)
      PROVE  OthersStay(t) /\ Pc(t)' # "unlink"
  BY <1>1, <1>3 DEF Goto, OthersStay, Pc, Locals
<1>4. ASSUME AfterAdding(t) \/ \E d, i : Return(t, d, i)
      PROVE  OthersStay(t) /\ Pc(t)' # "unlink"
  BY <1>1, <1>2, <1>4 DEF AfterAdding, Return
<1>5. CASE Reserve(t)
  BY <1>1, <1>3, <1>5 DEF Reserve, Idle, OthersStay, Pc
<1>6. CASE PopLoad(t) \/ PopAgain(t)
  BY <1>1, <1>6 DEF PopLoad, PopAgain, OthersStay, Pc, Locals
<1>7. CASE Pop(t)
  BY <1>1, <1>4, <1>7 DEF Pop, Idle, OthersStay, Pc
<1>8. CASE Install(t)
  BY <1>3, <1>4, <1>8 DEF Install
<1>9. CASE GiveBack(t)
  BY <1>1, <1>9 DEF GiveBack, OthersStay, Pc, Locals
<1>10. CASE AddPartial(t) \/ PushPartial(t)
  BY <1>3, <1>4, <1>10 DEF AddPartial, PushPartial
<1>11. CASE GetPartial(t)
  BY <1>1, <1>3, <1>11 DEF GetPartial, OthersStay, Pc, Locals
<1>12. CASE PopPartial(t)
  BY <1>1, <1>3, <1>12 DEF PopPartial, OthersStay, Pc, Locals
<1>13. CASE TakePartial(t)
  <2>1. \/ my' = [my EXCEPT ![t].pc = "release", ![t].then = "partial"]
        \/ \E m : my' = [my EXCEPT ![t].pc = "pop", ![t].more = m]
    <3>1. PICK m : m = MoreOfPartial(anchor[my[t].desc].count)
      OBVIOUS
    <3>2. IF anchor[my[t].desc].state = EMPTY
          THEN my' = [my EXCEPT ![t].pc = "release", ![t].then = "partial"]
          ELSE my' = [my EXCEPT ![t].pc = "pop", ![t].more = m]
      BY <1>13, <3>1 DEF TakePartial
    <3> QED
      BY Zenon, <3>2
  <2> QED
    BY <2>1, <1>1 DEF OthersStay, Pc, Locals
<1>14. CASE Release(t)
  <2>1. PICK r : r = [Idle EXCEPT !.pc = my[t].then]
    OBVIOUS
  <2>2. r.pc = my[t].then
    BY <2>1 DEF Idle
  <2> QED
    BY <2>1, <2>2, <1>1, <1>2, <1>14 DEF Release
<1>15. CASE NewSuperblock(t)
  BY <1>1, <1>15 DEF NewSuperblock, OthersStay, Pc, Locals
<1>16. CASE Publish(t)
  <2>1. \/ my' = [my EXCEPT ![t].pc = "release", ![t].then = "reserve"]
        \/ \E d, i : Return(t, d, i)
    BY Zenon, <1>16 DEF Publish
  <2> QED
    BY <2>1, <1>1, <1>4 DEF OthersStay, Pc, Locals
<1>17. CASE Free(t)
  <2>1. my' = my \/ \E d, label : my' = [my EXCEPT ![t].pc = label, ![t].desc = d]
    BY <1>17 DEF Free
  <2> QED
    BY <2>1, <1>1, <1>17 DEF OthersStay
<1>18. CASE Unlink(t)
  BY <1>1, <1>2, <1>3, <1>18 DEF Unlink
<1> QED
  BY <1>5, <1>6, <1>7, <1>8, <1>9, <1>10, <1>11, <1>12, <1>13, <1>14, <1>15, <1>16, <1>17, <1>18

\* So a step that does not set up a superblock again finds it empty, and what free() found
\* empty stays so.
LEMMA EmptyStaysStep ==
  ASSUME IInv, EmptyStays, [Next]_vars, OneThread \/ [DescOnce]_vars
  PROVE  EmptyStays' /\ [StillEmpty]_vars
<1> USE DEF IInv
<1>1. [StillEmpty]_vars
  BY DEF EmptyStays, StillEmpty
<1>2. CASE UNCHANGED vars
  BY <1>2 DEF EmptyStays, vars, heapVars, Pc
<1>3. CASE ~UNCHANGED vars
  <2>1. PICK t \in Thread :
           \/ Reserve(t) \/ PopLoad(t) \/ PopAgain(t) \/ Pop(t)
           \/ Install(t) \/ GiveBack(t) \/ AddPartial(t) \/ PushPartial(t)
           \/ GetPartial(t) \/ PopPartial(t) \/ TakePartial(t) \/ Release(t)
           \/ NewSuperblock(t) \/ Publish(t) \/ Free(t) \/ Unlink(t)
    BY <1>3 DEF Next
  <2>2. OneThread \/ DescOnce
    BY <1>3
  <2>3. my \in [Thread -> Locals] /\ \A u \in Thread : my[u].desc \in Desc \cup {NULL}
    BY DEF TypeOK, Locals
  <2>4. ASSUME NEW u \in Thread, Pc(u)' = "unlink",
               \/ my'[u] = my[u] /\ Pc(u) = "unlink" /\ u # t
               \/ u = t /\ Free(t)
        PROVE  anchor'[my'[u].desc].state = EMPTY /\ my'[u].desc \notin fresh'
    <3>1. CASE Free(t)
      <4>1. PICK d \in Desc :
               /\ anchor[d].state # EMPTY /\ d \notin fresh
               /\ \A e \in Desc : e # d => anchor'[e] = anchor[e]
               /\ Pc(t)' = "unlink" => my'[t].desc = d /\ anchor'[d].state = EMPTY
        BY <3>1, FreeDoes
      <4>2. fresh' = fresh
        BY <3>1 DEF Free, heapVars
      <4>3. u # t => my[u].desc \in Desc
        BY <2>3, <2>4, NullIs DEF LocalsSet, LocalsOK, Pc, Seeking
      <4> QED
        BY <4>1, <4>2, <4>3, <2>4 DEF EmptyStays
    <3>2. CASE ~Free(t)
      <4>1. PICK e : e = my[u].desc
        OBVIOUS
      <4>2. /\ u # t /\ my'[u].desc = e /\ e \in Desc
            /\ anchor[e].state = EMPTY /\ e \notin fresh
        BY <2>3, <2>4, <3>2, <4>1, NullIs DEF EmptyStays, LocalsSet, LocalsOK, Pc, Seeking
      <4>3. CASE NewSuperblock(t)
        <5>1. PICK d \in Desc :
                 /\ IF listSBDescFree = <<>>
                    THEN d \in fresh /\ fresh' = fresh \ {d} /\ UNCHANGED listSBDescFree
                    ELSE /\ d = Head(listSBDescFree) /\ listSBDescFree' = Tail(listSBDescFree)
                         /\ UNCHANGED fresh
                 /\ SetUp(d)
                 /\ live' = live \cup {d}
          BY <4>3 DEF NewSuperblock
        <5>2. d \notin live /\ d \in live'
          BY <5>1, NewDesc
        <5>3. d # e
          BY <5>2, <2>2, <4>2 DEF DescOnce, OneThread
        <5>4. anchor'[e] = anchor[e] /\ e \notin fresh'
          BY <5>1, <5>3, <4>2 DEF SetUp, TypeOK
        <5> QED
          BY <5>4, <4>2
      <4>4. CASE Pop(t)
        <5>1. Pc(t) \in Popping /\ fresh' = fresh
          BY <4>4 DEF Pop, Popping, heapVars
        <5>2. my[t].desc # e
          BY <5>1, <4>2, PopperHas DEF Serving
        <5>3. anchor'[e] = anchor[e]
          BY <4>4, <5>2 DEF Pop
        <5> QED
          BY <5>1, <5>3, <4>2
      <4>5. CASE GiveBack(t)
        <5>1. Pc(t) \in Keeping /\ Pc(t) = "giveback" /\ fresh' = fresh
          BY <4>5 DEF GiveBack, Keeping, Carrying, heapVars
        <5>2. anchor[my[t].desc].state = ACTIVE
          BY <5>1, OwnerHas DEF ThreadOK, Carrying
        <5>3. my[t].desc # e
          BY <5>2, <4>2 DEF ACTIVE, EMPTY
        <5>4. anchor'[e] = anchor[e]
          BY <4>5, <5>3, <4>2 DEF GiveBack, TypeOK
        <5> QED
          BY <5>1, <5>4, <4>2
      <4>6. CASE TakePartial(t)
        <5>1. fresh' = fresh
          BY <4>6 DEF TakePartial, heapVars
        <5>2. anchor'[e].state = EMPTY
          <6>1. CASE anchor[my[t].desc].state = EMPTY
            BY <6>1, <4>2, <4>6 DEF TakePartial
          <6>2. CASE anchor[my[t].desc].state # EMPTY
            <7>1. my[t].desc # e
              BY <6>2, <4>2
            <7>2. anchor'[e] = anchor[e]
              <8> DEFINE F(c, m) == (c - m - 1) % 2048
              <8>1. PICK d, m : d = my[t].desc /\ m = MoreOfPartial(anchor[d].count)
                OBVIOUS
              <8>2. anchor' = [anchor EXCEPT ![d].count = F(@, m),
                                             ![d].state = IF m > 0 THEN ACTIVE ELSE FULL]
                BY <8>1, <6>2, <4>6 DEF TakePartial
              <8> HIDE DEF F
              <8> QED
                BY <8>1, <8>2, <7>1, <4>2 DEF TypeOK
            <7> QED
              BY <7>2, <4>2
          <6> QED
            BY <6>1, <6>2
        <5> QED
          BY <5>1, <5>2, <4>2
      <4>7. CASE \/ Reserve(t) \/ PopLoad(t) \/ PopAgain(t) \/ Install(t)
                 \/ AddPartial(t) \/ PushPartial(t)
                 \/ GetPartial(t) \/ PopPartial(t) \/ Release(t) \/ Publish(t) \/ Unlink(t)
        <5>1. anchor' = anchor /\ fresh' = fresh
          BY <4>7 DEF Reserve, PopLoad, PopAgain, Install, AddPartial, PushPartial, GetPartial,
             PopPartial, Release, Publish, Unlink, heapVars
        <5> QED
          BY <5>1, <4>2
      <4> QED
        BY <2>1, <3>2, <4>3, <4>4, <4>5, <4>6, <4>7
    <3> QED
      BY <3>1, <3>2
  <2>5. ASSUME NEW u \in Thread, Pc(u)' = "unlink"
        PROVE  \/ my'[u] = my[u] /\ Pc(u) = "unlink" /\ u # t
               \/ u = t /\ Free(t)
    <3>1. OthersStay(t) /\ (Pc(t)' = "unlink" => Free(t))
      BY <2>1, OneMoves
    <3> QED
      BY <3>1, <2>5 DEF OthersStay, Pc
  <2> QED
    BY <1>1, <2>4, <2>5 DEF EmptyStays, Pc
<1> QED
  BY <1>1, <1>2, <1>3

\* At first nothing was found empty.
LEMMA InitEmptyStays ==
  ASSUME Init
  PROVE  EmptyStays
BY DEF Init, EmptyStays, Idle, Pc

\* As long as no descriptor is used for a second superblock, free() needs not look again:
\* the heap keeps all its promises.
THEOREM DescOnceTheorem == Spec /\ [][DescOnce]_vars => Promises
<1>1. Init => IInv /\ EmptyStays
  BY InitIInv, InitEmptyStays
<1>2. IInv /\ EmptyStays /\ [Next]_vars /\ [DescOnce]_vars => IInv' /\ EmptyStays'
  BY EmptyStaysStep, IInvStep
<1>3. Spec /\ [][DescOnce]_vars => []IInv
  BY <1>1, <1>2, PTL DEF Spec
<1> QED
  BY <1>3, Promised, PTL

\* Neither does it need to when one thread allocates and frees.
THEOREM OneThreadTheorem ==
  ASSUME OneThread
  PROVE  Spec => Promises
<1>1. Init => IInv /\ EmptyStays
  BY InitIInv, InitEmptyStays
<1>2. IInv /\ EmptyStays /\ [Next]_vars => IInv' /\ EmptyStays'
  BY EmptyStaysStep, IInvStep
<1>3. Spec => []IInv
  BY <1>1, <1>2, PTL DEF Spec
<1> QED
  BY <1>3, Promised, PTL
=============================================================================
