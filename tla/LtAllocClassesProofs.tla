------------------------- MODULE LtAllocClassesProofs -------------------------
(***************************************************************************)
(* What holds of both kinds of size classes together: the theorems of      *)
(* LtAllocProofs for the class that a behaviour runs.  Of a small class    *)
(* holds the whole invariant; of a large one, whose memory may be refused, *)
(* the part that needs no counts.                                          *)
(***************************************************************************)
EXTENDS LtAllocClasses, TLAPS

\* The invariant of a class of each kind.
SmallIInv ==
    /\ small!IInv /\ small!ListedMapped
    /\ small!Unsqueezed /\ small!NoneLeft /\ small!AllHeld
LargeIInv == large!Inv /\ large!Unsqueezed /\ large!NoneLeft /\ large!AllHeld
ClassesIInv ==
    /\ isSmall \in BOOLEAN
    /\ isSmall => SmallIInv
    /\ ~isSmall => LargeIInv

\* The constants of a small class are as LtAlloc has them.
LEMMA SmallAssumption == small!LtAllocAssumption
BY ClassesAssumption DEF small!LtAllocAssumption, small!IsFiniteSet, IsFiniteSet

\* Those of a large class are.
LEMMA LargeAssumption == large!LtAllocAssumption
BY ClassesAssumption DEF large!LtAllocAssumption, large!IsFiniteSet, IsFiniteSet

\* The first state of either.
LEMMA InitClasses ==
  ASSUME Init
  PROVE  ClassesIInv
<1>1. ASSUME small!Init
      PROVE  SmallIInv
  <2>1. small!IInv
    BY <1>1, SmallAssumption, small!InitIInv
  <2>2. small!ListedMapped
    BY <1>1, SmallAssumption, small!InitMapped
  <2>3. small!Unsqueezed /\ small!NoneLeft /\ small!AllHeld
    BY <1>1, SmallAssumption, small!InitHeld
  <2> QED
    BY <2>1, <2>2, <2>3 DEF SmallIInv
<1>2. ASSUME large!Init
      PROVE  LargeIInv
  <2>1. large!IInv
    BY <1>2, LargeAssumption, large!InitIInv
  <2>2. large!Unsqueezed /\ large!NoneLeft /\ large!AllHeld
    BY <1>2, LargeAssumption, large!InitHeld
  <2> QED
    BY <2>1, <2>2 DEF LargeIInv, large!IInv
<1> QED
  BY <1>1, <1>2 DEF Init, ClassesIInv

\* A step of a small class.
LEMMA SmallStep ==
  ASSUME SmallIInv, small!Next
  PROVE  SmallIInv'
<1>1. PICK t \in Thread :
         \/ small!Malloc(t) \/ small!Free(t) \/ small!FreeAndMove(t) \/ small!Exit(t)
         \/ small!SqueezeDetach(t) \/ small!Squeeze(t)
  BY DEF small!Next
<1>2. /\ small!IInv /\ small!ListedMapped /\ small!Inv /\ small!SmallInv
      /\ small!Unsqueezed /\ small!NoneLeft /\ small!AllHeld /\ Squeezer = {}
  BY ClassesAssumption DEF SmallIInv, small!IInv, small!SmallInv
<1>3. small!IInv'
  BY <1>1, <1>2, SmallAssumption, small!NextIInv
<1>4. small!ListedMapped'
  BY <1>1, <1>2, SmallAssumption, small!NextMapped
<1>5. small!Unsqueezed' /\ small!NoneLeft' /\ small!AllHeld'
  BY <1>1, <1>2, SmallAssumption, small!NextHeld
<1> QED
  BY <1>3, <1>4, <1>5 DEF SmallIInv

\* A step of a large class, a refusal of memory included.
LEMMA LargeStep ==
  ASSUME LargeIInv, large!NextOrRefused
  PROVE  LargeIInv'
<1>1. PICK t \in Thread :
         \/ large!Malloc(t) \/ large!Free(t) \/ large!FreeAndMove(t) \/ large!Exit(t)
         \/ large!SqueezeDetach(t) \/ large!Squeeze(t) \/ large!FetchFails(t)
  BY DEF large!NextOrRefused, large!Next
<1>2. /\ large!Inv /\ large!SmallInv /\ large!Unsqueezed /\ large!NoneLeft /\ large!AllHeld
      /\ Squeezer = {}
  BY ClassesAssumption DEF LargeIInv, large!SmallInv
<1>3. large!Inv'
  BY <1>1, <1>2, LargeAssumption, large!NextInv
<1>4. large!Unsqueezed' /\ large!NoneLeft' /\ large!AllHeld'
  BY <1>1, <1>2, LargeAssumption, large!NextHeld
<1> QED
  BY <1>3, <1>4 DEF LargeIInv

\* No step.
LEMMA ClassesStutter ==
  ASSUME ClassesIInv, UNCHANGED vars
  PROVE  ClassesIInv'
<1>1. isSmall' = isSmall /\ UNCHANGED large!vars
  BY DEF vars
<1>2. UNCHANGED small!vars
  BY <1>1 DEF large!vars, small!vars, large!cacheVars, small!cacheVars,
              large!batchVars, small!batchVars, large!listVars, small!listVars,
              large!addrVars, small!addrVars, large!padVars, small!padVars,
              large!squeezeVars, small!squeezeVars
<1>3. SmallIInv => SmallIInv'
  BY <1>2, SmallAssumption, small!StutterIInv, small!StutterMapped, small!StutterHeld
     DEF SmallIInv
<1>4. LargeIInv => LargeIInv'
  BY <1>1, LargeAssumption, large!StutterInv, large!StutterHeld DEF LargeIInv
<1> QED
  BY <1>1, <1>3, <1>4 DEF ClassesIInv

\* The invariant of the class that runs holds in every state.
THEOREM ClassesIInvTheorem == Spec => []ClassesIInv
<1>1. Init => ClassesIInv
  BY InitClasses
<1>2. ClassesIInv /\ [Next]_vars => ClassesIInv'
  BY SmallStep, LargeStep, ClassesStutter DEF ClassesIInv, Next
<1> QED
  BY <1>1, <1>2, PTL DEF Spec

\* The variables of a small class keep their types; of the arrays of the chunks this says
\* that none holds more batches than it has slots, where put_batch stores another one.
THEOREM ClassesTypeOKTheorem == Spec => []TypeOK
<1>1. ClassesIInv => TypeOK
  BY SmallAssumption, small!IInvTypes DEF ClassesIInv, SmallIInv, TypeOK
<1> QED
  BY <1>1, ClassesIInvTheorem, PTL

\* A block of a large class is with the application, or once on one of the lists, even
\* where the system refuses memory.
THEOREM ClassesInOnePlaceTheorem == Spec => []InOnePlace
<1>1. ClassesIInv => InOnePlace
  BY LargeAssumption, large!InvInOnePlace DEF ClassesIInv, LargeIInv, InOnePlace
<1> QED
  BY <1>1, ClassesIInvTheorem, PTL

\* Nothing is lost of either class: every block of a chunk in service is with the
\* application or on a list, wherever threads hand lists to one another.
THEOREM ClassesNothingLostTheorem == Spec => []NothingLost
<1>1. SmallIInv => small!NothingLost
  BY SmallAssumption, small!HeldListed DEF SmallIInv, small!IInv
<1>2. LargeIInv => large!NothingLost
  BY LargeAssumption, large!HeldListed DEF LargeIInv
<1>3. ClassesIInv => NothingLost
  BY <1>1, <1>2 DEF ClassesIInv, NothingLost
<1> QED
  BY <1>3, ClassesIInvTheorem, PTL

\* The arrays of a small class fill up from the first chunk on, every batch in them is whole,
\* and the counters tell what is in the lists.
THEOREM ClassesArraysInOrderTheorem == Spec => []ArraysInOrder
<1>1. SmallIInv => small!ArraysInOrder
  BY SmallAssumption, small!IInvOrdered DEF SmallIInv
<1>2. SmallIInv => small!CountersExact
  BY ClassesAssumption, SmallAssumption, small!IInvCounters DEF SmallIInv
<1>3. ClassesIInv => ArraysInOrder
  BY <1>1, <1>2 DEF ClassesIInv, ArraysInOrder
<1> QED
  BY <1>3, ClassesIInvTheorem, PTL
=============================================================================
