---------------------------- MODULE SequenceLemmas ----------------------------
(***************************************************************************)
(* What the proofs about queues and lists need: the least number of a set, *)
(* from which recursive functions on numbers get their meaning, positions  *)
(* in a ring, the sequence of all elements of a sequence of sequences, and *)
(* sequences without repetitions.                                          *)
(***************************************************************************)
EXTENDS Integers, Sequences, SequencesExt, FiniteSetTheorems, SequenceTheorems, TLAPS

\* A set of natural numbers has a least one.  This stands for induction: the least
\* number for which something fails.
LEMMA LeastNumber ==
  ASSUME NEW S \in SUBSET Nat, S # {}
  PROVE  \E m \in S : \A k \in S : m <= k
<1> DEFINE T == {0 .. m : m \in S}
<1>1. \A m \in S : 0 .. m \in FiniteSubsetsOf(Nat)
  BY FS_Interval DEF FiniteSubsetsOf
<1>2. T \subseteq FiniteSubsetsOf(Nat) /\ T # {}
  BY <1>1
<1>3. PICK t \in T : \A u \in T : ~(<<u, t>> \in StrictSubsetOrdering(Nat))
  <2> HIDE DEF T
  <2> QED
    BY <1>2, FS_StrictSubsetOrderingWellFounded, WFMin
<1>4. PICK m \in S : t = 0 .. m
  OBVIOUS
<1>5. ASSUME NEW k \in S, k < m
      PROVE  FALSE
  <2>1. 0 .. k \subseteq 0 .. m /\ 0 .. k # 0 .. m
    BY <1>5
  <2>2. <<0 .. k, 0 .. m>> \in StrictSubsetOrdering(Nat)
    BY <2>1 DEF StrictSubsetOrdering
  <2> QED
    BY <1>3, <1>4, <2>2
<1> QED
  BY <1>5

\* If something fails for a number, it fails for a least one, which is 0 or one more
\* than a number for which it holds.
LEMMA FirstFailure ==
  ASSUME NEW S \in SUBSET Nat, S # {}
  PROVE  \E m \in S : m = 0 \/ (m - 1 \in Nat /\ m - 1 \notin S)
<1>1. PICK m \in S : \A k \in S : m <= k
  BY LeastNumber
<1> QED
  BY <1>1

-----------------------------------------------------------------------------
\* Following f from x: the function that is defined by recursion.
Stepping(g, f, x, n) == g = [i \in 0 .. n |-> IF i = 0 THEN x ELSE f[g[i - 1]]]

\* Any number of steps can be taken.
LEMMA StepsExist ==
  ASSUME NEW f, NEW x, NEW n \in Nat
  PROVE  \E g : Stepping(g, f, x, n)
<1> DEFINE Steps(g, m) == g = [i \in 0 .. m |-> IF i = 0 THEN x ELSE f[g[i - 1]]]
           Bad == {m \in Nat : ~ \E g : Steps(g, m)}
<1>1. Steps([i \in 0 .. 0 |-> x], 0)
  OBVIOUS
<1>2. ASSUME NEW m \in Nat, NEW g, Steps(g, m)
      PROVE  \E h : Steps(h, m + 1)
  <2> DEFINE h == [i \in 0 .. m + 1 |-> IF i = m + 1 THEN f[g[m]] ELSE g[i]]
  <2>1. \A i \in 0 .. m + 1 : h[i] = IF i = 0 THEN x ELSE f[h[i - 1]]
    <3>1. \A i \in 0 .. m : g[i] = IF i = 0 THEN x ELSE f[g[i - 1]]
      BY <1>2
    <3>2. \A i \in 0 .. m : h[i] = g[i]
      OBVIOUS
    <3>3. h[m + 1] = f[g[m]]
      OBVIOUS
    <3>4. TAKE i \in 0 .. m + 1
    <3>5. CASE i = m + 1
      <4>1. i - 1 \in 0 .. m /\ i # 0
        BY <3>5
      <4> QED
        BY <3>2, <3>3, <3>5, <4>1
    <3>6. CASE i \in 0 .. m /\ i # 0
      BY <3>1, <3>2, <3>6
    <3>7. CASE i = 0
      BY <3>1, <3>2, <3>7
    <3> QED
      BY <3>5, <3>6, <3>7
  <2>2. h = [i \in 0 .. m + 1 |-> IF i = 0 THEN x ELSE f[h[i - 1]]]
    BY <2>1
  <2> QED
    BY <2>2
<1>3. Bad = {}
  <2>1. SUFFICES ASSUME Bad # {} PROVE FALSE
    OBVIOUS
  <2>2. PICK m \in Bad : m = 0 \/ (m - 1 \in Nat /\ m - 1 \notin Bad)
    BY <2>1, FirstFailure
  <2>3. CASE m = 0
    BY <1>1, <2>2, <2>3
  <2>4. CASE m - 1 \in Nat /\ m - 1 \notin Bad
    <3>1. PICK g : Steps(g, m - 1)
      BY <2>4
    <3>2. \E h : Steps(h, (m - 1) + 1)
      BY <1>2, <2>4, <3>1
    <3> QED
      BY <2>2, <3>2
  <2> QED
    BY <2>2, <2>3, <2>4
<1> QED
  BY <1>3 DEF Stepping

-----------------------------------------------------------------------------
\* What FlattenSeq computes by recursion: the first i sequences joined.
Joined(g, ss, n) == g = [i \in 1 .. n |-> IF i = 1 THEN ss[i] ELSE g[i - 1] \o ss[i]]

\* The beginnings of a sequence of sequences can be joined one by one.
LEMMA JoinedExists ==
  ASSUME NEW ss, NEW n \in Nat
  PROVE  \E g : Joined(g, ss, n)
<1> DEFINE Bad == {m \in Nat : ~ \E g : Joined(g, ss, m)}
<1>1. Joined(<<>>, ss, 0)
  BY DEF Joined
<1>2. ASSUME NEW m \in Nat, NEW g, Joined(g, ss, m)
      PROVE  \E h : Joined(h, ss, m + 1)
  <2> DEFINE last == IF m = 0 THEN ss[1] ELSE g[m] \o ss[m + 1]
  <2> HIDE DEF last
  <2> DEFINE h == [i \in 1 .. m + 1 |-> IF i = m + 1 THEN last ELSE g[i]]
  <2>1. \A i \in 1 .. m : g[i] = IF i = 1 THEN ss[i] ELSE g[i - 1] \o ss[i]
    BY <1>2 DEF Joined
  <2>2. /\ DOMAIN h = 1 .. m + 1 /\ h[m + 1] = last
        /\ \A i \in 1 .. m : h[i] = g[i]
    OBVIOUS
  <2> HIDE DEF h
  <2>3. \A i \in 1 .. m + 1 : h[i] = IF i = 1 THEN ss[i] ELSE h[i - 1] \o ss[i]
    <3>1. ASSUME NEW i \in 1 .. m
          PROVE  h[i] = IF i = 1 THEN ss[i] ELSE h[i - 1] \o ss[i]
      <4>1. i # 1 => i - 1 \in 1 .. m
        OBVIOUS
      <4> QED
        BY <2>1, <2>2, <4>1
    <3>2. h[m + 1] = IF m + 1 = 1 THEN ss[m + 1] ELSE h[(m + 1) - 1] \o ss[m + 1]
      <4>1. CASE m = 0
        BY <2>2, <4>1 DEF last
      <4>2. CASE m # 0
        <5>1. m \in 1 .. m /\ (m + 1) - 1 = m /\ m + 1 # 1
          BY <4>2
        <5> QED
          BY <2>2, <4>2, <5>1 DEF last
      <4> QED
        BY <4>1, <4>2
    <3>3. \A i \in 1 .. m + 1 : i \in 1 .. m \/ i = m + 1
      OBVIOUS
    <3> QED
      BY <3>1, <3>2, <3>3
  <2>4. h = [i \in 1 .. m + 1 |-> IF i = 1 THEN ss[i] ELSE h[i - 1] \o ss[i]]
    <3>1. h = [i \in 1 .. m + 1 |-> h[i]]
      BY <2>2 DEF h
    <3> QED
      BY <2>3, <3>1
  <2> QED
    BY <2>4 DEF Joined
<1>3. Bad = {}
  <2>1. SUFFICES ASSUME Bad # {} PROVE FALSE
    OBVIOUS
  <2>2. PICK m \in Bad : m = 0 \/ (m - 1 \in Nat /\ m - 1 \notin Bad)
    BY <2>1, FirstFailure
  <2>3. CASE m - 1 \in Nat /\ m - 1 \notin Bad
    <3>1. PICK g : Joined(g, ss, m - 1)
      BY <2>3
    <3>2. \E h : Joined(h, ss, (m - 1) + 1)
      BY <1>2, <2>3, <3>1
    <3> QED
      BY <2>2, <3>2
  <2> QED
    BY <1>1, <2>2, <2>3
<1> QED
  BY <1>3

\* What is joined is determined by what it is made of.
LEMMA JoinedSame ==
  ASSUME NEW g, NEW ss, NEW n \in Nat, Joined(g, ss, n),
         NEW h, NEW tt, NEW m \in Nat, Joined(h, tt, m),
         NEW k \in 1 .. n, k <= m, \A i \in 1 .. k : ss[i] = tt[i]
  PROVE  g[k] = h[k]
<1> DEFINE Bad == {i \in 1 .. k : g[i] # h[i]}
<1>1. /\ \A i \in 1 .. n : g[i] = IF i = 1 THEN ss[i] ELSE g[i - 1] \o ss[i]
      /\ \A i \in 1 .. m : h[i] = IF i = 1 THEN tt[i] ELSE h[i - 1] \o tt[i]
  BY DEF Joined
<1>2. SUFFICES ASSUME Bad # {} PROVE FALSE
  OBVIOUS
<1>3. PICK i \in Bad : \A j \in Bad : i <= j
  <2>1. Bad \in SUBSET Nat
    OBVIOUS
  <2> HIDE DEF Bad
  <2> QED
    BY <1>2, <2>1, LeastNumber
<1>4. i \in 1 .. n /\ i \in 1 .. m /\ i \in 1 .. k /\ g[i] # h[i]
  OBVIOUS
<1>5. i # 1 => i - 1 \in 1 .. k /\ g[i - 1] = h[i - 1]
  BY <1>3, <1>4
<1> QED
  BY <1>1, <1>4, <1>5

\* It is a sequence of the elements of its parts.
LEMMA JoinedType ==
  ASSUME NEW S, NEW g, NEW ss \in Seq(Seq(S)), Joined(g, ss, Len(ss)), NEW k \in 1 .. Len(ss)
  PROVE  g[k] \in Seq(S)
<1> DEFINE Bad == {i \in 1 .. Len(ss) : g[i] \notin Seq(S)}
<1>0. \A i \in 1 .. Len(ss) : ss[i] \in Seq(S)
  OBVIOUS
<1>1. \A i \in 1 .. Len(ss) : g[i] = IF i = 1 THEN ss[i] ELSE g[i - 1] \o ss[i]
  BY Zenon DEF Joined
<1>2. SUFFICES ASSUME Bad # {} PROVE FALSE
  OBVIOUS
<1>3. PICK i \in Bad : \A j \in Bad : i <= j
  <2>1. Bad \in SUBSET Nat
    OBVIOUS
  <2> HIDE DEF Bad
  <2> QED
    BY <1>2, <2>1, LeastNumber
<1>4. i \in 1 .. Len(ss) /\ g[i] \notin Seq(S)
  OBVIOUS
<1>5. i # 1 => i - 1 \in 1 .. Len(ss) /\ g[i - 1] \in Seq(S)
  BY <1>3, <1>4
<1>6. CASE i = 1
  BY <1>0, <1>1, <1>4, <1>6
<1>7. CASE i # 1
  <2>1. g[i] = g[i - 1] \o ss[i]
    BY <1>1, <1>4, <1>7
  <2>2. g[i - 1] \in Seq(S) /\ ss[i] \in Seq(S)
    BY <1>0, <1>4, <1>5, <1>7
  <2>3. g[i - 1] \o ss[i] \in Seq(S)
    BY <2>2, ConcatProperties, Zenon
  <2> QED
    BY <1>4, <2>1, <2>3
<1> QED
  BY <1>6, <1>7

\* FlattenSeq is the last of the joined beginnings.
LEMMA FlattenIs ==
  ASSUME NEW S, NEW ss \in Seq(Seq(S)), ss # <<>>
  PROVE  \E g : Joined(g, ss, Len(ss)) /\ FlattenSeq(ss) = g[Len(ss)] /\ FlattenSeq(ss) \in Seq(S)
<1> DEFINE g == CHOOSE g : Joined(g, ss, Len(ss))
<1>1. Len(ss) \in Nat /\ Len(ss) # 0
  OBVIOUS
<1>2. Joined(g, ss, Len(ss))
  BY <1>1, JoinedExists
<1>3. FlattenSeq(ss) = g[Len(ss)]
  BY <1>1 DEF FlattenSeq, Joined
<1>4. g[Len(ss)] \in Seq(S)
  <2> HIDE DEF g
  <2> QED
    BY <1>1, <1>2, JoinedType
<1> QED
  BY <1>2, <1>3, <1>4

\* FlattenSeq gives a sequence of the elements of the parts.
LEMMA FlattenType ==
  ASSUME NEW S, NEW ss \in Seq(Seq(S))
  PROVE  FlattenSeq(ss) \in Seq(S)
<1>1. CASE ss = <<>>
  BY <1>1 DEF FlattenSeq
<1>2. CASE ss # <<>>
  BY <1>2, FlattenIs
<1> QED
  BY <1>1, <1>2

\* A part more at the end.
LEMMA FlattenAppend ==
  ASSUME NEW S, NEW ss \in Seq(Seq(S)), NEW s \in Seq(S)
  PROVE  FlattenSeq(Append(ss, s)) = FlattenSeq(ss) \o s
<1> DEFINE tt == Append(ss, s)  n == Len(ss)
<1>1. tt \in Seq(Seq(S)) /\ tt # <<>> /\ Len(tt) = n + 1 /\ n \in Nat /\ tt[n + 1] = s
      /\ \A i \in 1 .. n : tt[i] = ss[i]
  BY AppendProperties
<1> HIDE DEF tt
<1>2. PICK h : Joined(h, tt, n + 1) /\ FlattenSeq(tt) = h[n + 1]
  BY <1>1, FlattenIs
<1>3. h[n + 1] = IF n + 1 = 1 THEN s ELSE h[n] \o s
  <2>1. n + 1 \in 1 .. n + 1 /\ (n + 1) - 1 = n
    BY <1>1
  <2>2. \A i \in 1 .. n + 1 : h[i] = IF i = 1 THEN tt[i] ELSE h[i - 1] \o tt[i]
    BY <1>2, Zenon DEF Joined
  <2>3. h[n + 1] = IF n + 1 = 1 THEN tt[n + 1] ELSE h[(n + 1) - 1] \o tt[n + 1]
    BY <2>1, <2>2, Zenon
  <2> QED
    BY <1>1, <2>1, <2>3, Zenon
<1>4. CASE ss = <<>>
  BY <1>2, <1>3, <1>4, ConcatEmptySeq DEF FlattenSeq, tt
<1>5. CASE ss # <<>>
  <2>1. PICK g : Joined(g, ss, n) /\ FlattenSeq(ss) = g[n]
    BY <1>5, FlattenIs
  <2>2. n \in 1 .. n /\ n + 1 # 1 /\ n \in Nat /\ n + 1 \in Nat /\ n <= n + 1
        /\ \A i \in 1 .. n : ss[i] = tt[i]
    BY <1>1, <1>5
  <2>3. g[n] = h[n]
    <3> HIDE DEF n
    <3> QED
      BY <1>2, <2>1, <2>2, JoinedSame
  <2> QED
    BY <1>2, <1>3, <2>1, <2>2, <2>3 DEF tt
<1> QED
  BY <1>4, <1>5

\* One part alone.
LEMMA FlattenOne ==
  ASSUME NEW S, NEW s \in Seq(S)
  PROVE  FlattenSeq(<<s>>) = s
<1>1. <<>> \in Seq(Seq(S)) /\ Append(<<>>, s) = <<s>> /\ FlattenSeq(<<>>) = <<>>
  BY DEF FlattenSeq
<1>2. FlattenSeq(Append(<<>>, s)) = <<>> \o s
  BY <1>1, FlattenAppend, Zenon
<1> QED
  BY <1>1, <1>2, ConcatEmptySeq, Zenon

\* A part more at the front.
LEMMA FlattenFirst ==
  ASSUME NEW S, NEW s \in Seq(S), NEW ss \in Seq(Seq(S))
  PROVE  FlattenSeq(<<s>> \o ss) = s \o FlattenSeq(ss)
<1> DEFINE Holds(tt) == FlattenSeq(<<s>> \o tt) = s \o FlattenSeq(tt)
           Bad == {n \in Nat : \E tt \in Seq(Seq(S)) : Len(tt) = n /\ ~Holds(tt)}
<1>1. ASSUME NEW tt \in Seq(Seq(S)), tt = <<>>
      PROVE  Holds(tt)
  <2>1. <<s>> \o tt = <<s>> /\ FlattenSeq(tt) = <<>>
    BY <1>1 DEF FlattenSeq
  <2> QED
    BY <2>1, FlattenOne, ConcatEmptySeq
<1>2. ASSUME NEW tt \in Seq(Seq(S)), NEW t \in Seq(S), Holds(tt)
      PROVE  Holds(Append(tt, t))
  <2>1. <<s>> \o Append(tt, t) = Append(<<s>> \o tt, t) /\ <<s>> \o tt \in Seq(Seq(S))
    OBVIOUS
  <2>2. FlattenSeq(<<s>> \o Append(tt, t)) = (s \o FlattenSeq(tt)) \o t
    BY <1>2, <2>1, FlattenAppend
  <2>3. FlattenSeq(tt) \in Seq(S)
    BY FlattenType
  <2>4. (s \o FlattenSeq(tt)) \o t = s \o (FlattenSeq(tt) \o t)
    BY <2>3, ConcatAssociative, SMTT(60)
  <2> QED
    BY <2>2, <2>4, FlattenAppend
<1> HIDE DEF Holds
<1>3. Bad = {}
  <2>1. SUFFICES ASSUME Bad # {} PROVE FALSE
    OBVIOUS
  <2>2. PICK n \in Bad : n = 0 \/ (n - 1 \in Nat /\ n - 1 \notin Bad)
    BY <2>1, FirstFailure
  <2>3. PICK tt \in Seq(Seq(S)) : Len(tt) = n /\ ~Holds(tt)
    OBVIOUS
  <2>4. tt # <<>>
    BY <1>1, <2>3
  <2>5. PICK uu \in Seq(Seq(S)), t \in Seq(S) : tt = Append(uu, t)
    BY <2>4, SequenceEmptyOrAppend
  <2>6. Len(uu) = n - 1 /\ n # 0
    BY <2>3, <2>5
  <2>7. Holds(uu)
    BY <2>2, <2>6
  <2> QED
    BY <1>2, <2>3, <2>5, <2>7
<1>4. Holds(ss)
  <2>1. Len(ss) \in Nat /\ Len(ss) \notin Bad
    BY <1>3
  <2> QED
    BY <2>1
<1> QED
  BY <1>4 DEF Holds

\* One more sequence at the end, and one more at the beginning.
LEMMA FlattenLast ==
  ASSUME NEW S, NEW ss \in Seq(Seq(S)), NEW tt \in Seq(Seq(S)),
         Len(ss) = Len(tt) + 1, \A i \in 1 .. Len(tt) : ss[i] = tt[i]
  PROVE  FlattenSeq(ss) = FlattenSeq(tt) \o ss[Len(ss)] /\ ss[Len(ss)] \in Seq(S)
<1> DEFINE s == ss[Len(ss)]
<1>1. s \in Seq(S)
  OBVIOUS
<1>2. ss = Append(tt, s)
  <2>1. Append(tt, s) \in Seq(Seq(S)) /\ Len(Append(tt, s)) = Len(ss)
        /\ \A i \in 1 .. Len(tt) : Append(tt, s)[i] = tt[i]
        /\ Append(tt, s)[Len(tt) + 1] = s
    BY <1>1, AppendProperties
  <2> HIDE DEF s
  <2>2. \A i \in 1 .. Len(ss) : ss[i] = Append(tt, s)[i]
    BY <2>1 DEF s
  <2> QED
    BY <2>1, <2>2, SeqEqual
<1> QED
  BY <1>1, <1>2, FlattenAppend

\* The same, the sequences given by their elements.
LEMMA FlattenHead ==
  ASSUME NEW S, NEW ss \in Seq(Seq(S)), NEW tt \in Seq(Seq(S)),
         Len(ss) = Len(tt) + 1, \A i \in 1 .. Len(tt) : ss[i + 1] = tt[i]
  PROVE  FlattenSeq(ss) = ss[1] \o FlattenSeq(tt) /\ ss[1] \in Seq(S)
<1> DEFINE s == ss[1]
           uu == <<s>> \o tt
<1>1. s \in Seq(S)
  OBVIOUS
<1>2. uu \in Seq(Seq(S)) /\ Len(uu) = Len(ss) /\ uu[1] = s
      /\ \A i \in 1 .. Len(tt) : uu[i + 1] = tt[i]
  BY <1>1
<1> HIDE DEF uu
<1>3. \A i \in 1 .. Len(ss) : ss[i] = uu[i]
  <2> TAKE i \in 1 .. Len(ss)
  <2>1. CASE i = 1
    BY <1>2, <2>1
  <2>2. CASE i # 1
    <3>1. i - 1 \in 1 .. Len(tt) /\ (i - 1) + 1 = i
      BY <2>2
    <3> QED
      BY <1>2, <3>1
  <2> QED
    BY <2>1, <2>2
<1>4. ss = uu
  BY <1>2, <1>3, SeqEqual
<1> QED
  BY <1>1, <1>4, FlattenFirst DEF uu

-----------------------------------------------------------------------------
\* A sequence without repetitions.
Distinct(s) == \A i, j \in 1 .. Len(s) : s[i] = s[j] => i = j
\* Sequences that have no element twice, nor one in common.
Apart(ss) ==
    \A i, j \in 1 .. Len(ss) : \A k \in 1 .. Len(ss[i]), l \in 1 .. Len(ss[j]) :
       ss[i][k] = ss[j][l] => i = j /\ k = l

\* The elements of a sequence stand at its places.
LEMMA ToSetPlaces ==
  ASSUME NEW S, NEW s \in Seq(S)
  PROVE  /\ \A i \in 1 .. Len(s) : s[i] \in ToSet(s)
         /\ \A x \in ToSet(s) : \E i \in 1 .. Len(s) : x = s[i]
         /\ ToSet(s) \subseteq S
<1>1. DOMAIN s = 1 .. Len(s) /\ \A i \in 1 .. Len(s) : s[i] \in S
  OBVIOUS
<1> QED
  BY <1>1 DEF ToSet

\* The elements of one sequence after another.
LEMMA ConcatElements ==
  ASSUME NEW S, NEW s \in Seq(S), NEW t \in Seq(S)
  PROVE  ToSet(s \o t) = ToSet(s) \cup ToSet(t)
<1>1. /\ s \o t \in Seq(S) /\ Len(s \o t) = Len(s) + Len(t)
      /\ \A i \in 1 .. Len(s) : (s \o t)[i] = s[i]
      /\ \A i \in 1 .. Len(t) : (s \o t)[Len(s) + i] = t[i]
  OBVIOUS
<1> DEFINE u == s \o t
<1> HIDE DEF u
<1>2. ASSUME NEW i \in 1 .. Len(u)
      PROVE  u[i] \in ToSet(s) \cup ToSet(t)
  <2>1. CASE i \in 1 .. Len(s)
    BY <1>1, <2>1 DEF u, ToSet
  <2>2. CASE i \notin 1 .. Len(s)
    <3>1. i - Len(s) \in 1 .. Len(t) /\ Len(s) + (i - Len(s)) = i
      BY <1>1, <2>2 DEF u
    <3> QED
      BY <1>1, <3>1 DEF u, ToSet
  <2> QED
    BY <2>1, <2>2
<1>3. ASSUME NEW i \in 1 .. Len(s)
      PROVE  i \in 1 .. Len(u) /\ u[i] = s[i]
  BY <1>1 DEF u
<1>4. ASSUME NEW i \in 1 .. Len(t)
      PROVE  Len(s) + i \in 1 .. Len(u) /\ u[Len(s) + i] = t[i]
  BY <1>1 DEF u
<1>5. u \in Seq(S)
  BY <1>1 DEF u
<1>6. ToSet(u) \subseteq ToSet(s) \cup ToSet(t)
  BY <1>2, <1>5, ToSetPlaces
<1>7. ToSet(s) \subseteq ToSet(u)
  <2> SUFFICES ASSUME NEW x \in ToSet(s) PROVE x \in ToSet(u)
    OBVIOUS
  <2>1. PICK i \in 1 .. Len(s) : x = s[i]
    BY ToSetPlaces
  <2> QED
    BY <1>3, <1>5, <2>1, ToSetPlaces
<1>8. ToSet(t) \subseteq ToSet(u)
  <2> SUFFICES ASSUME NEW x \in ToSet(t) PROVE x \in ToSet(u)
    OBVIOUS
  <2>1. PICK i \in 1 .. Len(t) : x = t[i]
    BY ToSetPlaces
  <2> QED
    BY <1>4, <1>5, <2>1, ToSetPlaces
<1> QED
  BY <1>6, <1>7, <1>8 DEF u

\* Two sequences that have no element in common, one after the other.
LEMMA ConcatDistinct ==
  ASSUME NEW S, NEW s \in Seq(S), NEW t \in Seq(S), Distinct(s), Distinct(t),
         ToSet(s) \cap ToSet(t) = {}
  PROVE  Distinct(s \o t)
<1> DEFINE u == s \o t
<1>1. /\ u \in Seq(S) /\ Len(u) = Len(s) + Len(t)
      /\ \A i \in 1 .. Len(s) : u[i] = s[i]
      /\ \A i \in 1 .. Len(t) : u[Len(s) + i] = t[i]
  OBVIOUS
<1> HIDE DEF u
<1>2. \A i \in 1 .. Len(u) : \/ i \in 1 .. Len(s) /\ u[i] = s[i] /\ u[i] \in ToSet(s)
                             \/ /\ i - Len(s) \in 1 .. Len(t) /\ u[i] = t[i - Len(s)]
                                /\ u[i] \in ToSet(t)
  <2> TAKE i \in 1 .. Len(u)
  <2>1. CASE i \in 1 .. Len(s)
    BY <1>1, <2>1, ToSetPlaces
  <2>2. CASE i \notin 1 .. Len(s)
    <3>1. i - Len(s) \in 1 .. Len(t) /\ Len(s) + (i - Len(s)) = i
      BY <1>1, <2>2
    <3> QED
      BY <1>1, <3>1, ToSetPlaces
  <2> QED
    BY <2>1, <2>2
<1>3. ASSUME NEW i \in 1 .. Len(u), NEW j \in 1 .. Len(u), u[i] = u[j]
      PROVE  i = j
  <2>1. CASE i \in 1 .. Len(s) /\ u[i] = s[i] /\ u[i] \in ToSet(s)
    <3>1. j \in 1 .. Len(s) /\ u[j] = s[j]
      BY <1>2, <1>3, <2>1
    <3> QED
      BY <1>3, <2>1, <3>1 DEF Distinct
  <2>2. CASE i - Len(s) \in 1 .. Len(t) /\ u[i] = t[i - Len(s)] /\ u[i] \in ToSet(t)
    <3>1. j - Len(s) \in 1 .. Len(t) /\ u[j] = t[j - Len(s)]
      BY <1>2, <1>3, <2>2
    <3>2. i - Len(s) = j - Len(s)
      BY <1>3, <2>2, <3>1 DEF Distinct
    <3> QED
      BY <3>2
  <2> QED
    BY <1>2, <2>1, <2>2
<1> QED
  BY <1>3 DEF u, Distinct

\* All elements of the sequences.
Joint(ss) == UNION {ToSet(ss[i]) : i \in 1 .. Len(ss)}

\* Every element of one of the sequences is among them.
LEMMA InJoint ==
  ASSUME NEW ss, NEW i \in 1 .. Len(ss)
  PROVE  ToSet(ss[i]) \subseteq Joint(ss)
BY Zenon DEF Joint

\* They are within a set that has the elements of each of the sequences.
LEMMA JointWithin ==
  ASSUME NEW ss, NEW X, \A i \in 1 .. Len(ss) : ToSet(ss[i]) \subseteq X
  PROVE  Joint(ss) \subseteq X
BY Zenon DEF Joint

\* The elements of a sequence of sequences that are joined: none is lost or new.
LEMMA FlattenElements ==
  ASSUME NEW S, NEW ss \in Seq(Seq(S))
  PROVE  ToSet(FlattenSeq(ss)) = Joint(ss)
<1> DEFINE Holds(tt) == ToSet(FlattenSeq(tt)) = Joint(tt)
           Bad == {n \in Nat : \E tt \in Seq(Seq(S)) : Len(tt) = n /\ ~Holds(tt)}
<1>1. ASSUME NEW tt \in Seq(Seq(S)), tt = <<>>
      PROVE  Holds(tt)
  BY <1>1 DEF FlattenSeq, ToSet, Joint
<1>2. ASSUME NEW tt \in Seq(Seq(S)), NEW t \in Seq(S), Holds(tt)
      PROVE  Holds(Append(tt, t))
  <2>1. FlattenSeq(Append(tt, t)) = FlattenSeq(tt) \o t /\ FlattenSeq(tt) \in Seq(S)
    BY FlattenAppend, FlattenType
  <2>2. ToSet(FlattenSeq(Append(tt, t))) = Joint(tt) \cup ToSet(t)
    BY <1>2, <2>1, ConcatElements
  <2>3. /\ Len(Append(tt, t)) = Len(tt) + 1 /\ Append(tt, t)[Len(tt) + 1] = t
        /\ \A i \in 1 .. Len(tt) : Append(tt, t)[i] = tt[i]
    OBVIOUS
  <2>4. Joint(Append(tt, t)) = Joint(tt) \cup ToSet(t)
    <3> DEFINE u == Append(tt, t)
    <3> HIDE DEF u
    <3>1. \A i \in 1 .. Len(tt) + 1 : i \in 1 .. Len(tt) \/ i = Len(tt) + 1
      OBVIOUS
    <3>2. \A i \in 1 .. Len(tt) : i \in 1 .. Len(tt) + 1
      OBVIOUS
    <3>3. Len(tt) + 1 \in 1 .. Len(tt) + 1
      OBVIOUS
    <3>4. Len(u) = Len(tt) + 1 /\ u[Len(tt) + 1] = t /\ \A i \in 1 .. Len(tt) : u[i] = tt[i]
      BY <2>3 DEF u
    <3>5. Joint(u) = Joint(tt) \cup ToSet(t)
      <4> DEFINE Part(i) == ToSet(u[i])
      <4>1. \A i \in 1 .. Len(tt) : Part(i) = ToSet(tt[i])
        BY <3>4
      <4>2. Part(Len(tt) + 1) = ToSet(t)
        BY <3>4
      <4>3. Joint(u) = UNION {Part(i) : i \in 1 .. Len(tt) + 1}
        BY <3>4 DEF Joint
      <4> HIDE DEF Part
      <4> QED
        BY <3>1, <3>2, <3>3, <4>1, <4>2, <4>3 DEF Joint
    <3> QED
      BY <3>5 DEF u
  <2> QED
    BY <2>2, <2>4
<1> HIDE DEF Holds
<1>3. Bad = {}
  <2>1. SUFFICES ASSUME Bad # {} PROVE FALSE
    OBVIOUS
  <2>2. PICK n \in Bad : n = 0 \/ (n - 1 \in Nat /\ n - 1 \notin Bad)
    BY <2>1, FirstFailure
  <2>3. PICK tt \in Seq(Seq(S)) : Len(tt) = n /\ ~Holds(tt)
    OBVIOUS
  <2>4. tt # <<>>
    BY <1>1, <2>3
  <2>5. PICK uu \in Seq(Seq(S)), t \in Seq(S) : tt = Append(uu, t)
    BY <2>4, SequenceEmptyOrAppend
  <2>6. Len(uu) = n - 1 /\ n # 0
    BY <2>3, <2>5
  <2>7. Holds(uu)
    BY <2>2, <2>6
  <2> QED
    BY <1>2, <2>3, <2>5, <2>7
<1>4. Holds(ss)
  BY <1>3
<1> QED
  BY <1>4 DEF Holds

\* Sequences without a repetition or a common element, joined.
LEMMA FlattenDistinct ==
  ASSUME NEW S, NEW ss \in Seq(Seq(S)), Apart(ss)
  PROVE  Distinct(FlattenSeq(ss))
<1> DEFINE Holds(tt) == Apart(tt) => Distinct(FlattenSeq(tt))
           Bad == {n \in Nat : \E tt \in Seq(Seq(S)) : Len(tt) = n /\ ~Holds(tt)}
<1>1. ASSUME NEW tt \in Seq(Seq(S)), tt = <<>>
      PROVE  Holds(tt)
  BY <1>1 DEF FlattenSeq, Distinct
<1>2. ASSUME NEW tt \in Seq(Seq(S)), NEW t \in Seq(S), Holds(tt), Apart(Append(tt, t))
      PROVE  Distinct(FlattenSeq(Append(tt, t)))
  <2> DEFINE u == Append(tt, t)  n == Len(tt)
  <2>1. /\ n \in Nat /\ Len(u) = n + 1 /\ u[n + 1] = t
        /\ \A i \in 1 .. n : u[i] = tt[i]
    OBVIOUS
  <2> HIDE DEF u
  <2>2. Apart(tt)
    <3>1. \A i \in 1 .. n : i \in 1 .. Len(u) /\ u[i] = tt[i]
      BY <2>1
    <3> QED
      BY <1>2, <3>1 DEF Apart, u
  <2>3. Distinct(t)
    <3>1. n + 1 \in 1 .. Len(u) /\ Apart(u)
      BY <1>2, <2>1 DEF u
    <3>2. \A k, l \in 1 .. Len(u[n + 1]) : u[n + 1][k] = u[n + 1][l] => k = l
      BY <3>1, ZenonT(30) DEF Apart
    <3> QED
      BY <2>1, <3>2 DEF Distinct
  <2>4. Joint(tt) \cap ToSet(t) = {}
    <3> SUFFICES ASSUME NEW i \in 1 .. n, NEW x \in ToSet(tt[i]), x \in ToSet(t)
                 PROVE  FALSE
      BY DEF Joint
    <3>1. tt[i] \in Seq(S)
      OBVIOUS
    <3>2. PICK k \in 1 .. Len(tt[i]) : x = tt[i][k]
      BY <3>1, ToSetPlaces
    <3>3. PICK l \in 1 .. Len(t) : x = t[l]
      BY ToSetPlaces
    <3>4. i \in 1 .. Len(u) /\ n + 1 \in 1 .. Len(u) /\ u[i] = tt[i] /\ u[n + 1] = t /\ i # n + 1
      BY <2>1
    <3> QED
      <4>1. k \in 1 .. Len(u[i]) /\ l \in 1 .. Len(u[n + 1]) /\ u[i][k] = u[n + 1][l]
        BY <3>2, <3>3, <3>4
      <4>2. Apart(u)
        BY <1>2 DEF u
      <4> QED
        BY <3>4, <4>1, <4>2, Zenon DEF Apart
  <2>5. FlattenSeq(u) = FlattenSeq(tt) \o t /\ FlattenSeq(tt) \in Seq(S)
    BY FlattenAppend, FlattenType DEF u
  <2>6. ToSet(FlattenSeq(tt)) = Joint(tt)
    BY FlattenElements
  <2> QED
    BY <1>2, <2>2, <2>3, <2>4, <2>5, <2>6, ConcatDistinct DEF u
<1> HIDE DEF Holds
<1>3. Bad = {}
  <2>1. SUFFICES ASSUME Bad # {} PROVE FALSE
    OBVIOUS
  <2>2. PICK n \in Bad : n = 0 \/ (n - 1 \in Nat /\ n - 1 \notin Bad)
    BY <2>1, FirstFailure
  <2>3. PICK tt \in Seq(Seq(S)) : Len(tt) = n /\ ~Holds(tt)
    OBVIOUS
  <2>4. tt # <<>>
    BY <1>1, <2>3
  <2>5. PICK uu \in Seq(Seq(S)), t \in Seq(S) : tt = Append(uu, t)
    BY <2>4, SequenceEmptyOrAppend
  <2>6. Len(uu) = n - 1 /\ n # 0
    BY <2>3, <2>5
  <2>7. Holds(uu)
    BY <2>2, <2>6
  <2>8. Holds(tt)
    BY <1>2, <2>5, <2>7 DEF Holds
  <2> QED
    BY <2>3, <2>8
<1>4. Holds(ss)
  BY <1>3
<1> QED
  BY <1>4 DEF Holds

\* Of two parts that have nothing in common.
LEMMA ConcatApart ==
  ASSUME NEW S, NEW ss \in Seq(Seq(S)), NEW tt \in Seq(Seq(S)), Apart(ss), Apart(tt),
         Joint(ss) \cap Joint(tt) = {}
  PROVE  Apart(ss \o tt) /\ Joint(ss \o tt) = Joint(ss) \cup Joint(tt)
<1> DEFINE u == ss \o tt  m == Len(ss)
<1>1. /\ u \in Seq(Seq(S)) /\ m \in Nat /\ Len(tt) \in Nat /\ Len(u) = m + Len(tt)
      /\ \A i \in 1 .. m : u[i] = ss[i]
      /\ \A i \in 1 .. Len(tt) : u[m + i] = tt[i]
  OBVIOUS
<1> HIDE DEF u
<1>2. \A i \in 1 .. Len(u) : \/ i \in 1 .. m /\ u[i] = ss[i]
                             \/ i - m \in 1 .. Len(tt) /\ u[i] = tt[i - m]
  <2> TAKE i \in 1 .. Len(u)
  <2>1. CASE i \in 1 .. m
    BY <1>1, <2>1
  <2>2. CASE i \notin 1 .. m
    <3>1. i - m \in 1 .. Len(tt) /\ m + (i - m) = i
      BY <1>1, <2>2
    <3> QED
      BY <1>1, <3>1
  <2> QED
    BY <2>1, <2>2
<1>3. \A i \in 1 .. m : \A k \in 1 .. Len(ss[i]) : ss[i][k] \in Joint(ss)
  <2> TAKE i \in 1 .. m
  <2>1. ss[i] \in Seq(S)
    OBVIOUS
  <2>2. \A k \in 1 .. Len(ss[i]) : ss[i][k] \in ToSet(ss[i])
    BY <2>1, ToSetPlaces
  <2> QED
    BY <2>2 DEF Joint
<1>4. \A i \in 1 .. Len(tt) : \A k \in 1 .. Len(tt[i]) : tt[i][k] \in Joint(tt)
  <2> TAKE i \in 1 .. Len(tt)
  <2>1. tt[i] \in Seq(S)
    OBVIOUS
  <2>2. \A k \in 1 .. Len(tt[i]) : tt[i][k] \in ToSet(tt[i])
    BY <2>1, ToSetPlaces
  <2> QED
    BY <2>2 DEF Joint
<1>5. ASSUME NEW i \in 1 .. Len(u), NEW j \in 1 .. Len(u),
             NEW k \in 1 .. Len(u[i]), NEW l \in 1 .. Len(u[j]), u[i][k] = u[j][l]
      PROVE  i = j /\ k = l
  <2>1. CASE i \in 1 .. m /\ u[i] = ss[i]
    <3>1. u[i][k] \in Joint(ss)
      BY <1>3, <2>1
    <3>2. j \in 1 .. m /\ u[j] = ss[j]
      BY <1>2, <1>4, <1>5, <3>1
    <3> QED
      BY <1>5, <2>1, <3>2 DEF Apart
  <2>2. CASE i - m \in 1 .. Len(tt) /\ u[i] = tt[i - m]
    <3>1. u[i][k] \in Joint(tt)
      BY <1>4, <2>2
    <3>2. j - m \in 1 .. Len(tt) /\ u[j] = tt[j - m]
      BY <1>2, <1>3, <1>5, <3>1
    <3>3. i - m = j - m /\ k = l
      <4> DEFINE p == i - m  q == j - m
      <4>1. p \in 1 .. Len(tt) /\ q \in 1 .. Len(tt) /\ k \in 1 .. Len(tt[p])
               /\ l \in 1 .. Len(tt[q])
            /\ tt[p][k] = tt[q][l]
        BY <1>5, <2>2, <3>2
      <4> HIDE DEF p, q
      <4>2. p = q /\ k = l
        BY <4>1 DEF Apart
      <4> QED
        BY <4>2 DEF p, q
    <3> QED
      BY <1>1, <3>3
  <2> QED
    BY <1>2, <2>1, <2>2
<1>6. Apart(u)
  BY <1>5, Zenon DEF Apart
<1>7. Joint(u) = Joint(ss) \cup Joint(tt)
  <2>1. \A i \in 1 .. m : i \in 1 .. Len(u) /\ ToSet(u[i]) = ToSet(ss[i])
    BY <1>1
  <2>2. \A i \in 1 .. Len(tt) : m + i \in 1 .. Len(u) /\ ToSet(u[m + i]) = ToSet(tt[i])
    BY <1>1
  <2>3. \A i \in 1 .. Len(u) : \/ i \in 1 .. m /\ ToSet(u[i]) = ToSet(ss[i])
                               \/ i - m \in 1 .. Len(tt) /\ ToSet(u[i]) = ToSet(tt[i - m])
    BY <1>2
  <2>4. Joint(u) \subseteq Joint(ss) \cup Joint(tt)
    BY <2>3 DEF Joint
  <2>5. Joint(ss) \subseteq Joint(u)
    <3>1. ASSUME NEW i \in 1 .. Len(ss)
          PROVE  ToSet(ss[i]) \subseteq Joint(u)
      <4>1. i \in 1 .. Len(u) /\ ToSet(u[i]) = ToSet(ss[i])
        BY <2>1
      <4> QED
        BY <4>1, InJoint
    <3> QED
      BY <3>1, JointWithin
  <2>6. Joint(tt) \subseteq Joint(u)
    <3>1. ASSUME NEW i \in 1 .. Len(tt)
          PROVE  ToSet(tt[i]) \subseteq Joint(u)
      <4>1. PICK j : j = m + i
        OBVIOUS
      <4>2. j \in 1 .. Len(u) /\ ToSet(u[j]) = ToSet(tt[i])
        BY <2>2, <4>1
      <4> HIDE DEF u
      <4> QED
        BY <4>2, InJoint
    <3> QED
      BY <3>1, JointWithin
  <2> QED
    BY <2>4, <2>5, <2>6
<1> QED
  BY <1>6, <1>7 DEF u

\* A sequence without a repetition has as many elements as places.
LEMMA DistinctCount ==
  ASSUME NEW S, NEW s \in Seq(S), Distinct(s)
  PROVE  IsFiniteSet(ToSet(s)) /\ Cardinality(ToSet(s)) = Len(s)
<1>1. s \in Bijection(1 .. Len(s), ToSet(s))
  <2>1. s \in [1 .. Len(s) -> ToSet(s)]
    BY DEF ToSet
  <2>2. \A x \in ToSet(s) : \E i \in 1 .. Len(s) : s[i] = x
    BY DEF ToSet
  <2> QED
    BY <2>1, <2>2 DEF Bijection, Injection, Surjection, IsInjective, Distinct
<1>2. IsFiniteSet(1 .. Len(s)) /\ Cardinality(1 .. Len(s)) = Len(s)
  <2>1. 1 \in Int /\ Len(s) \in Int /\ Len(s) \in Nat
    OBVIOUS
  <2>2. IsFiniteSet(1 .. Len(s)) /\ Cardinality(1 .. Len(s))
           = IF 1 > Len(s) THEN 0 ELSE Len(s) - 1 + 1
    BY <2>1, FS_Interval, Zenon
  <2> QED
    BY <2>1, <2>2
<1>3. ExistsBijection(1 .. Len(s), ToSet(s))
  BY <1>1 DEF ExistsBijection
<1> QED
  BY <1>2, <1>3, FS_Bijection

\* All elements but the last.
LEMMA AllButLast ==
  ASSUME NEW S, NEW s \in Seq(S), Len(s) \in 1 .. Len(s)
  PROVE  /\ SubSeq(s, 1, Len(s) - 1) \in Seq(S)
         /\ Len(SubSeq(s, 1, Len(s) - 1)) = Len(s) - 1
         /\ \A i \in 1 .. Len(s) - 1 : SubSeq(s, 1, Len(s) - 1)[i] = s[i]
<1> DEFINE n == Len(s) - 1
<1>1. n \in Nat /\ n <= Len(s) /\ \A i \in 1 .. n : s[i] \in S
  OBVIOUS
<1>2. SubSeq(s, 1, n) = [i \in 1 .. n |-> s[i]]
  BY <1>1
<1>3. [i \in 1 .. n |-> s[i]] \in Seq(S) /\ Len([i \in 1 .. n |-> s[i]]) = n
  BY <1>1
<1> QED
  BY <1>1, <1>2, <1>3

\* A sequence that is cut in two.
LEMMA Split ==
  ASSUME NEW S, NEW s \in Seq(S), NEW n \in 0 .. Len(s)
  PROVE  /\ SubSeq(s, 1, n) \in Seq(S) /\ Len(SubSeq(s, 1, n)) = n
         /\ \A k \in 1 .. n : SubSeq(s, 1, n)[k] = s[k]
         /\ SubSeq(s, n + 1, Len(s)) \in Seq(S) /\ Len(SubSeq(s, n + 1, Len(s))) = Len(s) - n
         /\ \A k \in 1 .. Len(s) - n : SubSeq(s, n + 1, Len(s))[k] = s[n + k]
<1>1. Len(s) \in Nat /\ n \in Nat /\ \A k \in 1 .. Len(s) : s[k] \in S
  OBVIOUS
<1> DEFINE m == Len(s) - n
<1>2. m \in Nat /\ \A k \in 1 .. m : s[n + k] \in S
  BY <1>1
<1>3. SubSeq(s, 1, n) = [k \in 1 .. n |-> s[k]]
  BY <1>1
<1>4. SubSeq(s, n + 1, Len(s)) = [k \in 1 .. m |-> s[n + k]]
  BY <1>1, <1>2
<1>5. [k \in 1 .. n |-> s[k]] \in Seq(S) /\ Len([k \in 1 .. n |-> s[k]]) = n
  BY <1>1
<1>6. [k \in 1 .. m |-> s[n + k]] \in Seq(S) /\ Len([k \in 1 .. m |-> s[n + k]]) = m
  BY <1>1, <1>2
<1> QED
  BY <1>3, <1>4, <1>5, <1>6

\* A sequence with one element put in before the p-th.
LEMMA Inserted ==
  ASSUME NEW S, NEW s \in Seq(S), NEW p \in 1 .. Len(s) + 1, NEW e \in S
  PROVE  /\ InsertAt(s, p, e) \in Seq(S) /\ Len(InsertAt(s, p, e)) = Len(s) + 1
         /\ InsertAt(s, p, e)[p] = e
         /\ \A i \in 1 .. p - 1 : InsertAt(s, p, e)[i] = s[i]
         /\ \A i \in p + 1 .. Len(s) + 1 : InsertAt(s, p, e)[i] = s[i - 1]
<1> DEFINE n == p - 1
           left == SubSeq(s, 1, n)
           right == SubSeq(s, n + 1, Len(s))
           u == (left \o <<e>>) \o right
<1>1. n \in 0 .. Len(s) /\ Len(s) \in Nat /\ p = n + 1
  OBVIOUS
<1> HIDE DEF n
<1>2. /\ left \in Seq(S) /\ Len(left) = n /\ \A k \in 1 .. n : left[k] = s[k]
      /\ right \in Seq(S) /\ Len(right) = Len(s) - n
      /\ \A k \in 1 .. Len(s) - n : right[k] = s[n + k]
  BY <1>1, Split
<1>3. InsertAt(s, p, e) = u
  <2>1. p - 1 = n
    BY <1>1
  <2> QED
    BY <1>1, <2>1 DEF InsertAt
<1> HIDE DEF left, right
<1> DEFINE v == left \o <<e>>
<1>4. /\ v \in Seq(S) /\ Len(v) = n + 1 /\ v[n + 1] = e
      /\ \A k \in 1 .. n : v[k] = s[k]
  BY <1>1, <1>2
<1> HIDE DEF v
<1>5. /\ u \in Seq(S) /\ Len(u) = Len(s) + 1
      /\ \A k \in 1 .. n + 1 : u[k] = v[k]
      /\ \A k \in n + 2 .. Len(s) + 1 : u[k] = right[k - (n + 1)]
  BY <1>1, <1>2, <1>4 DEF v
<1>6. \A k \in n + 2 .. Len(s) + 1 : u[k] = s[k - 1]
  <2> TAKE k \in n + 2 .. Len(s) + 1
  <2>1. k - (n + 1) \in 1 .. Len(s) - n /\ n + (k - (n + 1)) = k - 1
    BY <1>1
  <2> QED
    BY <1>2, <1>5, <2>1
<1>7. u[n + 1] = e /\ \A k \in 1 .. n : u[k] = s[k]
  <2>1. n + 1 \in 1 .. n + 1 /\ \A k \in 1 .. n : k \in 1 .. n + 1
    BY <1>1
  <2> QED
    BY <1>4, <1>5, <2>1
<1> HIDE DEF u
<1> QED
  BY <1>1, <1>3, <1>5, <1>6, <1>7

\* A sequence without its p-th element.
LEMMA Removed ==
  ASSUME NEW S, NEW s \in Seq(S), NEW p \in 1 .. Len(s)
  PROVE  /\ RemoveAt(s, p) \in Seq(S) /\ Len(RemoveAt(s, p)) = Len(s) - 1
         /\ \A i \in 1 .. p - 1 : RemoveAt(s, p)[i] = s[i]
         /\ \A i \in p .. Len(s) - 1 : RemoveAt(s, p)[i] = s[i + 1]
<1> DEFINE n == p - 1
           left == SubSeq(s, 1, n)
           right == SubSeq(s, p + 1, Len(s))
           u == left \o right
<1>1. n \in 0 .. Len(s) /\ p \in 0 .. Len(s) /\ Len(s) \in Nat /\ p = n + 1
  OBVIOUS
<1> HIDE DEF n
<1>2. /\ left \in Seq(S) /\ Len(left) = n /\ \A k \in 1 .. n : left[k] = s[k]
      /\ right \in Seq(S) /\ Len(right) = Len(s) - p
      /\ \A k \in 1 .. Len(s) - p : right[k] = s[p + k]
  BY <1>1, Split
<1>3. RemoveAt(s, p) = u
  <2>1. p - 1 = n
    BY <1>1
  <2> QED
    BY <1>1, <2>1 DEF RemoveAt
<1> HIDE DEF left, right
<1>4. /\ u \in Seq(S) /\ Len(u) = Len(s) - 1
      /\ \A k \in 1 .. n : u[k] = left[k]
      /\ \A k \in n + 1 .. Len(s) - 1 : u[k] = right[k - n]
  <2>1. Len(s) - p \in Nat
    BY <1>1
  <2>2. PICK m : m = Len(s) - p
    OBVIOUS
  <2>3. n \in Nat /\ m \in Nat /\ n + m = Len(s) - 1
    BY <1>1, <2>1, <2>2
  <2>4. left \in Seq(S) /\ right \in Seq(S) /\ Len(left) = n /\ Len(right) = m
    BY <1>2, <2>2
  <2>5. u \in Seq(S) /\ Len(u) = n + m
    BY <2>3, <2>4
  <2>6. \A k \in 1 .. n : u[k] = left[k]
    BY <2>3, <2>4
  <2>7. \A k \in n + 1 .. n + m : u[k] = right[k - n]
    <3> TAKE k \in n + 1 .. n + m
    <3>1. k \in 1 .. Len(left) + Len(right) /\ ~(k <= Len(left))
      BY <2>3, <2>4
    <3>2. u[k] = right[k - Len(left)]
      BY <2>4, <3>1
    <3> QED
      BY <2>4, <3>2
  <2> QED
    BY <2>3, <2>5, <2>6, <2>7
<1>5. \A k \in n + 1 .. Len(s) - 1 : u[k] = s[k + 1]
  <2> TAKE k \in n + 1 .. Len(s) - 1
  <2>1. k - n \in 1 .. Len(s) - p /\ p + (k - n) = k + 1
    BY <1>1
  <2> QED
    BY <1>2, <1>4, <2>1
<1> HIDE DEF u
<1> QED
  BY <1>1, <1>2, <1>3, <1>4, <1>5

\* Taking the first element of a list without repetitions, as Functions.IsInjective has it.
LEMMA ListTaken ==
  ASSUME NEW S, NEW s \in Seq(S), s # <<>>, IsInjective(s)
  PROVE  /\ Tail(s) \in Seq(S) /\ IsInjective(Tail(s))
         /\ Head(s) \in S /\ Head(s) \in Range(s) /\ Head(s) \notin Range(Tail(s))
         /\ \A x : x \in Range(s) <=> x = Head(s) \/ x \in Range(Tail(s))
<1>1. Len(s) \in Nat /\ Len(s) > 0 /\ DOMAIN s = 1 .. Len(s) /\ Head(s) = s[1]
  OBVIOUS
<1>2. Tail(s) \in Seq(S) /\ Len(Tail(s)) = Len(s) - 1 /\ DOMAIN Tail(s) = 1 .. Len(s) - 1
      /\ \A i \in 1 .. Len(s) - 1 : Tail(s)[i] = s[i + 1]
  BY <1>1
<1>3. IsInjective(Tail(s))
  BY <1>1, <1>2 DEF IsInjective
<1>4. Head(s) \in Range(s) /\ Head(s) \notin Range(Tail(s))
  BY <1>1, <1>2 DEF IsInjective, Range
<1>5. ASSUME NEW x, x \in Range(s), x # Head(s)
      PROVE  x \in Range(Tail(s))
  <2>1. PICK i \in 1 .. Len(s) : x = s[i]
    BY <1>1, <1>5 DEF Range
  <2>2. i - 1 \in 1 .. Len(s) - 1 /\ Tail(s)[i - 1] = x
    BY <1>1, <1>2, <1>5, <2>1
  <2> QED
    BY <1>2, <2>2 DEF Range
<1>6. ASSUME NEW x, x \in Range(Tail(s))
      PROVE  x \in Range(s)
  <2>1. PICK i \in 1 .. Len(s) - 1 : x = s[i + 1]
    BY <1>2, <1>6 DEF Range
  <2> QED
    BY <1>1, <2>1 DEF Range
<1> QED
  BY <1>1, <1>2, <1>3, <1>4, <1>5, <1>6

\* Putting one in front of it.
LEMMA ListPut ==
  ASSUME NEW S, NEW s \in Seq(S), NEW e \in S, IsInjective(s), e \notin Range(s)
  PROVE  /\ <<e>> \o s \in Seq(S) /\ IsInjective(<<e>> \o s)
         /\ \A x : x \in Range(<<e>> \o s) <=> x = e \/ x \in Range(s)
<1> DEFINE r == <<e>> \o s
<1>1. Len(s) \in Nat /\ DOMAIN s = 1 .. Len(s)
  OBVIOUS
<1>2. /\ r \in Seq(S) /\ DOMAIN r = 1 .. Len(s) + 1 /\ r[1] = e
      /\ \A i \in 1 .. Len(s) : r[i + 1] = s[i]
  BY <1>1
<1> HIDE DEF r
<1>3. \A i \in DOMAIN r : i = 1 \/ (i - 1 \in DOMAIN s /\ r[i] = s[i - 1])
  BY <1>1, <1>2
<1>4. IsInjective(r)
  BY <1>1, <1>2, <1>3 DEF IsInjective, Range
<1>5. \A x : x \in Range(r) <=> x = e \/ x \in Range(s)
  BY <1>1, <1>2, <1>3 DEF Range
<1> QED
  BY <1>2, <1>4, <1>5 DEF r

\* The same of any list.
LEMMA PutInFront ==
  ASSUME NEW S, NEW s \in Seq(S), NEW e \in S
  PROVE  /\ <<e>> \o s \in Seq(S) /\ <<e>> \o s # <<>>
         /\ \A x : x \in Range(<<e>> \o s) <=> x = e \/ x \in Range(s)
<1> DEFINE r == <<e>> \o s
<1>1. Len(s) \in Nat /\ DOMAIN s = 1 .. Len(s)
  OBVIOUS
<1>2. /\ r \in Seq(S) /\ r # <<>> /\ DOMAIN r = 1 .. Len(s) + 1 /\ r[1] = e
      /\ \A i \in 1 .. Len(s) : r[i + 1] = s[i]
  BY <1>1
<1> HIDE DEF r
<1>3. \A i \in 1 .. Len(s) + 1 : i = 1 \/ (i - 1 \in 1 .. Len(s) /\ r[i] = s[i - 1])
  BY <1>1, <1>2
<1>4. \A x : x \in Range(r) <=> x = e \/ x \in Range(s)
  BY <1>1, <1>2, <1>3 DEF Range
<1> QED
  BY <1>2, <1>4 DEF r

\* Taking the last element of a list without repetitions.
LEMMA ListFront ==
  ASSUME NEW S, NEW s \in Seq(S), s # <<>>, IsInjective(s)
  PROVE  /\ Front(s) \in Seq(S) /\ IsInjective(Front(s))
         /\ Last(s) \in S /\ Last(s) \in Range(s) /\ Last(s) \notin Range(Front(s))
         /\ \A x : x \in Range(s) <=> x = Last(s) \/ x \in Range(Front(s))
<1>1. PICK n \in Nat : n + 1 = Len(s)
  <2>1. Len(s) \in Nat /\ Len(s) > 0
    OBVIOUS
  <2> QED
    BY <2>1
<1>2. DOMAIN s = 1 .. n + 1 /\ Last(s) = s[n + 1] /\ s[n + 1] \in S
  BY <1>1 DEF Last
<1>3. PICK f : f = Front(s)
  OBVIOUS
<1>4. f \in Seq(S) /\ DOMAIN f = 1 .. n /\ \A i \in 1 .. n : f[i] = s[i]
  <2>1. Len(s) \in 1 .. Len(s) /\ Len(s) - 1 = n
    BY <1>1
  <2>2. f = SubSeq(s, 1, n)
    BY <1>3, <2>1 DEF Front
  <2> QED
    BY <2>1, <2>2, AllButLast
<1>5. \A i, k \in 1 .. n + 1 : s[i] = s[k] => i = k
  BY <1>2 DEF IsInjective
<1>6. IsInjective(f)
  BY <1>1, <1>4, <1>5 DEF IsInjective
<1>7. Last(s) \in Range(s) /\ Last(s) \notin Range(f)
  BY <1>1, <1>2, <1>4, <1>5 DEF Range
<1>8. \A x : x \in Range(s) <=> x = Last(s) \/ x \in Range(f)
  <2>1. ASSUME NEW x, x \in Range(s), x # Last(s)
        PROVE  x \in Range(f)
    <3>1. PICK i \in 1 .. n + 1 : x = s[i]
      BY <1>2, <2>1 DEF Range
    <3>2. i \in 1 .. n
      BY <1>1, <1>2, <2>1, <3>1
    <3> QED
      BY <1>4, <3>1, <3>2 DEF Range
  <2>2. ASSUME NEW x, x \in Range(f)
        PROVE  x \in Range(s)
    <3>1. PICK i \in 1 .. n : x = s[i]
      BY <1>4, <2>2 DEF Range
    <3> QED
      BY <1>1, <1>2, <3>1 DEF Range
  <2> QED
    BY <1>7, <2>1, <2>2
<1> QED
  BY <1>2, <1>3, <1>4, <1>6, <1>7, <1>8

\* Putting one at its end.
LEMMA ListAppend ==
  ASSUME NEW S, NEW s \in Seq(S), NEW e \in S, IsInjective(s), e \notin Range(s)
  PROVE  /\ Append(s, e) \in Seq(S) /\ IsInjective(Append(s, e))
         /\ \A x : x \in Range(Append(s, e)) <=> x = e \/ x \in Range(s)
<1> DEFINE r == Append(s, e)
<1>1. Len(s) \in Nat /\ DOMAIN s = 1 .. Len(s)
  OBVIOUS
<1>2. /\ r \in Seq(S) /\ DOMAIN r = 1 .. Len(s) + 1 /\ r[Len(s) + 1] = e
      /\ \A i \in 1 .. Len(s) : r[i] = s[i]
  BY <1>1
<1> HIDE DEF r
<1>3. \A i \in DOMAIN r : i = Len(s) + 1 \/ (i \in DOMAIN s /\ r[i] = s[i])
  BY <1>1, <1>2
<1>4. IsInjective(r)
  BY <1>1, <1>2, <1>3 DEF IsInjective, Range
<1>5. \A x : x \in Range(r) <=> x = e \/ x \in Range(s)
  BY <1>1, <1>2, <1>3 DEF Range
<1> QED
  BY <1>2, <1>4, <1>5 DEF r

\* An element of the sequences together stands at a place of one of them.
LEMMA JointPlaces ==
  ASSUME NEW S, NEW ss \in Seq(Seq(S))
  PROVE  /\ \A i \in 1 .. Len(ss) : \A k \in 1 .. Len(ss[i]) : ss[i][k] \in Joint(ss)
         /\ \A x \in Joint(ss) : \E i \in 1 .. Len(ss) : \E k \in 1 .. Len(ss[i]) : x = ss[i][k]
         /\ Joint(ss) \subseteq S
<1>1. \A i \in 1 .. Len(ss) : ss[i] \in Seq(S)
  OBVIOUS
<1>2. ASSUME NEW i \in 1 .. Len(ss)
      PROVE  /\ \A k \in 1 .. Len(ss[i]) : ss[i][k] \in ToSet(ss[i])
             /\ \A x \in ToSet(ss[i]) : \E k \in 1 .. Len(ss[i]) : x = ss[i][k]
             /\ ToSet(ss[i]) \subseteq S
  BY <1>1, ToSetPlaces
<1>3. \A i \in 1 .. Len(ss) : \A k \in 1 .. Len(ss[i]) : ss[i][k] \in Joint(ss)
  BY <1>2 DEF Joint
<1>4. \A x \in Joint(ss) : \E i \in 1 .. Len(ss) : x \in ToSet(ss[i])
  BY DEF Joint
<1>5. \A x \in Joint(ss) : \E i \in 1 .. Len(ss) : \E k \in 1 .. Len(ss[i]) : x = ss[i][k]
  BY <1>2, <1>4
<1> QED
  BY <1>2, <1>3, <1>4, <1>5

\* A single sequence.
LEMMA OneApart ==
  ASSUME NEW S, NEW s \in Seq(S), Distinct(s)
  PROVE  <<s>> \in Seq(Seq(S)) /\ Apart(<<s>>) /\ Joint(<<s>>) = ToSet(s)
<1> DEFINE u == <<s>>
<1>1. u \in Seq(Seq(S)) /\ Len(u) = 1 /\ u[1] = s /\ \A i \in 1 .. Len(u) : i = 1
  OBVIOUS
<1> HIDE DEF u
<1>2. ASSUME NEW i \in 1 .. Len(u), NEW j \in 1 .. Len(u),
             NEW k \in 1 .. Len(u[i]), NEW l \in 1 .. Len(u[j]), u[i][k] = u[j][l]
      PROVE  i = j /\ k = l
  <2>1. u[i] = s /\ u[j] = s /\ i = 1 /\ j = 1
    BY <1>1
  <2> QED
    BY <1>2, <2>1 DEF Distinct
<1>3. Apart(u)
  BY <1>2, Zenon DEF Apart
<1>4. Joint(u) = ToSet(s)
  <2>1. 1 \in 1 .. Len(u)
    BY <1>1
  <2> QED
    BY <1>1, <2>1 DEF Joint
<1> QED
  BY <1>1, <1>3, <1>4 DEF u

\* One more sequence, before the others or after them.
LEMMA OneMore ==
  ASSUME NEW S, NEW ss \in Seq(Seq(S)), NEW s \in Seq(S), Apart(ss), Distinct(s),
         \A i \in 1 .. Len(ss) : \A k \in 1 .. Len(ss[i]), l \in 1 .. Len(s) : ss[i][k] # s[l]
  PROVE  Apart(<<s>> \o ss) /\ Apart(Append(ss, s))
<1>1. Joint(ss) \cap ToSet(s) = {}
  <2> SUFFICES ASSUME NEW x \in Joint(ss), x \in ToSet(s)
               PROVE  FALSE
    OBVIOUS
  <2>1. PICK i \in 1 .. Len(ss) : \E k \in 1 .. Len(ss[i]) : x = ss[i][k]
    BY JointPlaces
  <2>2. PICK k \in 1 .. Len(ss[i]) : x = ss[i][k]
    BY <2>1
  <2>3. PICK l \in 1 .. Len(s) : x = s[l]
    BY ToSetPlaces
  <2> QED
    BY <2>2, <2>3
<1>2. <<s>> \in Seq(Seq(S)) /\ Apart(<<s>>) /\ Joint(<<s>>) = ToSet(s)
  BY OneApart
<1>3. Append(ss, s) = ss \o <<s>>
  OBVIOUS
<1>4. Apart(<<s>> \o ss)
  <2> DEFINE one == <<s>>
  <2>1. one \in Seq(Seq(S)) /\ Apart(one) /\ Joint(one) \cap Joint(ss) = {}
    BY <1>1, <1>2
  <2> HIDE DEF one
  <2>2. Apart(one \o ss)
    BY <2>1, ConcatApart
  <2> QED
    BY <2>2 DEF one
<1>5. Apart(ss \o <<s>>)
  <2> DEFINE one == <<s>>
  <2>1. one \in Seq(Seq(S)) /\ Apart(one) /\ Joint(ss) \cap Joint(one) = {}
    BY <1>1, <1>2
  <2> HIDE DEF one
  <2>2. Apart(ss \o one)
    BY <2>1, ConcatApart
  <2> QED
    BY <2>2 DEF one
<1> QED
  BY <1>3, <1>4, <1>5

\* The elements of sequences of sequences that are joined.
LEMMA JointFlatten ==
  ASSUME NEW S, NEW ss \in Seq(Seq(Seq(S)))
  PROVE  /\ FlattenSeq(ss) \in Seq(Seq(S))
         /\ \A B \in ToSet(FlattenSeq(ss)) :
               \E i \in 1 .. Len(ss) : \E j \in 1 .. Len(ss[i]) : B = ss[i][j]
         /\ \A x \in Joint(FlattenSeq(ss)) : \E i \in 1 .. Len(ss) : x \in Joint(ss[i])
<1>1. PICK T : T = Seq(S)
  OBVIOUS
<1>2. FlattenSeq(ss) \in Seq(T) /\ ToSet(FlattenSeq(ss)) = Joint(ss)
  BY <1>1, FlattenType, FlattenElements
<1>3. \A B \in ToSet(FlattenSeq(ss)) :
         \E i \in 1 .. Len(ss) : \E j \in 1 .. Len(ss[i]) : B = ss[i][j]
  BY <1>1, <1>2, JointPlaces
<1>4. ASSUME NEW x \in Joint(FlattenSeq(ss))
      PROVE  \E i \in 1 .. Len(ss) : x \in Joint(ss[i])
  <2>1. PICK k \in 1 .. Len(FlattenSeq(ss)) : x \in ToSet(FlattenSeq(ss)[k])
    BY DEF Joint
  <2>2. FlattenSeq(ss)[k] \in ToSet(FlattenSeq(ss))
    BY <1>2, ToSetPlaces
  <2>3. PICK i \in 1 .. Len(ss) : \E j \in 1 .. Len(ss[i]) : FlattenSeq(ss)[k] = ss[i][j]
    BY <1>3, <2>2
  <2>4. PICK j \in 1 .. Len(ss[i]) : FlattenSeq(ss)[k] = ss[i][j]
    BY <2>3
  <2>5. x \in Joint(ss[i])
    BY <2>1, <2>4 DEF Joint
  <2> QED
    BY <2>5
<1> QED
  BY <1>1, <1>2, <1>3, <1>4

\* Sequences of sequences that are apart, and from each other, joined.
Parted(ss) ==
    /\ \A i \in 1 .. Len(ss) : Apart(ss[i])
    /\ \A i, j \in 1 .. Len(ss) : Joint(ss[i]) \cap Joint(ss[j]) # {} => i = j

\* They are apart when joined.
LEMMA FlattenApart ==
  ASSUME NEW S, NEW ss \in Seq(Seq(Seq(S))), Parted(ss)
  PROVE  Apart(FlattenSeq(ss))
<1> DEFINE Holds(tt) == Parted(tt) => Apart(FlattenSeq(tt))
           Bad == {n \in Nat : \E tt \in Seq(Seq(Seq(S))) : Len(tt) = n /\ ~Holds(tt)}
<1>1. ASSUME NEW tt \in Seq(Seq(Seq(S))), tt = <<>>
      PROVE  Holds(tt)
  BY <1>1 DEF FlattenSeq, Apart
<1>2. ASSUME NEW tt \in Seq(Seq(Seq(S))), NEW t \in Seq(Seq(S)), Holds(tt), Parted(Append(tt, t))
      PROVE  Apart(FlattenSeq(Append(tt, t)))
  <2> DEFINE u == Append(tt, t)  n == Len(tt)
  <2>1. /\ n \in Nat /\ Len(u) = n + 1 /\ u[n + 1] = t
        /\ \A i \in 1 .. n : u[i] = tt[i]
    OBVIOUS
  <2>p. Parted(u)
    BY <1>2
  <2>5. FlattenSeq(u) = FlattenSeq(tt) \o t
    BY FlattenAppend
  <2> HIDE DEF u
  <2>2. Parted(tt)
    <3>1. \A i \in 1 .. n : i \in 1 .. Len(u) /\ u[i] = tt[i]
      BY <2>1
    <3> QED
      BY <2>p, <3>1 DEF Parted
  <2>3. Apart(t)
    <3>1. n + 1 \in 1 .. Len(u)
      BY <2>1
    <3> QED
      BY <2>p, <2>1, <3>1 DEF Parted
  <2>4. Joint(FlattenSeq(tt)) \cap Joint(t) = {}
    <3> SUFFICES ASSUME NEW x \in Joint(FlattenSeq(tt)), x \in Joint(t)
                 PROVE  FALSE
      OBVIOUS
    <3>1. PICK i \in 1 .. n : x \in Joint(tt[i])
      BY JointFlatten
    <3>2. i \in 1 .. Len(u) /\ n + 1 \in 1 .. Len(u) /\ u[i] = tt[i] /\ u[n + 1] = t /\ i # n + 1
      BY <2>1
    <3>3. Joint(u[i]) \cap Joint(u[n + 1]) # {}
      BY <3>1, <3>2
    <3> QED
      BY <2>p, <3>2, <3>3 DEF Parted
  <2>6. Apart(FlattenSeq(tt)) /\ FlattenSeq(tt) \in Seq(Seq(S))
    BY <1>2, <2>2, JointFlatten
  <2> QED
    BY <2>3, <2>4, <2>5, <2>6, ConcatApart DEF u
<1> HIDE DEF Holds
<1>3. Bad = {}
  <2>1. SUFFICES ASSUME Bad # {} PROVE FALSE
    OBVIOUS
  <2>2. PICK n \in Bad : n = 0 \/ (n - 1 \in Nat /\ n - 1 \notin Bad)
    BY <2>1, FirstFailure
  <2>3. PICK tt \in Seq(Seq(Seq(S))) : Len(tt) = n /\ ~Holds(tt)
    OBVIOUS
  <2>4. tt # <<>>
    BY <1>1, <2>3
  <2>5. PICK uu \in Seq(Seq(Seq(S))), t \in Seq(Seq(S)) : tt = Append(uu, t)
    BY <2>4, SequenceEmptyOrAppend
  <2>6. Len(uu) = n - 1 /\ n # 0
    BY <2>3, <2>5
  <2>7. Holds(uu)
    BY <2>2, <2>6
  <2>8. Holds(tt)
    BY <1>2, <2>5, <2>7 DEF Holds
  <2> QED
    BY <2>3, <2>8
<1>4. Holds(ss)
  BY <1>3
<1> QED
  BY <1>4 DEF Holds

\* A finite set of natural numbers that is not empty has a greatest one.
LEMMA MaxOfFinite ==
  ASSUME NEW S \in SUBSET Nat, IsFiniteSet(S), S # {}
  PROVE  Max(S) \in S /\ \A x \in S : x <= Max(S)
<1> DEFINE Bounds == {n \in Nat : \A x \in S : x <= n}
           size == Cardinality(S)
<1>1. size \in Nat /\ \E f : f \in Bijection(1 .. size, S)
  BY FS_CardinalityType DEF ExistsBijection
<1>2. PICK f : f \in Bijection(1 .. size, S)
  BY <1>1
<1>3. /\ \A i \in 1 .. size : f[i] \in S /\ f[i] \in Nat
      /\ \A x \in S : \E i \in 1 .. size : x = f[i]
  BY <1>2 DEF Bijection, Injection, Surjection
<1> HIDE DEF size
<1> DEFINE Bounded(k) == \E n \in Nat : \A i \in 1 .. k : f[i] <= n
           Bad == {k \in 0 .. size : ~Bounded(k)}
<1>4. Bounded(0)
  BY 1 .. 0 = {}
<1>5. ASSUME NEW k \in 1 .. size, Bounded(k - 1)
      PROVE  Bounded(k)
  <2>1. PICK n \in Nat : \A i \in 1 .. k - 1 : f[i] <= n
    BY <1>5
  <2>2. f[k] \in Nat /\ \A i \in 1 .. k : i \in 1 .. k - 1 \/ i = k
    BY <1>3
  <2>3. \A i \in 1 .. k : f[i] \in Nat
    BY <1>1, <1>3
  <2>4. \A i \in 1 .. k : f[i] <= n + f[k]
    BY <2>1, <2>2, <2>3
  <2>5. n + f[k] \in Nat
    BY <2>2
  <2> QED
    BY <2>4, <2>5
<1> HIDE DEF Bounded
<1>6. Bad = {}
  <2>1. SUFFICES ASSUME Bad # {} PROVE FALSE
    OBVIOUS
  <2>2. Bad \in SUBSET Nat
    OBVIOUS
  <2>3. PICK m \in Bad : m = 0 \/ (m - 1 \in Nat /\ m - 1 \notin Bad)
    <3> HIDE DEF Bad
    <3> QED
      BY <2>1, <2>2, FirstFailure
  <2>4. m # 0
    BY <1>4
  <2>5. m \in 1 .. size /\ m - 1 \in 0 .. size
    BY <1>1, <2>4
  <2>6. Bounded(m - 1)
    BY <2>3, <2>4, <2>5
  <2> QED
    BY <1>5, <2>5, <2>6
<1>7. Bounded(size)
  BY <1>1, <1>6
<1>8. PICK n \in Nat : \A i \in 1 .. size : f[i] <= n
  BY <1>7 DEF Bounded
<1>9. n \in Bounds
  BY <1>3, <1>8
<1>10. PICK m \in Bounds : \A k \in Bounds : m <= k
  BY <1>9, LeastNumber
<1>11. m \in S
  <2> SUFFICES ASSUME m \notin S PROVE FALSE
    OBVIOUS
  <2>1. PICK y \in S : TRUE
    OBVIOUS
  <2>2. \A x \in S : x <= m - 1
    BY <1>10
  <2>3. m - 1 \in Nat
    BY <2>1, <2>2
  <2>4. m - 1 \in Bounds
    BY <2>2, <2>3
  <2> QED
    BY <1>10, <2>4
<1>12. \E x \in S : \A y \in S : x >= y
  BY <1>10, <1>11
<1>13. Max(S) \in S /\ \A y \in S : Max(S) >= y
  BY <1>12 DEF Max
<1> QED
  BY <1>13
=============================================================================
