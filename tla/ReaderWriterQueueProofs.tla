----------------------- MODULE ReaderWriterQueueProofs ------------------------
(***************************************************************************)
(* What holds of ReaderWriterQueue for every set of blocks, every maxSize  *)
(* and every number of elements.  The invariant says how the blocks lie    *)
(* in the ring (Linked), in which slots there are elements (Contents) and  *)
(* how far each thread has come (ProducerAt, ConsumerAt).  From it follow  *)
(* the safety properties, and then, by the elements of the blocks taken in *)
(* the order of the ring, that the queue is first-in first-out.            *)
(*                                                                         *)
(* For each action there is a lemma that it keeps the invariant.  Its      *)
(* steps t, c, l, p and r are the parts: the types, the contents, the      *)
(* ring, the producer and the consumer that reads it.                      *)
(***************************************************************************)
EXTENDS ReaderWriterQueue, SequenceLemmas

Label == 0 .. LABELS - 1

\* The blocks have room for maxSize elements, and the newest is the largest.
Types ==
    /\ TypeOK
    /\ front \in [Block -> Nat] /\ tail \in [Block -> Nat]
    /\ data = [b \in Block |-> data[b]]
    /\ largestBlockSize >= FirstSize
    /\ \A b \in blocks : size[b] >= FirstSize /\ size[b] <= largestBlockSize
    /\ pp \notin {"idle", "gone"} => element \in Label /\ element = sent
    /\ cp = "release" => moved \in Label

\* From f on and before t, where the slot after the last one is the first.
Within(f, t, j) == IF f <= t THEN f <= j /\ j < t ELSE j >= f \/ j < t

\* Slot j of block b is from front on and before tail.
Spanned(b, j) == Within(front[b], tail[b], j)

\* The slot in which an element is constructed and not yet published.
Constructed(b, j) ==
    \/ pp = "publish" /\ b = tailBlock /\ j = tail[b]
    \/ pp = "reusePublish" /\ b = next[tailBlock] /\ j = tail[b]

\* There is an element in the slots of the span, but for the one that the consumer has
\* moved out, and in the one that the producer is about to publish.
Filled(b, j) ==
    \/ Spanned(b, j) /\ ~(cp = "release" /\ <<b, j>> = ReadSlot)
    \/ Constructed(b, j)

Contents ==
    \A b \in blocks : \A j \in 0 .. size[b] - 1 : data[b][j] # NULL <=> Filled(b, j)

\* The n blocks r[1], ..., r[n] are linked in a ring; elements are in the first k.
Linked(r, n, k) ==
    /\ n \in Nat \ {0} /\ k \in 1 .. n
    /\ r \in [1 .. n -> blocks]
    /\ \A i, j \in 1 .. n : r[i] = r[j] => i = j
    /\ \A i \in 1 .. n : next[r[i]] = r[IF i = n THEN 1 ELSE i + 1]
    /\ frontBlock = r[1] /\ tailBlock = r[k]

\* The block that is made and not yet linked.
Made(r, n, b) ==
    /\ b \in blocks /\ \A i \in 1 .. n : r[i] # b
    /\ \A c \in blocks : (\E i \in 1 .. n : r[i] = c) \/ c = b
    /\ \A c \in blocks : size[c] = largestBlockSize <=> c = b
    /\ next[b] = next[tailBlock] /\ front[b] = 0 /\ tail[b] = 1 /\ data[b][0] = element

ProducerAt(r, n, k) ==
    /\ IF pp = "link" THEN \E b \in blocks : Made(r, n, b)
       ELSE \A c \in blocks : \E i \in 1 .. n : r[i] = c
    /\ \A i \in 2 .. n : front[r[i]] # tail[r[i]] <=> i <= k \/ (pp = "advance" /\ i = k + 1)
    /\ pp \in {"room", "publish"} => HasRoom(tailBlock)
    /\ pp = "publish" => data[tailBlock][tail[tailBlock]] = element
    /\ pp \in {"reuse", "reusePublish", "advance"} => k < n
    /\ pp = "reusePublish" => data[next[tailBlock]][tail[next[tailBlock]]] = element
    /\ pp = "advance" =>
          /\ tail[next[tailBlock]] = After(next[tailBlock], front[next[tailBlock]])
          /\ data[next[tailBlock]][front[next[tailBlock]]] = element

ConsumerAt(r, n, k) ==
    /\ cp \in {"move", "release"} => front[frontBlock] # tail[frontBlock]
    /\ cp \in {"look", "empty"} => \E i \in 1 .. k : tailBlockAtStart = r[i]
    /\ cp = "empty" /\ ~LastBlock => front[frontBlock] = tail[frontBlock]
    /\ cp = "look" /\ LastBlock /\ present => front[frontBlock] # tail[frontBlock]
    /\ cp = "empty" /\ LastBlock => ~present

Ring(r, n, k) == Linked(r, n, k) /\ ProducerAt(r, n, k) /\ ConsumerAt(r, n, k)

QueueInv == Types /\ Contents /\ \E n, k, r : Ring(r, n, k)

-----------------------------------------------------------------------------
\* ceilToPow2 of a number above 1 is at least that number.
LEMMA Doubling ==
  ASSUME NEW x \in Nat, x >= 2
  PROVE  ceilToPow2(x) \in Nat /\ ceilToPow2(x) >= x
<1> DEFINE Step(g, p) == IF p >= x THEN p ELSE g[2 * p]
           From(g, m) == \A p \in Nat : p + m >= x /\ p # 0 => g[p] = Step(g, p)
           NoG == {m \in Nat : ~ \E g \in [Nat -> Nat] : From(g, m)}
<1>1. \E g \in [Nat -> Nat] : From(g, 0)
  <2>1. From([p \in Nat |-> p], 0)
    OBVIOUS
  <2> QED
    BY <2>1
<1>2. ASSUME NEW m \in Nat, NEW g \in [Nat -> Nat], From(g, m)
      PROVE  \E h \in [Nat -> Nat] : From(h, m + 1)
  <2>1. CASE x - (m + 1) \in Nat \ {0}
    <3> DEFINE q == x - (m + 1)
               h == [g EXCEPT ![q] = g[2 * q]]
    <3>1. q \in Nat /\ q # 0 /\ 2 * q # q /\ q < x /\ 2 * q \in Nat
      BY <2>1
    <3>2. h \in [Nat -> Nat] /\ h[q] = g[2 * q] /\ \A p \in Nat : p # q => h[p] = g[p]
      BY <3>1
    <3> HIDE DEF h, q
    <3>3. h[q] = Step(h, q)
      BY <3>1, <3>2
    <3>4. ASSUME NEW p \in Nat, p + (m + 1) >= x, p # 0, p # q
          PROVE  h[p] = Step(h, p)
      <4>1. p + m >= x
        BY <2>1, <3>4 DEF q
      <4>2. g[p] = Step(g, p)
        BY <1>2, <3>4, <4>1
      <4>3. 2 * p \in Nat /\ 2 * p # q
        BY <2>1, <3>4, <4>1 DEF q
      <4> QED
        BY <3>2, <3>4, <4>2, <4>3
    <3>5. From(h, m + 1)
      BY <3>3, <3>4
    <3> QED
      BY <3>2, <3>5
  <2>2. CASE x - (m + 1) \notin Nat \ {0}
    <3>1. From(g, m + 1)
      BY <1>2, <2>2
    <3> QED
      BY <3>1
  <2> QED
    BY <2>1, <2>2
<1>3. \E g \in [Nat -> Nat] : From(g, x)
  <2> HIDE DEF From
  <2>1. SUFFICES ASSUME NoG # {} PROVE FALSE
    OBVIOUS
  <2>2. PICK m \in NoG : m = 0 \/ (m - 1 \in Nat /\ m - 1 \notin NoG)
    BY <2>1, FirstFailure
  <2>3. CASE m - 1 \in Nat /\ m - 1 \notin NoG
    <3>1. \E h \in [Nat -> Nat] : From(h, (m - 1) + 1)
      BY <1>2, <2>3
    <3> QED
      BY <2>2, <3>1
  <2> QED
    BY <1>1, <2>2, <2>3
<1> DEFINE double == CHOOSE g : g = [p \in Nat |-> Step(g, p)]
<1>4. double = [p \in Nat |-> Step(double, p)]
  <2>1. PICK g \in [Nat -> Nat] : From(g, x)
    BY <1>3
  <2>2. \A p \in Nat : g[p] = Step(g, p)
    <3>1. \A p \in Nat : p # 0 => g[p] = Step(g, p)
      BY <2>1
    <3>2. g[0] = Step(g, 0)
      OBVIOUS
    <3> QED
      BY <3>1, <3>2
  <2>3. g = [p \in Nat |-> Step(g, p)]
    BY <2>2
  <2> QED
    BY <2>3
<1>5. ceilToPow2(x) = double[1]
  BY DEF ceilToPow2
<1>6. \A p \in Nat : double[p] = IF p >= x THEN p ELSE double[2 * p]
  <2> DEFINE d == double
  <2> HIDE DEF d
  <2> QED
    BY <1>4
<1> HIDE DEF double
<1> DEFINE Low == {m \in Nat : \E p \in Nat \ {0} :
                                  p + m = x /\ ~(double[p] \in Nat /\ double[p] >= x)}
<1>7. Low = {}
  <2>1. SUFFICES ASSUME Low # {} PROVE FALSE
    OBVIOUS
  <2>2. PICK m \in Low : \A l \in Low : m <= l
    BY <2>1, LeastNumber
  <2>3. PICK p \in Nat \ {0} : p + m = x /\ ~(double[p] \in Nat /\ double[p] >= x)
    OBVIOUS
  <2>4. p < x /\ double[p] = double[2 * p]
    BY <1>6, <2>3
  <2>5. CASE 2 * p >= x
    BY <1>6, <2>3, <2>4, <2>5
  <2>6. CASE 2 * p < x
    <3>1. x - 2 * p \in Low
      BY <2>3, <2>4, <2>6
    <3> QED
      BY <2>2, <2>3, <2>6, <3>1
  <2> QED
    BY <2>3, <2>5, <2>6
<1> QED
  <2>1. x - 1 \in Nat /\ x - 1 \notin Low
    <3> HIDE DEF Low
    <3> QED
      BY <1>7
  <2>2. 1 \in Nat \ {0} /\ 1 + (x - 1) = x
    OBVIOUS
  <2>3. double[1] \in Nat /\ double[1] >= x
    BY <2>1, <2>2
  <2> QED
    BY <1>5, <2>3

\* The first block has room for maxSize elements and its spare slot.
LEMMA FirstSizeFits ==
  ASSUME QueueAssumption
  PROVE  FirstSize \in Nat /\ FirstSize >= 2 /\ FirstSize >= maxSize + 1
BY Doubling DEF QueueAssumption, FirstSize

-----------------------------------------------------------------------------
\* After is the next slot, and the first one after the last.
LEMMA AfterIs ==
  ASSUME NEW b, NEW i, size[b] \in Nat, size[b] >= 2, i \in 0 .. size[b] - 1
  PROVE  /\ After(b, i) = IF i + 1 = size[b] THEN 0 ELSE i + 1
         /\ After(b, i) \in 0 .. size[b] - 1 /\ After(b, i) # i
BY DEF After

\* Where a block is empty and where it is not.
LEMMA WithinEnds ==
  ASSUME NEW z \in Nat, NEW f \in 0 .. z - 1, NEW t \in 0 .. z - 1, NEW j \in 0 .. z - 1
  PROVE  ~Within(f, t, t) /\ ~Within(f, f, j) /\ (f # t => Within(f, t, f))
BY DEF Within

\* What the tail of a block adds, and what its front takes away, when it moves on.
LEMMA WithinGrows ==
  ASSUME NEW z \in Nat, z >= 2, NEW f \in 0 .. z - 1, NEW t \in 0 .. z - 1,
         NEW j \in 0 .. z - 1, NEW a, a = (IF t + 1 = z THEN 0 ELSE t + 1), a # f
  PROVE  Within(f, a, j) <=> Within(f, t, j) \/ j = t
BY DEF Within

\* Away from the front, the span loses the slot that front was at.
LEMMA WithinShrinks ==
  ASSUME NEW z \in Nat, z >= 2, NEW f \in 0 .. z - 1, NEW t \in 0 .. z - 1,
         NEW j \in 0 .. z - 1, NEW g, g = (IF f + 1 = z THEN 0 ELSE f + 1), f # t
  PROVE  Within(g, t, j) <=> Within(f, t, j) /\ j # f
BY DEF Within

\* What is in a buffer d of z slots from f on and before t.
Run(f, t, z, d) == [m \in 1 .. (t - f) % z |-> d[(f + m - 1) % z]]

\* Its length, and the slot of its element m.
Span(f, t, z) == IF f <= t THEN t - f ELSE t - f + z
Slot(f, m, z) == IF f + m - 1 < z THEN f + m - 1 ELSE f + m - 1 - z

\* The places of a buffer, without the modulus.
LEMMA RunSlots ==
  ASSUME NEW z \in Nat, z >= 1, NEW f \in 0 .. z - 1, NEW t \in 0 .. z - 1
  PROVE  /\ (t - f) % z = Span(f, t, z) /\ Span(f, t, z) \in 0 .. z - 1
         /\ \A m \in 1 .. z : (f + m - 1) % z = Slot(f, m, z)
         /\ \A m \in 1 .. Span(f, t, z) :
               Within(f, t, Slot(f, m, z)) /\ Slot(f, m, z) \in 0 .. z - 1
<1>1. (t - f) % z = Span(f, t, z) /\ Span(f, t, z) \in 0 .. z - 1
  BY DEF Span
<1>2. \A m \in 1 .. z : (f + m - 1) % z = Slot(f, m, z)
  BY DEF Slot
<1>3. \A m \in 1 .. Span(f, t, z) :
         Within(f, t, Slot(f, m, z)) /\ Slot(f, m, z) \in 0 .. z - 1
  BY DEF Within, Span, Slot
<1> QED
  BY <1>1, <1>2, <1>3

\* The elements between two places of a buffer: how many, and of which kind.
LEMMA RunIs ==
  ASSUME NEW z \in Nat, z >= 1, NEW f \in 0 .. z - 1, NEW t \in 0 .. z - 1, NEW d, NEW S,
         \A j \in 0 .. z - 1 : Within(f, t, j) => d[j] \in S
  PROVE  /\ Run(f, t, z, d) \in Seq(S) /\ Len(Run(f, t, z, d)) = Span(f, t, z)
<1> DEFINE c == Span(f, t, z)
<1>1. /\ (t - f) % z = c /\ c \in 0 .. z - 1
      /\ \A m \in 1 .. z : (f + m - 1) % z = Slot(f, m, z)
      /\ \A m \in 1 .. c : Within(f, t, Slot(f, m, z)) /\ Slot(f, m, z) \in 0 .. z - 1
  BY RunSlots
<1> HIDE DEF c
<1>2. \A m \in 1 .. c : d[(f + m - 1) % z] = d[Slot(f, m, z)] /\ d[Slot(f, m, z)] \in S
  BY <1>1
<1> DEFINE e(m) == d[(f + m - 1) % z]
<1>3. Run(f, t, z, d) = [m \in 1 .. c |-> e(m)] /\ \A m \in 1 .. c : e(m) \in S
  BY <1>1, <1>2 DEF Run
<1> HIDE DEF e
<1>4. Run(f, t, z, d) \in Seq(S) /\ Len(Run(f, t, z, d)) = c
  BY <1>1, <1>2, <1>3
<1> QED
  BY <1>4 DEF c

\* Its element m is in the slot m places on from the front.
LEMMA RunAt ==
  ASSUME NEW z \in Nat, z >= 1, NEW f \in 0 .. z - 1, NEW t \in 0 .. z - 1, NEW d,
         NEW m \in 1 .. Span(f, t, z)
  PROVE  Run(f, t, z, d)[m] = d[Slot(f, m, z)]
<1>1. /\ (t - f) % z = Span(f, t, z) /\ Span(f, t, z) \in 0 .. z - 1
      /\ \A i \in 1 .. z : (f + i - 1) % z = Slot(f, i, z)
  BY RunSlots
<1>2. m \in 1 .. (t - f) % z /\ (f + m - 1) % z = Slot(f, m, z)
  BY <1>1
<1> QED
  BY <1>2 DEF Run

\* Equal in their span, equal as sequences.
LEMMA RunSame ==
  ASSUME NEW z \in Nat, z >= 1, NEW f \in 0 .. z - 1, NEW t \in 0 .. z - 1, NEW d, NEW e,
         \A j \in 0 .. z - 1 : Within(f, t, j) => d[j] = e[j]
  PROVE  Run(f, t, z, d) = Run(f, t, z, e)
<1>1. \A m \in 1 .. (t - f) % z : d[(f + m - 1) % z] = e[(f + m - 1) % z]
  <2> DEFINE c == Span(f, t, z)
  <2>1. /\ (t - f) % z = c /\ c \in 0 .. z - 1
        /\ \A m \in 1 .. z : (f + m - 1) % z = Slot(f, m, z)
        /\ \A m \in 1 .. c : Within(f, t, Slot(f, m, z)) /\ Slot(f, m, z) \in 0 .. z - 1
    BY RunSlots
  <2> HIDE DEF c
  <2>2. \A m \in 1 .. c : m \in 1 .. z
    BY <2>1
  <2> QED
    BY <2>1, <2>2
<1> QED
  BY <1>1 DEF Run

\* An element is added at the tail.
LEMMA RunGrows ==
  ASSUME NEW z \in Nat, z >= 2, NEW f \in 0 .. z - 1, NEW t \in 0 .. z - 1, NEW d,
         NEW a \in 0 .. z - 1, t + 1 = z => a = 0, t + 1 # z => a = t + 1, a # f
  PROVE  Run(f, a, z, d) = Append(Run(f, t, z, d), d[t])
<1> DEFINE R == Run(f, t, z, d)  Q == Run(f, a, z, d)
<1>1. z >= 1
  OBVIOUS
<1>2. PICK S : \A j \in 0 .. z - 1 : d[j] \in S
  <2>1. \A j \in 0 .. z - 1 : d[j] \in {d[i] : i \in 0 .. z - 1}
    OBVIOUS
  <2> QED
    BY <2>1
<1>3. d[t] \in S
  BY <1>2
<1>4. R \in Seq(S) /\ Len(R) = Span(f, t, z)
  BY <1>1, <1>2, RunIs
<1>5. Q \in Seq(S) /\ Len(Q) = Span(f, a, z)
  BY <1>1, <1>2, RunIs
<1>6. \A m \in 1 .. Span(f, t, z) : R[m] = d[Slot(f, m, z)]
  BY <1>1, RunAt
<1>7. \A m \in 1 .. Span(f, a, z) : Q[m] = d[Slot(f, m, z)]
  BY <1>1, RunAt
<1> DEFINE c == Span(f, t, z)
<1>8. c \in Nat /\ Span(f, a, z) = c + 1 /\ Slot(f, c + 1, z) = t
  BY DEF Span, Slot
<1> HIDE DEF R, Q, c
<1> DEFINE A == Append(R, d[t])
<1>9. A \in Seq(S) /\ Len(A) = c + 1 /\ A[c + 1] = d[t] /\ \A m \in 1 .. c : A[m] = R[m]
  BY <1>3, <1>4, AppendProperties DEF c
<1> HIDE DEF A
<1>10. \A m \in 1 .. c + 1 : Q[m] = A[m]
  <2> TAKE m \in 1 .. c + 1
  <2>1. CASE m \in 1 .. c
    BY <1>6, <1>7, <1>8, <1>9, <2>1 DEF c
  <2>2. CASE m = c + 1
    BY <1>7, <1>8, <1>9, <2>2
  <2> QED
    BY <1>8, <2>1, <2>2
<1>11. Q = A
  BY <1>5, <1>8, <1>9, <1>10, SeqEqual
<1> QED
  BY <1>11 DEF A, R, Q

\* The element at the front is taken away.
LEMMA RunShrinks ==
  ASSUME NEW z \in Nat, z >= 2, NEW f \in 0 .. z - 1, NEW t \in 0 .. z - 1, NEW d,
         NEW g \in 0 .. z - 1, f + 1 = z => g = 0, f + 1 # z => g = f + 1, f # t,
         NEW v, v = d[f]
  PROVE  Run(f, t, z, d) = <<v>> \o Run(g, t, z, d)
<1> DEFINE R == Run(f, t, z, d)  Q == Run(g, t, z, d)
<1>1. z >= 1
  OBVIOUS
<1>2. PICK S : \A j \in 0 .. z - 1 : d[j] \in S
  <2>1. \A j \in 0 .. z - 1 : d[j] \in {d[i] : i \in 0 .. z - 1}
    OBVIOUS
  <2> QED
    BY <2>1
<1>3. d[f] \in S
  BY <1>2
<1>4. R \in Seq(S) /\ Len(R) = Span(f, t, z)
  BY <1>1, <1>2, RunIs
<1>5. Q \in Seq(S) /\ Len(Q) = Span(g, t, z)
  BY <1>1, <1>2, RunIs
<1>6. \A m \in 1 .. Span(f, t, z) : R[m] = d[Slot(f, m, z)]
  BY <1>1, RunAt
<1>7. \A m \in 1 .. Span(g, t, z) : Q[m] = d[Slot(g, m, z)]
  BY <1>1, RunAt
<1> DEFINE c == Span(g, t, z)
<1>8. c \in Nat /\ Span(f, t, z) = c + 1 /\ Slot(f, 1, z) = f
      /\ \A m \in 1 .. c : Slot(g, m, z) = Slot(f, m + 1, z)
  BY DEF Span, Slot
<1> HIDE DEF R, Q
<1> DEFINE A == <<d[f]>> \o Q
<1> HIDE DEF c
<1>9. A \in Seq(S) /\ Len(A) = c + 1 /\ A[1] = d[f] /\ \A m \in 1 .. c : A[m + 1] = Q[m]
  BY <1>3, <1>5, <1>8 DEF c
<1> HIDE DEF A
<1>10. \A m \in 1 .. c + 1 : R[m] = A[m]
  <2> TAKE m \in 1 .. c + 1
  <2>1. CASE m = 1
    BY <1>6, <1>8, <1>9, <2>1
  <2>2. CASE m # 1
    <3>1. m - 1 \in 1 .. c /\ (m - 1) + 1 = m /\ m \in 1 .. Span(f, t, z)
      BY <1>8, <2>2
    <3>2. R[m] = d[Slot(f, (m - 1) + 1, z)] /\ A[(m - 1) + 1] = Q[m - 1]
      BY <1>6, <1>9, <3>1
    <3>3. Q[m - 1] = d[Slot(f, (m - 1) + 1, z)]
      BY <1>7, <1>8, <3>1 DEF c
    <3> QED
      BY <3>1, <3>2, <3>3
  <2> QED
    BY <2>1, <2>2
<1>11. R = A
  BY <1>4, <1>8, <1>9, <1>10, SeqEqual
<1> QED
  BY <1>11 DEF A, R, Q

\* What Types says of a block.
LEMMA BlockTypes ==
  ASSUME QueueAssumption, Types, NEW b \in blocks
  PROVE  /\ b \in Block /\ size[b] \in Nat /\ size[b] >= 2
         /\ front[b] \in 0 .. size[b] - 1 /\ tail[b] \in 0 .. size[b] - 1
         /\ data[b] \in [0 .. size[b] - 1 -> Label \cup {NULL}]
         /\ next[b] \in blocks
<1>1. b \in Block /\ size[b] \in Nat /\ size[b] >= FirstSize /\ next[b] \in blocks
  BY DEF Types, TypeOK
<1>2. /\ front[b] \in 0 .. size[b] - 1 /\ tail[b] \in 0 .. size[b] - 1
      /\ data[b] \in [0 .. size[b] - 1 -> Label \cup {NULL}]
  BY DEF Types, TypeOK, Label
<1> QED
  BY <1>1, <1>2, FirstSizeFits

\* What is known of all blocks, and of the blocks that are at work.
Shapes(r, n, k) ==
    /\ \A b \in blocks :
          /\ b \in Block /\ size[b] \in Nat /\ size[b] >= 2
          /\ front[b] \in 0 .. size[b] - 1 /\ tail[b] \in 0 .. size[b] - 1
          /\ data[b] \in [0 .. size[b] - 1 -> Label \cup {NULL}]
          /\ next[b] \in blocks
    /\ front \in [Block -> Nat] /\ tail \in [Block -> Nat]
    /\ frontBlock \in blocks /\ tailBlock \in blocks
    /\ k < n => next[tailBlock] = r[k + 1] /\ k + 1 \in 2 .. n
    /\ k = n => next[tailBlock] = frontBlock
    /\ n \in Nat \ {0} /\ k \in 1 .. n

\* What the invariant says of the places that the steps touch, in one fact.
LEMMA Known ==
  ASSUME QueueAssumption, Types, NEW n, NEW k, NEW r, Linked(r, n, k)
  PROVE  Shapes(r, n, k)
<1>1. /\ frontBlock \in blocks /\ tailBlock \in blocks
      /\ front \in [Block -> Nat] /\ tail \in [Block -> Nat]
  BY DEF Types, TypeOK
<1>2. /\ k < n => next[tailBlock] = r[k + 1] /\ k + 1 \in 2 .. n
      /\ k = n => next[tailBlock] = frontBlock
      /\ n \in Nat \ {0} /\ k \in 1 .. n
  BY DEF Linked
<1>3. ASSUME NEW b \in blocks
      PROVE  /\ b \in Block /\ size[b] \in Nat /\ size[b] >= 2
             /\ front[b] \in 0 .. size[b] - 1 /\ tail[b] \in 0 .. size[b] - 1
             /\ data[b] \in [0 .. size[b] - 1 -> Label \cup {NULL}]
             /\ next[b] \in blocks
  BY BlockTypes
<1> QED
  BY <1>1, <1>2, <1>3 DEF Shapes

-----------------------------------------------------------------------------
\* The walk from frontBlock meets the blocks of the ring in their order.
LEMMA WalkIs ==
  ASSUME QueueAssumption, Types, NEW n, NEW k, NEW r, Linked(r, n, k)
  PROVE  /\ Cardinality(blocks) \in Nat /\ n <= Cardinality(blocks)
         /\ \A i \in 0 .. n - 1 : Walk[i] = r[i + 1]
         /\ \A i \in 0 .. Cardinality(blocks) : Walk[i] \in blocks
<1> DEFINE c == Cardinality(blocks)
           walk == CHOOSE g : Stepping(g, next, frontBlock, c)
<1>1. IsFiniteSet(blocks) /\ c \in Nat
  BY FS_Subset, FS_CardinalityType DEF Types, TypeOK, QueueAssumption
<1>2. n \in Nat \ {0} /\ r \in [1 .. n -> blocks] /\ frontBlock = r[1]
      /\ \A i \in 1 .. n : next[r[i]] = r[IF i = n THEN 1 ELSE i + 1]
  BY DEF Linked
<1>3. n <= c
  <2>1. r \in Injection(1 .. n, blocks)
    BY <1>2 DEF Linked, Injection, IsInjective
  <2>2. IsFiniteSet(1 .. n) /\ Cardinality(1 .. n) = n
    BY <1>2, FS_Interval
  <2> QED
    BY <1>1, <2>1, <2>2, FS_Injection
<1>4. Walk = walk
  BY DEF Walk, Stepping
<1>5. \A i \in 0 .. c : Walk[i] = IF i = 0 THEN frontBlock ELSE next[Walk[i - 1]]
  <2> HIDE DEF c
  <2>1. Stepping(walk, next, frontBlock, c)
    BY <1>1, StepsExist
  <2> HIDE DEF walk
  <2> QED
    BY <1>4, <2>1 DEF Stepping
<1> HIDE DEF c
<1>7. \A i \in 0 .. n - 1 : Walk[i] = r[i + 1]
  <2> DEFINE Bad == {i \in 0 .. n - 1 : Walk[i] # r[i + 1]}
  <2>1. SUFFICES ASSUME Bad # {} PROVE FALSE
    OBVIOUS
  <2>2. Bad \in SUBSET Nat
    BY <1>2
  <2>3. PICK i \in Bad : i = 0 \/ (i - 1 \in Nat /\ i - 1 \notin Bad)
    <3> HIDE DEF Bad
    <3> QED
      BY <2>1, <2>2, FirstFailure
  <2>4. i \in 0 .. n - 1 /\ i \in 0 .. c /\ Walk[i] # r[i + 1]
    BY <1>1, <1>2, <1>3
  <2>5. CASE i = 0
    BY <1>2, <1>5, <2>4, <2>5
  <2>6. CASE i # 0
    <3>1. Walk[i - 1] = r[i] /\ i \in 1 .. n /\ i # n
      BY <1>2, <2>3, <2>4, <2>6
    <3> QED
      BY <1>2, <1>5, <2>4, <2>6, <3>1
  <2> QED
    BY <2>5, <2>6
<1>8. \A i \in 0 .. c : Walk[i] \in blocks
  <2> DEFINE Bad == {i \in 0 .. c : Walk[i] \notin blocks}
  <2>1. SUFFICES ASSUME Bad # {} PROVE FALSE
    OBVIOUS
  <2>2. Bad \in SUBSET Nat
    BY <1>1
  <2>3. PICK i \in Bad : i = 0 \/ (i - 1 \in Nat /\ i - 1 \notin Bad)
    <3> HIDE DEF Bad
    <3> QED
      BY <2>1, <2>2, FirstFailure
  <2>4. i \in 0 .. c /\ Walk[i] \notin blocks
    OBVIOUS
  <2>5. i # 0 => Walk[i - 1] \in blocks
    <3>1. i # 0 => i - 1 \in 0 .. c /\ i - 1 \notin Bad
      BY <1>1, <2>3, <2>4
    <3> QED
      BY <3>1
  <2> QED
    BY <1>5, <2>4, <2>5, BlockTypes DEF Types, TypeOK
<1> QED
  BY <1>1, <1>2, <1>3, <1>7, <1>8 DEF c

\* The queue is what is in the first k blocks of the ring, one after the other.
LEMMA QueueIs ==
  ASSUME QueueAssumption, Types, NEW n, NEW k, NEW r, Linked(r, n, k)
  PROVE  Queue = FlattenSeq([i \in 1 .. k |-> Elements(r[i])])
<1> DEFINE c == Cardinality(blocks)
           IsLast(i) == Walk[i] = tailBlock /\ \A j \in 0 .. i - 1 : Walk[j] # tailBlock
           last == CHOOSE i \in 0 .. c - 1 : IsLast(i)
<1>1. c \in Nat /\ n <= c /\ \A i \in 0 .. n - 1 : Walk[i] = r[i + 1]
  BY WalkIs
<1>2. n \in Nat \ {0} /\ k \in 1 .. n /\ tailBlock = r[k]
      /\ \A i, j \in 1 .. n : r[i] = r[j] => i = j
  BY DEF Linked
<1> HIDE DEF c
<1>3. k - 1 \in 0 .. c - 1 /\ IsLast(k - 1)
  BY <1>1, <1>2
<1>4. \A i \in 0 .. c - 1 : IsLast(i) => i = k - 1
  <2>1. ASSUME NEW i \in 0 .. c - 1, IsLast(i)
        PROVE  i = k - 1
    <3>1. CASE i < k - 1
      BY <1>1, <1>2, <2>1, <3>1
    <3>2. CASE i > k - 1
      <4>1. k - 1 \in 0 .. i - 1
        BY <1>1, <1>2, <3>2
      <4> QED
        BY <1>3, <2>1, <4>1
    <3> QED
      BY <1>1, <1>2, <3>1, <3>2
  <2> QED
    BY <2>1
<1>5. last = k - 1
  <2> HIDE DEF IsLast
  <2> QED
    BY <1>3, <1>4
<1>6. Queue = FlattenSeq([i \in 1 .. last + 1 |-> Elements(Walk[i - 1])])
  BY DEF Queue, c
<1>7. [i \in 1 .. last + 1 |-> Elements(Walk[i - 1])] = [i \in 1 .. k |-> Elements(r[i])]
  <2>1. last + 1 = k
    <3> HIDE DEF last
    <3> QED
      BY <1>2, <1>5
  <2>2. \A i \in 1 .. k : Walk[i - 1] = r[i]
    BY <1>1, <1>2
  <2> HIDE DEF last
  <2> QED
    BY <2>1, <2>2
<1> QED
  BY <1>6, <1>7

-----------------------------------------------------------------------------
\* An element is constructed in the free slot at the tail of b.
LEMMA ConstructContents ==
  ASSUME QueueAssumption, Types, Contents, NEW b \in blocks, element # NULL,
         b = frontBlock /\ cp = "release" => front[b] # tail[b],
         data' = [data EXCEPT ![b][tail[b]] = element],
         \A c, j : ~Constructed(c, j),
         \A c, j : Constructed(c, j)' <=> c = b /\ j = tail[b],
         UNCHANGED <<frontBlock, blocks, size, front, tail, cp>>
  PROVE  Contents'
<1>1. ASSUME NEW c \in blocks, NEW j \in 0 .. size[c] - 1
      PROVE  (data[c][j] # NULL <=> Filled(c, j))'
  <2>1. data[c][j] # NULL <=> Filled(c, j)
    BY <1>1 DEF Contents
  <2>2. Spanned(c, j)' = Spanned(c, j) /\ ReadSlot' = ReadSlot /\ cp' = cp
    BY DEF Spanned, ReadSlot
  <2>3. data'[c][j] = IF c = b /\ j = tail[b] THEN element ELSE data[c][j]
    <3>1. data = [x \in Block |-> data[x]] /\ c \in Block /\ b \in Block
      BY BlockTypes, <1>1 DEF Types
    <3>2. DOMAIN data[c] = 0 .. size[c] - 1
      BY BlockTypes, <1>1
    <3> QED
      BY <1>1, <3>1, <3>2
  <2>4. CASE c = b /\ j = tail[b]
    <3>1. ~Spanned(c, j)
      BY <1>1, <2>4, BlockTypes, WithinEnds DEF Spanned
    <3> QED
      BY <2>2, <2>3, <2>4, <3>1 DEF Filled
  <2>5. CASE ~(c = b /\ j = tail[b])
    BY <2>1, <2>2, <2>3, <2>5 DEF Filled
  <2> QED
    BY <2>4, <2>5
<1> QED
  BY <1>1 DEF Contents

\* The tail of b moves past the element that was constructed there.
LEMMA PublishContents ==
  ASSUME QueueAssumption, Types, Contents, NEW b \in blocks,
         b = frontBlock /\ cp = "release" => front[b] # tail[b],
         tail' = [tail EXCEPT ![b] = After(b, tail[b])], After(b, tail[b]) # front[b],
         \A c, j : Constructed(c, j) <=> c = b /\ j = tail[b],
         \A c, j : ~Constructed(c, j)',
         UNCHANGED <<frontBlock, blocks, size, front, data, cp>>
  PROVE  Contents'
<1>1. ASSUME NEW c \in blocks, NEW j \in 0 .. size[c] - 1
      PROVE  (data[c][j] # NULL <=> Filled(c, j))'
  <2>1. data[c][j] # NULL <=> Filled(c, j)
    BY <1>1 DEF Contents
  <2>2. ReadSlot' = ReadSlot /\ cp' = cp /\ front'[c] = front[c] /\ data'[c][j] = data[c][j]
    BY DEF ReadSlot
  <2>3. b \in Block /\ c \in Block /\ tail \in [Block -> Nat]
    BY <1>1, BlockTypes DEF Types
  <2>4. CASE c # b
    <3>1. Spanned(c, j)' = Spanned(c, j)
      BY <2>2, <2>3, <2>4 DEF Spanned
    <3> QED
      BY <2>1, <2>2, <2>4, <3>1 DEF Filled
  <2>5. CASE c = b
    <3>1. tail'[c] = IF tail[c] + 1 = size[c] THEN 0 ELSE tail[c] + 1
      BY <2>3, <2>5, BlockTypes, AfterIs
    <3>2. tail'[c] # front[c]
      BY <2>3, <2>5
    <3>3. /\ size[c] \in Nat /\ size[c] >= 2
          /\ front[c] \in 0 .. size[c] - 1 /\ tail[c] \in 0 .. size[c] - 1
      BY <1>1, BlockTypes
    <3>4. Spanned(c, j)' <=> Spanned(c, j) \/ j = tail[c]
      BY <1>1, <2>2, <3>1, <3>2, <3>3, WithinGrows DEF Spanned
    <3>5. cp = "release" => <<c, tail[c]>> # ReadSlot
      BY <2>5 DEF ReadSlot
    <3> QED
      BY <2>1, <2>2, <2>5, <3>4, <3>5 DEF Filled
  <2> QED
    BY <2>4, <2>5
<1> QED
  BY <1>1 DEF Contents

\* The producer numbers its elements modulo LABELS.
LEMMA NextLabel ==
  ASSUME QueueAssumption, Types
  PROVE  (sent + 1) % LABELS \in Label
<1>1. sent \in Nat /\ LABELS \in Nat \ {0}
  BY DEF Types, TypeOK, QueueAssumption
<1> QED
  BY <1>1 DEF Label

\* inner_enqueue constructs the element in the free slot at the tail of tailBlock.
LEMMA RoomConstructKeeps ==
  ASSUME QueueAssumption, Types, Contents, NEW n, NEW k, NEW r, Ring(r, n, k), RoomConstruct
  PROVE  Types' /\ Contents' /\ Ring(r, n, k)'
<1>0. Linked(r, n, k) /\ ProducerAt(r, n, k) /\ ConsumerAt(r, n, k)
  BY DEF Ring
<1>k. Shapes(r, n, k)
  BY <1>0, Known
<1>1. /\ pp = "room" /\ pp' = "publish"
      /\ data' = [data EXCEPT ![tailBlock][tail[tailBlock]] = element]
      /\ UNCHANGED <<frontBlock, tailBlock, largestBlockSize, blocks, size, front, tail,
                     next, element, canAlloc, cp, tailBlockAtStart, moved, present, sent,
                     result, freed>>
  BY DEF RoomConstruct, Construct, Keep, ringVars, consumerVars
<1>2. element \in Label /\ element # NULL
  BY <1>1 DEF Types, QueueAssumption, Label
<1>3. /\ data' = [c \in Block |-> data'[c]]
      /\ \A c \in blocks : c # tailBlock => data'[c] = data[c]
      /\ data'[tailBlock] = [data[tailBlock] EXCEPT ![tail[tailBlock]] = element]
  BY <1>0, <1>k, <1>1 DEF Shapes, Types
<1>t. Types'
  BY <1>0, <1>k, <1>1, <1>2, <1>3 DEF Shapes, Types, TypeOK, Label, QueueAssumption
<1>c. Contents'
  <2>1. /\ tailBlock \in blocks
        /\ tailBlock = frontBlock /\ cp = "release" => front[tailBlock] # tail[tailBlock]
    BY <1>0, <1>k DEF Shapes, ConsumerAt
  <2>2. /\ \A c, j : ~Constructed(c, j)
        /\ \A c, j : Constructed(c, j)' <=> c = tailBlock /\ j = tail[tailBlock]
    BY <1>1 DEF Constructed
  <2> QED
    BY <1>1, <1>2, <2>1, <2>2, ConstructContents
<1>l. Linked(r, n, k)'
  BY <1>0, <1>k, <1>1, <1>2, <1>3 DEF Shapes, Linked
<1>p. ProducerAt(r, n, k)'
  <2>1. data'[tailBlock][tail[tailBlock]] = element
    <3>1. tailBlock \in blocks /\ tail[tailBlock] \in DOMAIN data[tailBlock]
      BY <1>k DEF Shapes
    <3> QED
      BY <1>3, <3>1
  <2>2. HasRoom(tailBlock)'
    BY <1>0, <1>1 DEF ProducerAt, HasRoom, After
  <2>3. \A c \in blocks : \E i \in 1 .. n : r[i] = c
    BY <1>0, <1>1 DEF ProducerAt
  <2>4. \A i \in 2 .. n : front[r[i]] # tail[r[i]] <=> i <= k
    BY <1>0, <1>1 DEF ProducerAt
  <2> QED
    BY <1>1, <2>1, <2>2, <2>3, <2>4 DEF ProducerAt
<1>r. ConsumerAt(r, n, k)'
  BY <1>0, <1>k, <1>1, <1>2, <1>3 DEF Shapes, Linked, ProducerAt, ConsumerAt, LastBlock
<1> QED
  BY <1>t, <1>c, <1>l, <1>p, <1>r DEF Ring

\* It moves the tail: the consumer may see the element now.
LEMMA RoomPublishKeeps ==
  ASSUME QueueAssumption, Types, Contents, NEW n, NEW k, NEW r, Ring(r, n, k), RoomPublish
  PROVE  Types' /\ Contents' /\ Ring(r, n, k)'
<1>0. Linked(r, n, k) /\ ProducerAt(r, n, k) /\ ConsumerAt(r, n, k)
  BY DEF Ring
<1>k. Shapes(r, n, k)
  BY <1>0, Known
<1>1. /\ pp = "publish" /\ pp' = "idle"
      /\ tail' = [tail EXCEPT ![tailBlock] = After(tailBlock, tail[tailBlock])]
      /\ sent' = (sent + 1) % LABELS /\ element' = NULL /\ canAlloc' = FALSE
      /\ UNCHANGED <<frontBlock, tailBlock, largestBlockSize, blocks, size, front, next, data,
                     cp, tailBlockAtStart, moved, present, result, freed>>
  BY DEF RoomPublish, Published, consumerVars
<1>2. PICK a : /\ a = After(tailBlock, tail[tailBlock])
               /\ a = IF tail[tailBlock] + 1 = size[tailBlock] THEN 0 ELSE tail[tailBlock] + 1
               /\ a \in 0 .. size[tailBlock] - 1 /\ a \in Nat
               /\ a # front[tailBlock]
  <2>1. /\ size[tailBlock] \in Nat /\ size[tailBlock] >= 2
        /\ tail[tailBlock] \in 0 .. size[tailBlock] - 1
    BY <1>k DEF Shapes
  <2>2. HasRoom(tailBlock)
    BY <1>0, <1>1 DEF ProducerAt
  <2> QED
    BY <2>1, <2>2, AfterIs DEF HasRoom
<1>3. /\ tail' \in [Block -> Nat] /\ tail'[tailBlock] = a
      /\ \A c \in blocks : c # tailBlock => tail'[c] = tail[c]
  BY <1>k, <1>1, <1>2 DEF Shapes
<1>4. sent' \in Label
  BY <1>1, NextLabel
<1>t. Types'
  <2>1. \A c \in blocks : tail'[c] \in 0 .. size[c] - 1
    BY <1>k, <1>2, <1>3 DEF Shapes
  <2>2. TypeOK'
    BY <1>1, <1>4, <2>1 DEF Types, TypeOK, Label, QueueAssumption
  <2> QED
    BY <1>1, <1>3, <1>4, <2>2 DEF Types
<1>c. Contents'
  <2>1. /\ tailBlock \in blocks
        /\ tailBlock = frontBlock /\ cp = "release" => front[tailBlock] # tail[tailBlock]
    BY <1>0, <1>k DEF Shapes, ConsumerAt
  <2>2. /\ \A c, j : Constructed(c, j) <=> c = tailBlock /\ j = tail[tailBlock]
        /\ \A c, j : ~Constructed(c, j)'
    BY <1>1 DEF Constructed
  <2> QED
    BY <1>1, <1>2, <2>1, <2>2, PublishContents
<1>l. Linked(r, n, k)'
  BY <1>0, <1>k, <1>1 DEF Shapes, Linked
<1>5. tailBlock \in blocks /\ \A i \in 1 .. n : r[i] \in blocks /\ (r[i] = tailBlock <=> i = k)
  BY <1>0, <1>k DEF Shapes, Linked
<1>p. ProducerAt(r, n, k)'
  <2>1. ASSUME NEW i \in 2 .. n
        PROVE  front'[r[i]] # tail'[r[i]] <=> i <= k
    <3>1. front[r[i]] # tail[r[i]] <=> i <= k
      BY <1>0, <1>1 DEF ProducerAt
    <3>2. k \in Nat
      BY <1>k DEF Shapes
    <3> QED
      BY <1>1, <1>2, <1>3, <1>5, <3>1, <3>2
  <2>2. \A c \in blocks : \E i \in 1 .. n : r[i] = c
    BY <1>0, <1>1 DEF ProducerAt
  <2> QED
    BY <1>1, <2>1, <2>2 DEF ProducerAt
<1>r. ConsumerAt(r, n, k)'
  <2>1. front[frontBlock] # tail[frontBlock] => front'[frontBlock] # tail'[frontBlock]
    BY <1>0, <1>1, <1>2, <1>3, <1>5 DEF Linked
  <2>2. cp = "empty" /\ ~LastBlock => tailBlock # frontBlock
    <3>1. ASSUME cp = "empty", ~LastBlock, k = 1
          PROVE  FALSE
      BY <1>0, <3>1 DEF Linked, ConsumerAt, LastBlock
    <3> QED
      BY <1>0, <1>k, <3>1 DEF Linked, Shapes
  <2> QED
    BY <1>0, <1>1, <1>3, <2>1, <2>2, <1>k DEF ConsumerAt, LastBlock, Shapes
<1> QED
  BY <1>t, <1>c, <1>l, <1>p, <1>r DEF Ring

\* tailBlock is full and the block after it is not the front one: that block is empty.
LEMMA NextFreeKeeps ==
  ASSUME QueueAssumption, Types, Contents, NEW n, NEW k, NEW r, Ring(r, n, k), NextFree
  PROVE  Types' /\ Contents' /\ Ring(r, n, k)'
<1>0. Linked(r, n, k) /\ ProducerAt(r, n, k) /\ ConsumerAt(r, n, k)
  BY DEF Ring
<1>k. Shapes(r, n, k)
  BY <1>0, Known
<1>1. /\ pp = "full" /\ pp' = "reuse" /\ next[tailBlock] # frontBlock
      /\ UNCHANGED <<frontBlock, tailBlock, largestBlockSize, blocks, size, front, tail,
                     next, data, element, canAlloc, cp, tailBlockAtStart, moved, present,
                     sent, result, freed>>
  BY DEF NextFree, Keep, NextIsFree, ringVars, consumerVars
<1>t. Types'
  BY <1>0, <1>k, <1>1 DEF Shapes, Types, TypeOK, Label, QueueAssumption
<1>c. Contents'
  BY <1>0, <1>k, <1>1 DEF Shapes, Contents, Filled, Spanned, Constructed, ReadSlot
<1>l. Linked(r, n, k)'
  BY <1>0, <1>k, <1>1 DEF Shapes, Linked
<1>p. ProducerAt(r, n, k)'
  BY <1>0, <1>k, <1>1 DEF Shapes, Linked, ProducerAt, Made, HasRoom, After
<1>r. ConsumerAt(r, n, k)'
  BY <1>0, <1>k, <1>1 DEF Shapes, Linked, ProducerAt, ConsumerAt, LastBlock
<1> QED
  BY <1>t, <1>c, <1>l, <1>p, <1>r DEF Ring

\* tailBlock is full and the block after it is the front one.
LEMMA NoNextFreeKeeps ==
  ASSUME QueueAssumption, Types, Contents, NEW n, NEW k, NEW r, Ring(r, n, k), NoNextFree
  PROVE  Types' /\ Contents' /\ Ring(r, n, k)'
<1>0. Linked(r, n, k) /\ ProducerAt(r, n, k) /\ ConsumerAt(r, n, k)
  BY DEF Ring
<1>k. Shapes(r, n, k)
  BY <1>0, Known
<1>1. /\ pp = "full" /\ pp' \in {"new", "idle"}
      /\ pp' = "new" => UNCHANGED <<element, canAlloc>>
      /\ pp' = "idle" => element' = NULL /\ canAlloc' = FALSE
      /\ UNCHANGED <<frontBlock, tailBlock, largestBlockSize, blocks, size, front, tail,
                     next, data, cp, tailBlockAtStart, moved, present, sent, result, freed>>
  BY DEF NoNextFree, ringVars, consumerVars
<1>t. Types'
  BY <1>0, <1>k, <1>1 DEF Shapes, Types, TypeOK, Label, QueueAssumption
<1>c. Contents'
  BY <1>0, <1>k, <1>1 DEF Shapes, Contents, Filled, Spanned, Constructed, ReadSlot
<1>l. Linked(r, n, k)'
  BY <1>0, <1>k, <1>1 DEF Shapes, Linked
<1>p. ProducerAt(r, n, k)'
  BY <1>0, <1>k, <1>1 DEF Shapes, Linked, ProducerAt, Made, HasRoom, After
<1>r. ConsumerAt(r, n, k)'
  BY <1>0, <1>k, <1>1 DEF Shapes, Linked, ProducerAt, ConsumerAt, LastBlock
<1> QED
  BY <1>t, <1>c, <1>l, <1>p, <1>r DEF Ring

\* The element is constructed in the empty block after tailBlock.
LEMMA ReuseConstructKeeps ==
  ASSUME QueueAssumption, Types, Contents, NEW n, NEW k, NEW r, Ring(r, n, k), ReuseConstruct
  PROVE  Types' /\ Contents' /\ Ring(r, n, k)'
<1>0. Linked(r, n, k) /\ ProducerAt(r, n, k) /\ ConsumerAt(r, n, k)
  BY DEF Ring
<1>k. Shapes(r, n, k)
  BY <1>0, Known
<1>1. /\ pp = "reuse" /\ pp' = "reusePublish"
      /\ data' = [data EXCEPT ![next[tailBlock]][tail[next[tailBlock]]] = element]
      /\ UNCHANGED <<frontBlock, tailBlock, largestBlockSize, blocks, size, front, tail,
                     next, element, canAlloc, cp, tailBlockAtStart, moved, present, sent,
                     result, freed>>
  BY DEF ReuseConstruct, Construct, Keep, ringVars, consumerVars
<1>2. element \in Label /\ element # NULL
  BY <1>1 DEF Types, QueueAssumption, Label
<1>3. /\ data' = [c \in Block |-> data'[c]]
      /\ \A c \in blocks : c # next[tailBlock] => data'[c] = data[c]
      /\ data'[next[tailBlock]] = [data[next[tailBlock]] EXCEPT ![tail[next[tailBlock]]] = element]
  BY <1>0, <1>k, <1>1 DEF Shapes, Types
<1>t. Types'
  BY <1>0, <1>k, <1>1, <1>2, <1>3 DEF Shapes, Types, TypeOK, Label, QueueAssumption
<1>4. /\ next[tailBlock] # frontBlock /\ front[next[tailBlock]] = tail[next[tailBlock]]
      /\ next[tailBlock] = r[k + 1] /\ k + 1 \in 2 .. n /\ k < n
  <2>1. k < n /\ next[tailBlock] = r[k + 1] /\ k + 1 \in 2 .. n /\ k \in Nat
    BY <1>0, <1>k, <1>1 DEF Shapes, ProducerAt
  <2>2. next[tailBlock] # frontBlock
    BY <1>0, <2>1 DEF Linked
  <2>3. front[r[k + 1]] = tail[r[k + 1]]
    <3>1. front[r[k + 1]] # tail[r[k + 1]] <=> k + 1 <= k \/ (pp = "advance" /\ k + 1 = k + 1)
      BY <1>0, <2>1 DEF ProducerAt
    <3> QED
      BY <1>1, <2>1, <3>1
  <2> QED
    BY <2>1, <2>2, <2>3
<1>c. Contents'
  <2> DEFINE b == next[tailBlock]
  <2>1. b \in blocks /\ b # frontBlock
    BY <1>k, <1>4 DEF Shapes
  <2>2. /\ \A c, j : ~Constructed(c, j)
        /\ \A c, j : Constructed(c, j)' <=> c = b /\ j = tail[b]
    BY <1>1 DEF Constructed
  <2> QED
    BY <1>1, <1>2, <2>1, <2>2, ConstructContents
<1>l. Linked(r, n, k)'
  BY <1>0, <1>k, <1>1, <1>2, <1>3 DEF Shapes, Linked
<1>p. ProducerAt(r, n, k)'
  <2>1. (data[next[tailBlock]][tail[next[tailBlock]]] = element)'
    <3>1. /\ next[tailBlock] \in blocks
          /\ tail[next[tailBlock]] \in DOMAIN data[next[tailBlock]]
      BY <1>k DEF Shapes
    <3> QED
      BY <1>1, <1>3, <3>1
  <2>2. \A c \in blocks : \E i \in 1 .. n : r[i] = c
    BY <1>0, <1>1 DEF ProducerAt
  <2>3. \A i \in 2 .. n : front[r[i]] # tail[r[i]] <=> i <= k
    BY <1>0, <1>1 DEF ProducerAt
  <2> QED
    BY <1>1, <1>4, <2>1, <2>2, <2>3 DEF ProducerAt
<1>r. ConsumerAt(r, n, k)'
  BY <1>0, <1>k, <1>1, <1>2, <1>3 DEF Shapes, Linked, ProducerAt, ConsumerAt, LastBlock
<1> QED
  BY <1>t, <1>c, <1>l, <1>p, <1>r DEF Ring

\* The tail of that block moves; the consumer does not go there before tailBlock does.
LEMMA ReusePublishKeeps ==
  ASSUME QueueAssumption, Types, Contents, NEW n, NEW k, NEW r, Ring(r, n, k), ReusePublish
  PROVE  Types' /\ Contents' /\ Ring(r, n, k)'
<1> DEFINE b == next[tailBlock]
<1>0. Linked(r, n, k) /\ ProducerAt(r, n, k) /\ ConsumerAt(r, n, k)
  BY DEF Ring
<1>k. Shapes(r, n, k)
  BY <1>0, Known
<1>1. /\ pp = "reusePublish" /\ pp' = "advance"
      /\ tail' = [tail EXCEPT ![b] = After(b, tail[b])]
      /\ UNCHANGED <<frontBlock, tailBlock, largestBlockSize, blocks, size, front, next, data,
                     element, canAlloc, cp, tailBlockAtStart, moved, present, sent, result, freed>>
  BY DEF ReusePublish, Keep, consumerVars
<1>2. /\ b = r[k + 1] /\ k + 1 \in 2 .. n /\ b \in blocks /\ front[b] = tail[b]
      /\ b # frontBlock /\ b # tailBlock /\ data[b][tail[b]] = element
      /\ front[b] \in 0 .. size[b] - 1 /\ size[b] \in Nat /\ size[b] >= 2
  <2>1. k < n /\ data[b][tail[b]] = element
    BY <1>0, <1>1 DEF ProducerAt
  <2>2. b = r[k + 1] /\ k + 1 \in 2 .. n /\ b \in blocks
    BY <1>k, <2>1 DEF Shapes
  <2>3. front[b] = tail[b]
    <3>1. front[r[k + 1]] # tail[r[k + 1]] <=> k + 1 <= k \/ (pp = "advance" /\ k + 1 = k + 1)
      BY <1>0, <2>2 DEF ProducerAt
    <3>2. k \in Nat
      BY <1>k DEF Shapes
    <3> QED
      BY <1>1, <2>2, <3>1, <3>2
  <2>4. b # frontBlock /\ b # tailBlock
    BY <1>0, <2>1, <2>2 DEF Linked
  <2> QED
    BY <1>k, <2>1, <2>2, <2>3, <2>4 DEF Shapes
<1> HIDE DEF b
<1>3. PICK a : /\ a = After(b, tail[b])
               /\ a = IF tail[b] + 1 = size[b] THEN 0 ELSE tail[b] + 1
               /\ a \in 0 .. size[b] - 1 /\ a \in Nat /\ a # tail[b]
  BY <1>2, AfterIs
<1>4. /\ tail' \in [Block -> Nat] /\ tail'[b] = a
      /\ \A c \in blocks : c # b => tail'[c] = tail[c]
  BY <1>k, <1>1, <1>2, <1>3 DEF Shapes
<1>t. Types'
  <2>1. \A c \in blocks : tail'[c] \in 0 .. size[c] - 1
    BY <1>k, <1>2, <1>3, <1>4 DEF Shapes
  <2>2. TypeOK'
    BY <1>1, <1>4, <2>1 DEF Types, TypeOK, Label, QueueAssumption
  <2> QED
    BY <1>1, <1>3, <1>4, <2>2 DEF Types
<1>c. Contents'
  <2>1. /\ \A c, j : Constructed(c, j) <=> c = b /\ j = tail[b]
        /\ \A c, j : ~Constructed(c, j)'
    BY <1>1 DEF Constructed, b
  <2> QED
    BY <1>1, <1>2, <1>3, <2>1, PublishContents
<1>l. Linked(r, n, k)'
  BY <1>0, <1>k, <1>1 DEF Shapes, Linked
<1>p. ProducerAt(r, n, k)'
  <2>1. \A i \in 2 .. n : front'[r[i]] # tail'[r[i]] <=> i <= k \/ i = k + 1
    <3> TAKE i \in 2 .. n
    <3>1. front[r[i]] # tail[r[i]] <=> i <= k
      BY <1>0, <1>1 DEF ProducerAt
    <3>2. r[i] \in blocks /\ (r[i] = b <=> i = k + 1)
      BY <1>0, <1>2 DEF Linked
    <3>3. k \in Nat
      BY <1>k DEF Shapes
    <3> QED
      BY <1>1, <1>2, <1>3, <1>4, <3>1, <3>2, <3>3
  <2>2. \A c \in blocks' : \E i \in 1 .. n : r[i] = c
    BY <1>0, <1>1 DEF ProducerAt
  <2>3. k < n
    BY <1>0, <1>1 DEF ProducerAt
  <2>4. tail'[b] = After(b, front[b]) /\ data'[b][front'[b]] = element /\ front'[b] = front[b]
    BY <1>1, <1>2, <1>3, <1>4
  <2>5. next'[tailBlock'] = b
    BY <1>1 DEF b
  <2>6. After(b, front[b])' = After(b, front[b])
    BY <1>1 DEF After, b
  <2>7. (tail[next[tailBlock]] = After(next[tailBlock], front[next[tailBlock]]))'
    BY <1>1, <2>4, <2>5 DEF After
  <2> QED
    BY <1>1, <2>1, <2>2, <2>3, <2>4, <2>5, <2>7 DEF ProducerAt
<1>r. ConsumerAt(r, n, k)'
  BY <1>0, <1>k, <1>1, <1>2, <1>4 DEF Shapes, Linked, ProducerAt, ConsumerAt, LastBlock
<1> QED
  BY <1>t, <1>c, <1>l, <1>p, <1>r DEF Ring

\* tailBlock moves on: one block more of the ring holds elements.
LEMMA AdvanceKeeps ==
  ASSUME QueueAssumption, Types, Contents, NEW n, NEW k, NEW r, Ring(r, n, k), Advance
  PROVE  Types' /\ Contents' /\ Ring(r, n, k + 1)'
<1>0. Linked(r, n, k) /\ ProducerAt(r, n, k) /\ ConsumerAt(r, n, k)
  BY DEF Ring
<1>k. Shapes(r, n, k)
  BY <1>0, Known
<1>1. /\ pp = "advance" /\ pp' = "idle" /\ tailBlock' = next[tailBlock]
      /\ sent' = (sent + 1) % LABELS /\ element' = NULL /\ canAlloc' = FALSE
      /\ UNCHANGED <<frontBlock, largestBlockSize, blocks, size, front, tail, next, data,
                     cp, tailBlockAtStart, moved, present, result, freed>>
  BY DEF Advance, Published, consumerVars
<1>2. next[tailBlock] = r[k + 1] /\ k + 1 \in 1 .. n /\ k \in Nat /\ next[tailBlock] \in blocks
  BY <1>0, <1>k, <1>1 DEF Shapes, ProducerAt
<1>3. sent' \in Label
  BY <1>1, NextLabel
<1>t. Types'
  BY <1>k, <1>1, <1>2, <1>3 DEF Shapes, Types, TypeOK, Label, QueueAssumption
<1>c. Contents'
  BY <1>1 DEF Contents, Filled, Spanned, Constructed, ReadSlot
<1>l. Linked(r, n, k + 1)'
  BY <1>0, <1>1, <1>2 DEF Linked
<1>p. ProducerAt(r, n, k + 1)'
  <2>1. \A i \in 2 .. n : front[r[i]] # tail[r[i]] <=> i <= k + 1
    BY <1>0, <1>1, <1>2 DEF ProducerAt
  <2>2. \A c \in blocks : \E i \in 1 .. n : r[i] = c
    BY <1>0, <1>1 DEF ProducerAt
  <2> QED
    BY <1>1, <2>1, <2>2 DEF ProducerAt
<1>r. ConsumerAt(r, n, k + 1)'
  BY <1>0, <1>1, <1>2 DEF ConsumerAt, LastBlock
<1> QED
  BY <1>t, <1>c, <1>l, <1>p, <1>r DEF Ring

\* try_dequeue compares front and tail of frontBlock.  The tail can only have moved on
\* since: an element that was there when the call began is still there.
LEMMA LookKeeps ==
  ASSUME QueueAssumption, Types, Contents, NEW n, NEW k, NEW r, Ring(r, n, k), Look
  PROVE  Types' /\ Contents' /\ Ring(r, n, k)'
<1>0. Linked(r, n, k) /\ ProducerAt(r, n, k) /\ ConsumerAt(r, n, k)
  BY DEF Ring
<1>k. Shapes(r, n, k)
  BY <1>0, Known
<1>1. /\ cp = "look"
      /\ cp' = IF front[frontBlock] # tail[frontBlock] THEN "move" ELSE "empty"
      /\ UNCHANGED <<frontBlock, tailBlock, largestBlockSize, blocks, size, front, tail,
                     next, data, pp, element, canAlloc, tailBlockAtStart, moved, present,
                     sent, result, freed>>
  BY DEF Look, ringVars, producerVars, Idle
<1>t. Types'
  BY <1>0, <1>k, <1>1 DEF Shapes, Types, TypeOK, Label, QueueAssumption
<1>c. Contents'
  BY <1>0, <1>k, <1>1, SMTT(30) DEF Shapes, Contents, Filled, Spanned, Constructed, ReadSlot
<1>l. Linked(r, n, k)'
  BY <1>0, <1>k, <1>1 DEF Shapes, Linked
<1>p. ProducerAt(r, n, k)'
  BY <1>0, <1>1 DEF ProducerAt, Made, HasRoom, After
<1>r. ConsumerAt(r, n, k)'
  BY <1>0, <1>k, <1>1 DEF Shapes, Linked, ProducerAt, ConsumerAt, LastBlock
<1> QED
  BY <1>t, <1>c, <1>l, <1>p, <1>r DEF Ring

\* try_dequeue returns false.
LEMMA NoElementKeeps ==
  ASSUME QueueAssumption, Types, Contents, NEW n, NEW k, NEW r, Ring(r, n, k), NoElement
  PROVE  Types' /\ Contents' /\ Ring(r, n, k)'
<1>0. Linked(r, n, k) /\ ProducerAt(r, n, k) /\ ConsumerAt(r, n, k)
  BY DEF Ring
<1>k. Shapes(r, n, k)
  BY <1>0, Known
<1>1. /\ cp = "empty" /\ cp' = "idle" /\ tailBlockAtStart' = NULL /\ present' = FALSE
      /\ UNCHANGED <<frontBlock, tailBlock, largestBlockSize, blocks, size, front, tail,
                     next, data, pp, element, canAlloc, moved, sent, result, freed>>
  BY DEF NoElement, ringVars, producerVars, Idle
<1>t. Types'
  BY <1>0, <1>k, <1>1 DEF Shapes, Types, TypeOK, Label, QueueAssumption
<1>c. Contents'
  BY <1>0, <1>k, <1>1, SMTT(30) DEF Shapes, Contents, Filled, Spanned, Constructed, ReadSlot
<1>l. Linked(r, n, k)'
  BY <1>0, <1>k, <1>1 DEF Shapes, Linked
<1>p. ProducerAt(r, n, k)'
  BY <1>0, <1>1 DEF ProducerAt, Made, HasRoom, After
<1>r. ConsumerAt(r, n, k)'
  BY <1>0, <1>k, <1>1 DEF Shapes, Linked, ProducerAt, ConsumerAt, LastBlock
<1> QED
  BY <1>t, <1>c, <1>l, <1>p, <1>r DEF Ring

\* The element is moved out of its slot.
LEMMA MoveOutKeeps ==
  ASSUME QueueAssumption, Types, Contents, NEW n, NEW k, NEW r, Ring(r, n, k), MoveOut
  PROVE  Types' /\ Contents' /\ Ring(r, n, k)'
<1>0. Linked(r, n, k) /\ ProducerAt(r, n, k) /\ ConsumerAt(r, n, k)
  BY DEF Ring
<1>k. Shapes(r, n, k)
  BY <1>0, Known
<1>1. /\ cp = "move" /\ cp' = "release"
      /\ moved' = data[frontBlock][front[frontBlock]]
      /\ data' = [data EXCEPT ![frontBlock][front[frontBlock]] = NULL]
      /\ UNCHANGED <<frontBlock, tailBlock, largestBlockSize, blocks, size, front, tail,
                     next, pp, element, canAlloc, tailBlockAtStart, present, sent, result,
                     freed>>
  BY DEF MoveOut, TailFrame, producerVars, Idle
<1>3. /\ data' = [c \in Block |-> data'[c]]
      /\ \A c \in blocks : c # frontBlock => data'[c] = data[c]
      /\ data'[frontBlock] = [data[frontBlock] EXCEPT ![front[frontBlock]] = NULL]
  BY <1>0, <1>k, <1>1 DEF Shapes, Types
<1>4. data[frontBlock][front[frontBlock]] \in Label
  <2>1. /\ frontBlock \in blocks /\ front[frontBlock] \in 0 .. size[frontBlock] - 1
        /\ tail[frontBlock] \in 0 .. size[frontBlock] - 1 /\ size[frontBlock] \in Nat
        /\ data[frontBlock][front[frontBlock]] \in Label \cup {NULL}
    BY <1>k DEF Shapes
  <2>2. front[frontBlock] # tail[frontBlock]
    BY <1>0, <1>1 DEF ConsumerAt
  <2>3. Spanned(frontBlock, front[frontBlock])
    BY <2>1, <2>2, WithinEnds DEF Spanned
  <2> QED
    BY <1>1, <2>1, <2>3 DEF Contents, Filled
<1>t. Types'
  BY <1>k, <1>1, <1>3, <1>4 DEF Shapes, Types, TypeOK, Label, QueueAssumption
<1>5. \A c, j : Constructed(c, j) /\ c = frontBlock => j # front[c]
  BY <1>0, <1>1 DEF Constructed, ConsumerAt
<1>6. /\ NULL \notin Label /\ frontBlock \in blocks
      /\ front[frontBlock] \in DOMAIN data[frontBlock]
  BY <1>k DEF Shapes, QueueAssumption, Label
<1>7. \A c \in blocks : \A j \in 0 .. size[c] - 1 :
         (c = frontBlock /\ j = front[frontBlock]) \/ data'[c][j] = data[c][j]
  <2> TAKE c \in blocks
  <2> TAKE j \in 0 .. size[c] - 1
  <2>1. CASE c # frontBlock
    BY <1>3, <2>1
  <2>2. CASE c = frontBlock
    <3>1. j \in DOMAIN data[frontBlock]
      BY <1>k, <2>2 DEF Shapes
    <3> QED
      BY <1>3, <2>2, <3>1
  <2> QED
    BY <2>1, <2>2
<1>c. Contents'
  <2>1. ASSUME NEW c \in blocks, NEW j \in 0 .. size[c] - 1
        PROVE  (data[c][j] # NULL <=> Filled(c, j))'
    <3>1. data[c][j] # NULL <=> Filled(c, j)
      BY <2>1 DEF Contents
    <3>2. /\ Spanned(c, j)' = Spanned(c, j) /\ Constructed(c, j)' = Constructed(c, j)
          /\ ReadSlot' = <<frontBlock, front[frontBlock]>>
      BY <1>1 DEF Spanned, Constructed, ReadSlot
    <3>3. Filled(c, j) <=> Spanned(c, j) \/ Constructed(c, j)
      BY <1>1 DEF Filled
    <3>4. Filled(c, j)' <=> \/ Spanned(c, j) /\ <<c, j>> # <<frontBlock, front[frontBlock]>>
                            \/ Constructed(c, j)
      BY <1>1, <3>2 DEF Filled
    <3>5. CASE c = frontBlock /\ j = front[frontBlock]
      BY <1>3, <1>5, <1>6, <3>4, <3>5
    <3>6. CASE ~(c = frontBlock /\ j = front[frontBlock])
      <4>1. data'[c][j] = data[c][j]
        BY <1>7, <2>1, <3>6
      <4> QED
        BY <3>1, <3>3, <3>4, <3>6, <4>1
    <3> QED
      BY <3>5, <3>6
  <2> QED
    BY <1>1, <2>1 DEF Contents
<1>l. Linked(r, n, k)'
  BY <1>0, <1>k, <1>1, <1>3, <1>4 DEF Shapes, Linked
<1>p. ProducerAt(r, n, k)'
  <2>1. pp = "link" => (\E b \in blocks : Made(r, n, b))'
    <3>1. SUFFICES ASSUME pp = "link" PROVE (\E b \in blocks : Made(r, n, b))'
      OBVIOUS
    <3>2. PICK b \in blocks : Made(r, n, b)
      BY <1>0, <3>1 DEF ProducerAt
    <3>3. b # frontBlock
      BY <1>0, <3>2 DEF Made, Linked
    <3>4. data'[b] = data[b]
      BY <1>3, <3>3
    <3>5. Made(r, n, b)'
      BY <1>1, <3>2, <3>4 DEF Made
    <3> QED
      BY <1>1, <3>5
  <2>2. pp # "link" => \A c \in blocks : \E i \in 1 .. n : r[i] = c
    BY <1>0 DEF ProducerAt
  <2>3. pp = "publish" => data'[tailBlock][tail[tailBlock]] = element
    <3>1. front[frontBlock] # tail[frontBlock] /\ tailBlock \in blocks
          /\ tail[tailBlock] \in 0 .. size[tailBlock] - 1
      BY <1>0, <1>1, <1>k DEF ConsumerAt, Shapes
    <3> QED
      BY <1>0, <1>7, <3>1 DEF ProducerAt
  <2>4. pp \in {"reusePublish", "advance"} => data'[next[tailBlock]] = data[next[tailBlock]]
    <3>1. pp \in {"reusePublish", "advance"} => k < n
      BY <1>0 DEF ProducerAt
    <3>2. pp \in {"reusePublish", "advance"} =>
             next[tailBlock] # frontBlock /\ next[tailBlock] \in blocks
      BY <1>0, <1>k, <3>1 DEF Shapes, Linked
    <3> QED
      BY <1>3, <3>2
  <2>5. \A i \in 2 .. n : front'[r[i]] # tail'[r[i]] <=> i <= k \/ (pp' = "advance" /\ i = k + 1)
    BY <1>0, <1>1 DEF ProducerAt
  <2>6. /\ pp' \in {"room", "publish"} => HasRoom(tailBlock)'
        /\ \A c, i : After(c, i)' = After(c, i)
    BY <1>0, <1>1 DEF ProducerAt, HasRoom, After
  <2>7. pp' \in {"reuse", "reusePublish", "advance"} => k < n
    BY <1>0, <1>1 DEF ProducerAt
  <2> QED
    BY <1>0, <1>1, <2>1, <2>2, <2>3, <2>4, <2>5, <2>6, <2>7 DEF ProducerAt
<1>r. ConsumerAt(r, n, k)'
  BY <1>0, <1>k, <1>1, <1>3, <1>4 DEF Shapes, Linked, ProducerAt, ConsumerAt, LastBlock
<1> QED
  BY <1>t, <1>c, <1>l, <1>p, <1>r DEF Ring

\* front moves on: the slot is the producer's again.
LEMMA ReleaseKeeps ==
  ASSUME QueueAssumption, Types, Contents, NEW n, NEW k, NEW r, Ring(r, n, k), Release
  PROVE  Types' /\ Contents' /\ Ring(r, n, k)'
<1>0. Linked(r, n, k) /\ ProducerAt(r, n, k) /\ ConsumerAt(r, n, k)
  BY DEF Ring
<1>k. Shapes(r, n, k)
  BY <1>0, Known
<1>1. /\ cp = "release" /\ cp' = "idle"
      /\ front' = [front EXCEPT ![frontBlock] = After(frontBlock, front[frontBlock])]
      /\ result' = moved /\ moved' = NULL /\ tailBlockAtStart' = NULL /\ present' = FALSE
      /\ UNCHANGED <<frontBlock, tailBlock, largestBlockSize, blocks, size, tail, next,
                     data, pp, element, canAlloc, sent, freed>>
  BY DEF Release, TailFrame, producerVars, Idle
<1>2. PICK g : /\ g = After(frontBlock, front[frontBlock])
               /\ g = IF front[frontBlock] + 1 = size[frontBlock] THEN 0 ELSE front[frontBlock] + 1
               /\ g \in 0 .. size[frontBlock] - 1 /\ g \in Nat
  <2>1. /\ size[frontBlock] \in Nat /\ size[frontBlock] >= 2
        /\ front[frontBlock] \in 0 .. size[frontBlock] - 1
    BY <1>k DEF Shapes
  <2> QED
    BY <2>1, AfterIs
<1>3. /\ front' \in [Block -> Nat] /\ front'[frontBlock] = g
      /\ \A c \in blocks : c # frontBlock => front'[c] = front[c]
  BY <1>k, <1>1, <1>2 DEF Shapes
<1>4. front[frontBlock] # tail[frontBlock]
  BY <1>0, <1>1 DEF ConsumerAt
<1>6. moved \in Label
  BY <1>1 DEF Types
<1>t. Types'
  <2>1. \A c \in blocks : front'[c] \in 0 .. size[c] - 1
    BY <1>k, <1>2, <1>3 DEF Shapes
  <2>2. result' \in -1 .. LABELS - 1
    BY <1>1, <1>6 DEF Label, QueueAssumption
  <2>3. TypeOK'
    BY <1>1, <2>1, <2>2 DEF Types, TypeOK
  <2> QED
    BY <1>1, <1>3, <2>3 DEF Types
<1>c. Contents'
  <2>1. ASSUME NEW c \in blocks, NEW j \in 0 .. size[c] - 1
        PROVE  (data[c][j] # NULL <=> Filled(c, j))'
    <3>1. data[c][j] # NULL <=> Filled(c, j)
      BY <2>1 DEF Contents
    <3>2. /\ data'[c][j] = data[c][j] /\ tail'[c] = tail[c]
          /\ Constructed(c, j)' = Constructed(c, j)
          /\ Filled(c, j)' <=> Spanned(c, j)' \/ Constructed(c, j)'
      BY <1>1 DEF Constructed, Filled
    <3>3. Filled(c, j) <=> \/ Spanned(c, j) /\ <<c, j>> # <<frontBlock, front[frontBlock]>>
                           \/ Constructed(c, j)
      BY <1>1 DEF Filled, ReadSlot
    <3>4. CASE c # frontBlock
      <4>1. Spanned(c, j)' = Spanned(c, j)
        BY <1>3, <3>2, <3>4 DEF Spanned
      <4> QED
        BY <3>1, <3>2, <3>3, <3>4, <4>1
    <3>5. CASE c = frontBlock
      <4>1. /\ size[c] \in Nat /\ size[c] >= 2
            /\ front[c] \in 0 .. size[c] - 1 /\ tail[c] \in 0 .. size[c] - 1
        BY <1>k DEF Shapes
      <4>2. Spanned(c, j)' <=> Spanned(c, j) /\ j # front[c]
        <5>1. front'[c] = (IF front[c] + 1 = size[c] THEN 0 ELSE front[c] + 1) /\ front[c] # tail[c]
          BY <1>2, <1>3, <1>4, <3>5
        <5>2. Within(front'[c], tail[c], j) <=> Within(front[c], tail[c], j) /\ j # front[c]
          BY <2>1, <4>1, <5>1, WithinShrinks
        <5> QED
          BY <3>2, <5>2 DEF Spanned
      <4> QED
        BY <3>1, <3>2, <3>3, <3>5, <4>2
    <3> QED
      BY <3>4, <3>5
  <2> QED
    BY <1>1, <2>1 DEF Contents
<1>l. Linked(r, n, k)'
  BY <1>0, <1>k, <1>1, <1>2 DEF Shapes, Linked
<1>5. \A i \in 1 .. n : r[i] \in blocks /\ (r[i] = frontBlock <=> i = 1)
  BY <1>0, <1>k DEF Linked, Shapes
<1>p. ProducerAt(r, n, k)'
  <2>1. pp = "link" => (\E b \in blocks : Made(r, n, b))'
    <3>1. SUFFICES ASSUME pp = "link" PROVE (\E b \in blocks : Made(r, n, b))'
      OBVIOUS
    <3>2. PICK b \in blocks : Made(r, n, b)
      BY <1>0, <3>1 DEF ProducerAt
    <3>3. b # frontBlock
      BY <1>0, <3>2 DEF Made, Linked
    <3>4. front'[b] = front[b]
      BY <1>3, <3>3
    <3>5. Made(r, n, b)'
      BY <1>1, <3>2, <3>4 DEF Made
    <3> QED
      BY <1>1, <3>5
  <2>2. pp # "link" => \A c \in blocks : \E i \in 1 .. n : r[i] = c
    BY <1>0 DEF ProducerAt
  <2>3. \A i \in 2 .. n : front'[r[i]] # tail'[r[i]] <=> i <= k \/ (pp' = "advance" /\ i = k + 1)
    <3>1. \A i \in 2 .. n : front'[r[i]] = front[r[i]] /\ tail'[r[i]] = tail[r[i]]
      BY <1>1, <1>3, <1>5
    <3> QED
      BY <1>0, <1>1, <3>1 DEF ProducerAt
  <2>4. \A c, i : After(c, i)' = After(c, i)
    BY <1>1 DEF After
  <2>5. pp \in {"room", "publish"} => HasRoom(tailBlock)'
    <3>1. SUFFICES ASSUME pp \in {"room", "publish"} PROVE HasRoom(tailBlock)'
      OBVIOUS
    <3>2. After(tailBlock, tail[tailBlock]) # front[tailBlock]
      BY <1>0, <3>1 DEF ProducerAt, HasRoom
    <3>3. /\ size[tailBlock] \in Nat /\ size[tailBlock] >= 2 /\ tailBlock \in blocks
          /\ front[tailBlock] \in 0 .. size[tailBlock] - 1
          /\ tail[tailBlock] \in 0 .. size[tailBlock] - 1
      BY <1>k DEF Shapes
    <3>4. After(tailBlock, tail[tailBlock]) =
             IF tail[tailBlock] + 1 = size[tailBlock] THEN 0 ELSE tail[tailBlock] + 1
      BY <3>3, AfterIs
    <3>5. front'[tailBlock] # After(tailBlock, tail[tailBlock])
      BY <1>2, <1>3, <1>4, <3>2, <3>3, <3>4
    <3> QED
      BY <1>1, <2>4, <3>5 DEF HasRoom
  <2>6. pp \in {"reuse", "reusePublish", "advance"} => k < n
    BY <1>0 DEF ProducerAt
  <2>7. pp = "advance" => front'[next[tailBlock]] = front[next[tailBlock]]
    <3>1. pp = "advance" => next[tailBlock] # frontBlock /\ next[tailBlock] \in blocks
      BY <1>0, <1>k, <2>6 DEF Shapes, Linked
    <3> QED
      BY <1>3, <3>1
  <2> QED
    BY <1>0, <1>1, <2>1, <2>2, <2>3, <2>4, <2>5, <2>6, <2>7 DEF ProducerAt
<1>r. ConsumerAt(r, n, k)'
  BY <1>0, <1>k, <1>1, <1>2 DEF Shapes, Linked, ProducerAt, ConsumerAt, LastBlock
<1> QED
  BY <1>t, <1>c, <1>l, <1>p, <1>r DEF Ring

\* The buffer of b, with the element that was moved out still in its slot.
Held(b) ==
    IF cp = "release" /\ b = frontBlock THEN [data[b] EXCEPT ![front[b]] = moved] ELSE data[b]

HeldInSpan ==
    \A b \in blocks : \A j \in 0 .. size[b] - 1 : Spanned(b, j) => Held(b)[j] \in Label

ElementsAreRuns ==
    \A b \in blocks :
       /\ Elements(b) = Run(front[b], tail[b], size[b], Held(b))
       /\ Elements(b) \in Seq(Label)
       /\ Len(Elements(b)) = Span(front[b], tail[b], size[b])

\* There is an element in every slot between front and tail, the one that is being moved
\* out counted in.
LEMMA HeldInSpanHolds ==
  ASSUME QueueAssumption, Types, Contents
  PROVE  HeldInSpan
<1> SUFFICES ASSUME NEW b \in blocks, NEW j \in 0 .. size[b] - 1, Spanned(b, j)
             PROVE  Held(b)[j] \in Label
  BY DEF HeldInSpan
<1>1. data[b] \in [0 .. size[b] - 1 -> Label \cup {NULL}]
  BY BlockTypes
<1>2. CASE cp = "release" /\ b = frontBlock /\ j = front[b]
  BY <1>1, <1>2 DEF Held, Types
<1>3. CASE ~(cp = "release" /\ b = frontBlock /\ j = front[b])
  <2>1. data[b][j] # NULL
    BY <1>3 DEF Contents, Filled, ReadSlot
  <2>2. Held(b)[j] = data[b][j]
    BY <1>1, <1>3 DEF Held
  <2> QED
    BY <1>1, <2>1, <2>2
<1> QED
  BY <1>2, <1>3

\* The elements of a block, without the case of the slot that is being released.
LEMMA ElementsAre ==
  ASSUME QueueAssumption, Types, Contents
  PROVE  ElementsAreRuns
<1> SUFFICES ASSUME NEW b \in blocks
             PROVE  /\ Elements(b) = Run(front[b], tail[b], size[b], Held(b))
                    /\ Elements(b) \in Seq(Label)
                    /\ Len(Elements(b)) = Span(front[b], tail[b], size[b])
  BY DEF ElementsAreRuns
<1>1. /\ size[b] \in Nat /\ size[b] >= 2 /\ size[b] >= 1
      /\ front[b] \in 0 .. size[b] - 1 /\ tail[b] \in 0 .. size[b] - 1
      /\ data[b] \in [0 .. size[b] - 1 -> Label \cup {NULL}]
  BY BlockTypes
<1>2. \A j \in 0 .. size[b] - 1 : Within(front[b], tail[b], j) => Held(b)[j] \in Label
  BY HeldInSpanHolds DEF HeldInSpan, Spanned
<1>3. /\ Run(front[b], tail[b], size[b], Held(b)) \in Seq(Label)
      /\ Len(Run(front[b], tail[b], size[b], Held(b))) = Span(front[b], tail[b], size[b])
  BY <1>1, <1>2, RunIs, Zenon
<1>4. \A i \in 0 .. size[b] - 1 :
         (IF cp = "release" /\ <<b, i>> = ReadSlot THEN moved ELSE data[b][i]) = Held(b)[i]
  BY <1>1 DEF Held, ReadSlot
<1>5. \A m \in 1 .. (tail[b] - front[b]) % size[b] :
         (front[b] + m - 1) % size[b] \in 0 .. size[b] - 1
  BY <1>1, SMTT(60)
<1>6. \A m \in 1 .. (tail[b] - front[b]) % size[b] :
         (IF cp = "release" /\ <<b, (front[b] + m - 1) % size[b]>> = ReadSlot THEN moved
          ELSE data[b][(front[b] + m - 1) % size[b]]) = Held(b)[(front[b] + m - 1) % size[b]]
  BY <1>4, <1>5, Zenon
<1>7. Elements(b) = Run(front[b], tail[b], size[b], Held(b))
  BY <1>6 DEF Elements, Run
<1> QED
  BY <1>3, <1>7

\* With one block in use, the queue is what is in it.
LEMMA OneBlock ==
  ASSUME QueueAssumption, Types, Contents, NEW n, NEW r, Linked(r, n, 1), Queue # <<>>
  PROVE  front[frontBlock] # tail[frontBlock]
<1>1. frontBlock = r[1] /\ frontBlock \in blocks
  BY DEF Linked, Types, TypeOK
<1>2. /\ Elements(r[1]) \in Seq(Label)
      /\ Len(Elements(r[1])) = Span(front[r[1]], tail[r[1]], size[r[1]])
  BY <1>1, ElementsAre DEF ElementsAreRuns
<1>3. Queue = FlattenSeq([i \in 1 .. 1 |-> Elements(r[i])])
  BY QueueIs
<1>4. [i \in 1 .. 1 |-> Elements(r[i])] = <<Elements(r[1])>>
  OBVIOUS
<1>5. Queue = Elements(r[1])
  BY <1>2, <1>3, <1>4, FlattenOne
<1>6. Len(Elements(r[1])) # 0
  BY <1>2, <1>5
<1>7. front[r[1]] \in Nat
  BY <1>1, BlockTypes
<1> QED
  BY <1>1, <1>2, <1>6, <1>7 DEF Span

-----------------------------------------------------------------------------
\* The constructor makes a ring of one empty block.
LEMMA InitHolds ==
  ASSUME QueueAssumption, Init
  PROVE  QueueInv
<1> DEFINE b == Fresh({})
           r == [i \in 1 .. 1 |-> b]
<1>1. b \in Block
  BY DEF Fresh, QueueAssumption
<1> HIDE DEF b
<1>2. /\ frontBlock = b /\ tailBlock = b /\ blocks = {b} /\ next = [x \in Block |-> b]
      /\ largestBlockSize = FirstSize /\ size = [x \in Block |-> FirstSize]
      /\ front = [x \in Block |-> 0] /\ tail = [x \in Block |-> 0]
      /\ data = [x \in Block |-> [i \in 0 .. FirstSize - 1 |-> NULL]]
      /\ pp = "idle" /\ element = NULL /\ canAlloc = FALSE
      /\ cp = "idle" /\ tailBlockAtStart = NULL /\ moved = NULL
      /\ sent = 0 /\ result = -1 /\ freed = {} /\ present = FALSE
  BY DEF Init, Empty, b
<1>3. FirstSize \in Nat /\ FirstSize >= 2
  BY FirstSizeFits
<1>4. Types
  <2>1. LABELS \in Nat \ {0}
    BY DEF QueueAssumption
  <2>2. /\ blocks \subseteq Block /\ freed \subseteq blocks
        /\ frontBlock \in blocks /\ tailBlock \in blocks /\ largestBlockSize \in Nat
        /\ size \in [Block -> Nat] /\ next \in [Block -> blocks]
    BY <1>1, <1>2, <1>3
  <2>3. \A c \in blocks :
           /\ front[c] \in 0 .. size[c] - 1 /\ tail[c] \in 0 .. size[c] - 1
           /\ data[c] \in [0 .. size[c] - 1 -> 0 .. LABELS - 1 \cup {NULL}]
    BY <1>1, <1>2, <1>3
  <2>4. sent \in 0 .. LABELS - 1 /\ result \in -1 .. LABELS - 1
    <3>1. 0 \in 0 .. LABELS - 1 /\ -1 \in -1 .. LABELS - 1
      BY <2>1
    <3> QED
      BY <1>2, <3>1
  <2>5. /\ element \in 0 .. LABELS - 1 \cup {NULL} /\ moved \in 0 .. LABELS - 1 \cup {NULL}
        /\ canAlloc \in BOOLEAN /\ tailBlockAtStart \in blocks \cup {NULL} /\ present \in BOOLEAN
        /\ pp = "idle" /\ cp = "idle"
    BY <1>2
  <2>6. TypeOK
    BY <2>2, <2>3, <2>5, <2>4 DEF TypeOK
  <2> QED
    BY <1>1, <1>2, <1>3, <2>6 DEF Types
<1>5. Contents
  BY <1>1, <1>2, <1>3 DEF Contents, Filled, Spanned, Within, Constructed
<1>6. Linked(r, 1, 1)
  BY <1>1, <1>2 DEF Linked
<1>7. ProducerAt(r, 1, 1) /\ ConsumerAt(r, 1, 1)
  BY <1>2 DEF ProducerAt, ConsumerAt
<1> QED
  BY <1>4, <1>5, <1>6, <1>7 DEF QueueInv, Ring

\* inner_enqueue compares tail and front of tailBlock.
LEMMA EnqueueKeeps ==
  ASSUME QueueAssumption, Types, Contents, NEW n, NEW k, NEW r, Ring(r, n, k),
         NEW alloc \in BOOLEAN, Enqueue(alloc)
  PROVE  Types' /\ Contents' /\ Ring(r, n, k)'
<1>0. Linked(r, n, k) /\ ProducerAt(r, n, k) /\ ConsumerAt(r, n, k)
  BY DEF Ring
<1>1. /\ pp = "idle" /\ pp' = (IF HasRoom(tailBlock) THEN "room" ELSE "full")
      /\ element' = sent /\ canAlloc' = alloc
      /\ UNCHANGED <<frontBlock, tailBlock, largestBlockSize, blocks, size, front, tail, next,
                     data, cp, tailBlockAtStart, moved, present, sent, result, freed>>
  BY DEF Enqueue, ringVars, consumerVars
<1>t. Types'
  BY <1>1 DEF Types, TypeOK, Label
<1>c. Contents'
  BY <1>1 DEF Contents, Filled, Spanned, Constructed, ReadSlot
<1>l. Linked(r, n, k)'
  BY <1>0, <1>1 DEF Linked
<1>p. ProducerAt(r, n, k)'
  BY <1>0, <1>1 DEF ProducerAt, HasRoom, After
<1>r. ConsumerAt(r, n, k)'
  BY <1>0, <1>1 DEF ConsumerAt, LastBlock
<1> QED
  BY <1>t, <1>c, <1>l, <1>p, <1>r DEF Ring

\* try_dequeue notes tailBlock, which is in the ring between the front block and the last.
LEMMA DequeueKeeps ==
  ASSUME QueueAssumption, Types, Contents, NEW n, NEW k, NEW r, Ring(r, n, k), Dequeue
  PROVE  Types' /\ Contents' /\ Ring(r, n, k)'
<1>0. Linked(r, n, k) /\ ProducerAt(r, n, k) /\ ConsumerAt(r, n, k)
  BY DEF Ring
<1>1. /\ cp = "idle" /\ cp' = "look" /\ tailBlockAtStart' = tailBlock
      /\ present' = (Queue # <<>>)
      /\ UNCHANGED <<frontBlock, tailBlock, largestBlockSize, blocks, size, front, tail, next,
                     data, pp, element, canAlloc, moved, sent, result, freed>>
  BY DEF Dequeue, Idle, ringVars, producerVars
<1>t. Types'
  BY <1>1 DEF Types, TypeOK, Label
<1>c. Contents'
  BY <1>1 DEF Contents, Filled, Spanned, Constructed, ReadSlot
<1>l. Linked(r, n, k)'
  BY <1>0, <1>1 DEF Linked
<1>p. ProducerAt(r, n, k)'
  BY <1>0, <1>1 DEF ProducerAt, Made, HasRoom, After
<1>2. LastBlock' => k = 1
  <2>1. LastBlock' => r[1] = r[k]
    BY <1>0, <1>1 DEF LastBlock, Linked
  <2>2. 1 \in 1 .. n /\ k \in 1 .. n
    BY <1>0 DEF Linked
  <2> QED
    BY <1>0, <2>1, <2>2 DEF Linked
<1>3. LastBlock' /\ present' => front[frontBlock] # tail[frontBlock]
  BY <1>0, <1>1, <1>2, OneBlock
<1>4. \E i \in 1 .. k : tailBlockAtStart' = r[i]
  BY <1>0, <1>1 DEF Linked
<1>r. ConsumerAt(r, n, k)'
  BY <1>1, <1>3, <1>4 DEF ConsumerAt
<1> QED
  BY <1>t, <1>c, <1>l, <1>p, <1>r DEF Ring

\* The destructor frees blocks of the queue.
LEMMA DestroyKeeps ==
  ASSUME QueueAssumption, Types, Contents, NEW n, NEW k, NEW r, Ring(r, n, k), Destroy
  PROVE  Types' /\ Contents' /\ Ring(r, n, k)'
<1>0. Linked(r, n, k) /\ ProducerAt(r, n, k) /\ ConsumerAt(r, n, k)
  BY DEF Ring
<1>1. /\ pp = "idle" /\ cp = "idle" /\ pp' = "gone" /\ cp' = "gone"
      /\ UNCHANGED <<frontBlock, tailBlock, largestBlockSize, blocks, size, front, tail, next,
                     data, element, canAlloc, tailBlockAtStart, moved, present, sent, result>>
  BY DEF Destroy, ringVars
<1>2. freed' \subseteq blocks
  <2>1. \A i \in 0 .. Cardinality(blocks) : Walk[i] \in blocks
    BY <1>0, WalkIs
  <2>2. Cardinality(blocks) \in Nat
    BY <1>0, WalkIs
  <2> QED
    BY <2>1, <2>2 DEF Destroy
<1>t. Types'
  BY <1>1, <1>2 DEF Types, TypeOK, Label
<1>c. Contents'
  BY <1>1 DEF Contents, Filled, Spanned, Constructed, ReadSlot
<1>l. Linked(r, n, k)'
  BY <1>0, <1>1 DEF Linked
<1>p. ProducerAt(r, n, k)'
  BY <1>0, <1>1 DEF ProducerAt
<1>r. ConsumerAt(r, n, k)'
  BY <1>0, <1>1 DEF ConsumerAt
<1> QED
  BY <1>t, <1>c, <1>l, <1>p, <1>r DEF Ring

\* A block is made, with the element in it, and is not yet in the ring.
LEMMA NewBlockKeeps ==
  ASSUME QueueAssumption, Types, Contents, NEW n, NEW k, NEW r, Ring(r, n, k), NewBlock
  PROVE  Types' /\ Contents' /\ Ring(r, n, k)'
<1> DEFINE L == 2 * largestBlockSize
<1>0. Linked(r, n, k) /\ ProducerAt(r, n, k) /\ ConsumerAt(r, n, k)
  BY DEF Ring
<1>k. Shapes(r, n, k)
  BY <1>0, Known
<1>a. blocks # Block
  BY DEF NewBlock
<1>2. PICK b \in Block : b = Fresh(blocks) /\ b \notin blocks
  <2>1. \E x \in Block : x \notin blocks
    BY <1>a DEF Types, TypeOK
  <2> QED
    BY <2>1 DEF Fresh
<1>1. /\ pp = "new" /\ pp' = "link"
      /\ largestBlockSize' = L /\ blocks' = blocks \cup {b}
      /\ size' = [size EXCEPT ![b] = largestBlockSize']
      /\ data' = [data EXCEPT ![b] = [Empty(largestBlockSize') EXCEPT ![0] = element]]
      /\ front' = [front EXCEPT ![b] = 0] /\ tail' = [tail EXCEPT ![b] = 1]
      /\ next' = [next EXCEPT ![b] = next[tailBlock]]
      /\ UNCHANGED <<frontBlock, tailBlock, element, canAlloc, cp, tailBlockAtStart, moved,
                     present, sent, result, freed>>
  BY <1>2 DEF NewBlock, Keep, consumerVars
<1>3. /\ largestBlockSize \in Nat /\ largestBlockSize >= 2 /\ largestBlockSize >= FirstSize
      /\ FirstSize \in Nat
      /\ L \in Nat /\ L > largestBlockSize /\ L >= 2 /\ L >= FirstSize
  <2>1. largestBlockSize \in Nat /\ largestBlockSize >= FirstSize
    BY DEF Types, TypeOK
  <2> QED
    BY <2>1, FirstSizeFits
<1> HIDE DEF L
<1>4. element \in Label /\ element # NULL
  BY <1>1 DEF Types, QueueAssumption, Label
<1>5. /\ size' \in [Block -> Nat] /\ size'[b] = L
      /\ front' \in [Block -> Nat] /\ front'[b] = 0
      /\ tail' \in [Block -> Nat] /\ tail'[b] = 1
      /\ next' \in [Block -> blocks'] /\ next'[b] = next[tailBlock]
      /\ data' = [c \in Block |-> data'[c]]
      /\ data'[b] = [i \in 0 .. L - 1 |-> IF i = 0 THEN element ELSE NULL]
  <2>1. /\ size \in [Block -> Nat] /\ front \in [Block -> Nat] /\ tail \in [Block -> Nat]
        /\ next \in [Block -> blocks] /\ data = [c \in Block |-> data[c]]
        /\ next[tailBlock] \in blocks
    BY <1>k DEF Types, TypeOK, Shapes
  <2>2. data'[b] = [Empty(L) EXCEPT ![0] = element]
    BY <1>1, <1>2, <2>1
  <2>3. data'[b] = [i \in 0 .. L - 1 |-> IF i = 0 THEN element ELSE NULL]
    BY <1>3, <2>2 DEF Empty
  <2>4. data' = [c \in Block |-> data'[c]]
    BY <1>1, <2>1
  <2>5. /\ size' \in [Block -> Nat] /\ size'[b] = L
        /\ front' \in [Block -> Nat] /\ front'[b] = 0
        /\ tail' \in [Block -> Nat] /\ tail'[b] = 1
    BY <1>1, <1>2, <1>3, <2>1
  <2>6. next' \in [Block -> blocks'] /\ next'[b] = next[tailBlock]
    BY <1>1, <1>2, <2>1
  <2> QED
    BY <2>3, <2>4, <2>5, <2>6
<1>6. \A c \in blocks : /\ size'[c] = size[c] /\ front'[c] = front[c] /\ tail'[c] = tail[c]
                        /\ next'[c] = next[c] /\ data'[c] = data[c] /\ c # b
  BY <1>k, <1>1, <1>2 DEF Shapes, Types, TypeOK
<1>t. Types'
  <2>1. \A c \in blocks' :
           /\ front'[c] \in 0 .. size'[c] - 1 /\ tail'[c] \in 0 .. size'[c] - 1
           /\ data'[c] \in [0 .. size'[c] - 1 -> 0 .. LABELS - 1 \cup {NULL}]
           /\ size'[c] >= FirstSize /\ size'[c] <= L
    <3>1. ASSUME NEW c \in blocks
          PROVE  /\ front'[c] \in 0 .. size'[c] - 1 /\ tail'[c] \in 0 .. size'[c] - 1
                 /\ data'[c] \in [0 .. size'[c] - 1 -> 0 .. LABELS - 1 \cup {NULL}]
                 /\ size'[c] >= FirstSize /\ size'[c] <= L
      <4>1. size[c] >= FirstSize /\ size[c] <= largestBlockSize /\ size[c] \in Nat
        BY <1>k DEF Types, Shapes
      <4>2. /\ front[c] \in 0 .. size[c] - 1 /\ tail[c] \in 0 .. size[c] - 1
            /\ data[c] \in [0 .. size[c] - 1 -> 0 .. LABELS - 1 \cup {NULL}]
        BY <1>k DEF Shapes, Label
      <4>3. size[c] <= L
        BY <1>3, <4>1
      <4> QED
        BY <1>6, <4>1, <4>2, <4>3
    <3>2. data'[b] \in [0 .. L - 1 -> 0 .. LABELS - 1 \cup {NULL}]
      BY <1>4, <1>5 DEF Label
    <3>3. /\ front'[b] \in 0 .. size'[b] - 1 /\ tail'[b] \in 0 .. size'[b] - 1
          /\ size'[b] >= FirstSize /\ size'[b] <= L
      BY <1>3, <1>5
    <3> QED
      BY <1>1, <1>5, <3>1, <3>2, <3>3
  <2>2. /\ blocks' \subseteq Block /\ freed' \subseteq blocks' /\ frontBlock' \in blocks'
        /\ tailBlock' \in blocks' /\ tailBlockAtStart' \in blocks' \cup {NULL}
    BY <1>1, <1>2 DEF Types, TypeOK
  <2>3. TypeOK'
    BY <1>1, <1>3, <1>5, <2>1, <2>2 DEF Types, TypeOK
  <2>4. /\ largestBlockSize' >= FirstSize
        /\ \A c \in blocks' : size'[c] >= FirstSize /\ size'[c] <= largestBlockSize'
    BY <1>1, <1>3, <2>1
  <2>5. /\ pp' \notin {"idle", "gone"} => element' \in Label /\ element' = sent'
        /\ cp' = "release" => moved' \in Label
    BY <1>1 DEF Types
  <2> QED
    BY <1>5, <2>3, <2>4, <2>5 DEF Types
<1>c. Contents'
  <2>1. ASSUME NEW c \in blocks, NEW j \in 0 .. size'[c] - 1
        PROVE  (data[c][j] # NULL <=> Filled(c, j))'
    <3>1. data[c][j] # NULL <=> Filled(c, j)
      BY <1>6, <2>1 DEF Contents
    <3>2. ReadSlot' = ReadSlot
      BY <1>1, <1>6, <1>k DEF ReadSlot, Shapes
    <3>3. Spanned(c, j)' = Spanned(c, j) /\ ~Constructed(c, j) /\ ~Constructed(c, j)'
      BY <1>1, <1>6, <2>1 DEF Spanned, Constructed
    <3> QED
      BY <1>1, <1>6, <2>1, <3>1, <3>2, <3>3 DEF Filled
  <2>2. ASSUME NEW j \in 0 .. L - 1
        PROVE  (data[b][j] # NULL <=> Filled(b, j))'
    <3>1. data'[b][j] # NULL <=> j = 0
      BY <1>4, <1>5
    <3>2. Spanned(b, j)' <=> j = 0
      <4>1. front'[b] = 0 /\ tail'[b] = 1 /\ j \in Nat
        BY <1>3, <1>5
      <4> QED
        BY <4>1 DEF Spanned, Within
    <3>3. ~Constructed(b, j)'
      BY <1>1 DEF Constructed
    <3>4. ReadSlot'[1] # b
      BY <1>1, <1>6, <1>k DEF ReadSlot, Shapes
    <3>5. <<b, j>> # ReadSlot'
      BY <3>4
    <3>6. Filled(b, j)' <=> j = 0
      BY <3>2, <3>3, <3>5 DEF Filled
    <3> QED
      BY <3>1, <3>6
  <2> QED
    BY <1>1, <1>5, <2>1, <2>2 DEF Contents
<1>l. Linked(r, n, k)'
  <2>1. n \in Nat \ {0} /\ k \in 1 .. n /\ r \in [1 .. n -> blocks]
    BY <1>0 DEF Linked
  <2> QED
    BY <1>0, <1>1, <1>6, <2>1 DEF Linked
<1>p. ProducerAt(r, n, k)'
  <2>1. r \in [1 .. n -> blocks] /\ n \in Nat \ {0} /\ \A c \in blocks : \E i \in 1 .. n : r[i] = c
    BY <1>0, <1>1 DEF Linked, ProducerAt
  <2>2. \A i \in 2 .. n : front'[r[i]] # tail'[r[i]] <=> i <= k
    BY <1>0, <1>1, <1>6, <2>1 DEF ProducerAt
  <2>3. Made(r, n, b)'
    <3>1. \A i \in 1 .. n : r[i] # b
      BY <1>2, <2>1
    <3>2. \A c \in blocks' : (\E i \in 1 .. n : r[i] = c) \/ c = b
      BY <1>1, <2>1
    <3>3. \A c \in blocks : size[c] \in Nat /\ size[c] <= largestBlockSize
      BY <1>k DEF Types, Shapes
    <3>4. \A c \in blocks' : size'[c] = largestBlockSize' <=> c = b
      BY <1>1, <1>3, <1>5, <1>6, <3>3
    <3>5. next'[tailBlock'] = next[tailBlock]
      BY <1>1, <1>6, <1>k DEF Shapes
    <3>6. b \in blocks' /\ data'[b][0] = element'
      <4>1. 0 \in 0 .. L - 1
        BY <1>3
      <4>2. data'[b][0] = element
        BY <1>5, <4>1
      <4> QED
        BY <1>1, <4>2
    <3> QED
      BY <1>5, <3>1, <3>2, <3>4, <3>5, <3>6 DEF Made
  <2>4. \E x \in blocks' : Made(r, n, x)'
    BY <1>1, <2>3
  <2> QED
    BY <1>1, <2>2, <2>4 DEF ProducerAt
<1>r. ConsumerAt(r, n, k)'
  <2>1. frontBlock' = frontBlock /\ front'[frontBlock] = front[frontBlock]
        /\ tail'[frontBlock] = tail[frontBlock]
    BY <1>1, <1>6, <1>k DEF Shapes
  <2> QED
    BY <1>0, <1>1, <2>1 DEF ConsumerAt, LastBlock
<1> QED
  BY <1>t, <1>c, <1>l, <1>p, <1>r DEF Ring

\* The new block goes between the blocks that hold elements and those that are free.
LEMMA LinkKeeps ==
  ASSUME QueueAssumption, Types, Contents, NEW n, NEW k, NEW r, Ring(r, n, k), Link
  PROVE  Types' /\ Contents' /\ \E q : Ring(q, n + 1, k)' /\ \A i \in 1 .. k : q[i] = r[i]
<1>0. Linked(r, n, k) /\ ProducerAt(r, n, k) /\ ConsumerAt(r, n, k)
  BY DEF Ring
<1>k. Shapes(r, n, k)
  BY <1>0, Known
<1>1. /\ pp = "link" /\ pp' = "advance"
      /\ UNCHANGED <<frontBlock, tailBlock, largestBlockSize, blocks, size, front, tail, data,
                     element, canAlloc, cp, tailBlockAtStart, moved, present, sent, result, freed>>
  BY DEF Link, Keep, consumerVars
<1>2. PICK b \in blocks : Made(r, n, b)
  BY <1>0, <1>1 DEF ProducerAt
<1>3. next' = [next EXCEPT ![tailBlock] = b]
  BY <1>2 DEF Link, Made
<1> DEFINE q == [i \in 1 .. n + 1 |-> IF i <= k THEN r[i] ELSE IF i = k + 1 THEN b ELSE r[i - 1]]
<1>4. /\ n \in Nat \ {0} /\ k \in 1 .. n /\ k \in Nat /\ r \in [1 .. n -> blocks]
      /\ frontBlock = r[1] /\ tailBlock = r[k]
      /\ \A i, j \in 1 .. n : r[i] = r[j] => i = j
      /\ \A i \in 1 .. n : next[r[i]] = r[IF i = n THEN 1 ELSE i + 1]
      /\ \A i \in 1 .. n : r[i] # b
  BY <1>0, <1>2 DEF Linked, Made
<1>5. /\ q \in [1 .. n + 1 -> blocks]
      /\ \A i \in 1 .. k : i \in 1 .. n + 1 /\ q[i] = r[i]
      /\ k + 1 \in 1 .. n + 1 /\ q[k + 1] = b
      /\ \A i \in k + 2 .. n + 1 : i \in 1 .. n + 1 /\ i - 1 \in 1 .. n /\ q[i] = r[i - 1]
      /\ \A i \in 1 .. n + 1 : i \in 1 .. k \/ i = k + 1 \/ i \in k + 2 .. n + 1
  BY <1>4
<1> HIDE DEF q
<1>6. /\ next' \in [Block -> blocks] /\ next'[tailBlock] = b
      /\ \A c \in blocks : c # tailBlock => next'[c] = next[c]
  BY <1>k, <1>1, <1>3 DEF Types, TypeOK, Shapes
<1>t. Types'
  BY <1>1, <1>6 DEF Types, TypeOK
<1>c. Contents'
  BY <1>1 DEF Contents, Filled, Spanned, Constructed, ReadSlot
<1>l. Linked(q, n + 1, k)'
  <2>1. \A i, j \in 1 .. n + 1 : q[i] = q[j] => i = j
    <3> SUFFICES ASSUME NEW i \in 1 .. n + 1, NEW j \in 1 .. n + 1, q[i] = q[j], i < j
                 PROVE  FALSE
      BY <1>4
    <3>1. CASE i \in 1 .. k /\ j \in 1 .. k
      <4>1. i \in 1 .. n /\ j \in 1 .. n /\ i # j /\ r[i] = r[j]
        BY <1>4, <1>5, <3>1
      <4> QED
        BY <1>4, <4>1
    <3>2. CASE i \in 1 .. k /\ j = k + 1
      BY <1>4, <1>5, <3>2
    <3>3. CASE i \in 1 .. k /\ j \in k + 2 .. n + 1
      <4>1. i \in 1 .. n /\ j - 1 \in 1 .. n /\ i # j - 1 /\ r[i] = r[j - 1]
        BY <1>4, <1>5, <3>3
      <4> QED
        BY <1>4, <4>1
    <3>4. CASE i = k + 1 /\ j \in k + 2 .. n + 1
      BY <1>4, <1>5, <3>4
    <3>5. CASE i \in k + 2 .. n + 1 /\ j \in k + 2 .. n + 1
      <4>1. i - 1 \in 1 .. n /\ j - 1 \in 1 .. n /\ i - 1 # j - 1 /\ r[i - 1] = r[j - 1]
        BY <1>5, <3>5
      <4> QED
        BY <1>4, <4>1
    <3> QED
      BY <1>4, <1>5, <3>1, <3>2, <3>3, <3>4, <3>5
  <2>2. \A i \in 1 .. n + 1 : next'[q[i]] = q[IF i = n + 1 THEN 1 ELSE i + 1]
    <3> TAKE i \in 1 .. n + 1
    <3>1. CASE i \in 1 .. k /\ i # k
      <4>1. /\ i \in 1 .. n /\ i # n /\ i + 1 \in 1 .. k /\ i # n + 1
            /\ r[i] \in blocks /\ r[i] # tailBlock
        BY <1>4, <3>1
      <4>2. q[i] = r[i] /\ q[i + 1] = r[i + 1]
        BY <1>5, <3>1, <4>1
      <4>3. next'[r[i]] = r[i + 1]
        BY <1>4, <1>6, <4>1
      <4> QED
        BY <4>1, <4>2, <4>3
    <3>2. CASE i = k
      <4>1. q[i] = tailBlock /\ i # n + 1 /\ q[i + 1] = b
        BY <1>4, <1>5, <3>2
      <4> QED
        BY <1>6, <4>1
    <3>3. CASE i = k + 1
      <4>1. q[i] = b /\ b # tailBlock
        BY <1>4, <1>5, <3>3
      <4>2. next'[b] = next[tailBlock]
        BY <1>2, <1>6, <4>1 DEF Made
      <4>3. next[tailBlock] = r[IF k = n THEN 1 ELSE k + 1]
        BY <1>4
      <4>4. CASE k = n
        <5>1. q[1] = r[1] /\ i = n + 1
          BY <1>4, <1>5, <3>3, <4>4
        <5> QED
          BY <4>1, <4>2, <4>3, <4>4, <5>1
      <4>5. CASE k # n
        <5>1. i # n + 1 /\ i + 1 \in k + 2 .. n + 1 /\ (i + 1) - 1 = k + 1
          BY <1>4, <3>3, <4>5
        <5>2. q[i + 1] = r[k + 1]
          BY <1>5, <5>1
        <5> QED
          BY <4>1, <4>2, <4>3, <4>5, <5>1, <5>2
      <4> QED
        BY <4>4, <4>5
    <3>4. CASE i \in k + 2 .. n + 1
      <4>1. /\ q[i] = r[i - 1] /\ i - 1 \in 1 .. n /\ i - 1 # k
            /\ r[i - 1] \in blocks /\ r[i - 1] # tailBlock
        BY <1>4, <1>5, <3>4
      <4>2. next'[q[i]] = r[IF i - 1 = n THEN 1 ELSE (i - 1) + 1]
        BY <1>4, <1>6, <4>1
      <4>3. CASE i = n + 1
        <5>1. q[1] = r[1] /\ i - 1 = n
          BY <1>4, <1>5, <4>3
        <5> QED
          BY <4>2, <4>3, <5>1
      <4>4. CASE i # n + 1
        <5>1. i + 1 \in k + 2 .. n + 1 /\ (i + 1) - 1 = i /\ (i - 1) + 1 = i /\ i - 1 # n
          BY <1>4, <3>4, <4>4
        <5>2. q[i + 1] = r[i]
          BY <1>5, <5>1
        <5> QED
          BY <4>2, <4>4, <5>1, <5>2
      <4> QED
        BY <4>3, <4>4
    <3> QED
      BY <1>5, <3>1, <3>2, <3>3, <3>4
  <2>3. n + 1 \in Nat \ {0} /\ k \in 1 .. n + 1
    BY <1>4
  <2>4. frontBlock = q[1] /\ tailBlock = q[k]
    BY <1>4, <1>5
  <2> QED
    BY <1>1, <1>5, <2>1, <2>2, <2>3, <2>4 DEF Linked
<1>p. ProducerAt(q, n + 1, k)'
  <2>1. ASSUME NEW c \in blocks
        PROVE  \E i \in 1 .. n + 1 : q[i] = c
    <3>1. CASE c = b
      BY <1>5, <3>1
    <3>2. CASE c # b
      <4>1. PICK i \in 1 .. n : r[i] = c
        BY <1>2, <3>2 DEF Made
      <4>2. CASE i \in 1 .. k
        BY <1>5, <4>1, <4>2
      <4>3. CASE i \notin 1 .. k
        <5>1. i + 1 \in k + 2 .. n + 1 /\ (i + 1) - 1 = i
          BY <1>4, <4>3
        <5>2. q[i + 1] = r[i] /\ i + 1 \in 1 .. n + 1
          BY <1>5, <5>1
        <5> QED
          BY <4>1, <5>2
      <4> QED
        BY <4>2, <4>3
    <3> QED
      BY <3>1, <3>2
  <2>2. \A i \in 2 .. n : front[r[i]] # tail[r[i]] <=> i <= k
    BY <1>0, <1>1 DEF ProducerAt
  <2>3. \A i \in 2 .. n + 1 : front[q[i]] # tail[q[i]] <=> i <= k \/ i = k + 1
    <3> TAKE i \in 2 .. n + 1
    <3>1. CASE i \in 1 .. k
      <4>1. i \in 2 .. n /\ q[i] = r[i] /\ i <= k
        BY <1>4, <1>5, <3>1
      <4> QED
        BY <2>2, <4>1
    <3>2. CASE i = k + 1
      BY <1>2, <1>5, <3>2 DEF Made
    <3>3. CASE i \in k + 2 .. n + 1
      <4>1. i - 1 \in 2 .. n /\ q[i] = r[i - 1] /\ ~(i - 1 <= k) /\ ~(i <= k \/ i = k + 1)
        BY <1>4, <1>5, <3>3
      <4> QED
        BY <2>2, <4>1
    <3> QED
      BY <1>4, <1>5, <3>1, <3>2, <3>3
  <2>4. tail[b] = After(b, front[b])
    <3>1. size[b] \in Nat /\ size[b] >= 2
      BY <1>2, BlockTypes
    <3>2. After(b, 0) = 1
      BY <3>1, AfterIs
    <3> QED
      BY <1>2, <3>2 DEF Made
  <2>5. (After(next[tailBlock], front[next[tailBlock]]))' = After(b, front[b])
    BY <1>1, <1>6 DEF After
  <2>6. data[b][front[b]] = element
    BY <1>2 DEF Made
  <2>7. k < n + 1
    BY <1>4
  <2> QED
    BY <1>1, <1>6, <2>1, <2>3, <2>4, <2>5, <2>6, <2>7 DEF ProducerAt
<1>r. ConsumerAt(q, n + 1, k)'
  <2>1. cp \in {"look", "empty"} => \E i \in 1 .. k : tailBlockAtStart = q[i]
    BY <1>0, <1>5 DEF ConsumerAt
  <2> QED
    BY <1>0, <1>1, <2>1 DEF ConsumerAt, LastBlock
<1> QED
  BY <1>5, <1>t, <1>c, <1>l, <1>p, <1>r DEF Ring

\* The consumer goes on only when there is another block with elements: the ring is
\* seen from there, and the block that it leaves is the last of the free ones.
LEMMA EnterNextKeeps ==
  ASSUME QueueAssumption, Types, Contents, NEW n, NEW k, NEW r, Ring(r, n, k), EnterNext
  PROVE  /\ Types' /\ Contents'
         /\ \E q : Ring(q, n, k - 1)' /\ \A i \in 1 .. k - 1 : q[i] = r[i + 1]
         /\ k \in 2 .. n /\ front[r[1]] = tail[r[1]]
<1>0. Linked(r, n, k) /\ ProducerAt(r, n, k) /\ ConsumerAt(r, n, k)
  BY DEF Ring
<1>k. Shapes(r, n, k)
  BY <1>0, Known
<1>1. /\ cp = "empty" /\ cp' = "move" /\ frontBlock' = next[frontBlock]
      /\ UNCHANGED <<tailBlock, largestBlockSize, blocks, size, front, tail, next, data, pp,
                     element, canAlloc, tailBlockAtStart, moved, present, sent, result, freed>>
  BY DEF EnterNext, TailFrame, Idle, producerVars
<1>2. frontBlock # tailBlockAtStart
  BY DEF EnterNext, LastBlock
<1>3. /\ n \in Nat \ {0} /\ k \in 1 .. n /\ k \in Nat /\ r \in [1 .. n -> blocks]
      /\ frontBlock = r[1] /\ tailBlock = r[k]
      /\ \A i, j \in 1 .. n : r[i] = r[j] => i = j
      /\ \A i \in 1 .. n : next[r[i]] = r[IF i = n THEN 1 ELSE i + 1]
  BY <1>0 DEF Linked
<1>4. k \in 2 .. n
  <2>1. PICK i \in 1 .. k : tailBlockAtStart = r[i]
    BY <1>0, <1>1 DEF ConsumerAt
  <2>2. i # 1
    BY <1>2, <1>3, <2>1
  <2> QED
    BY <1>3, <2>1, <2>2
<1>5. front[r[1]] = tail[r[1]] /\ frontBlock' = r[2]
  <2>1. 1 \in 1 .. n /\ 1 # n /\ 1 + 1 = 2
    BY <1>3, <1>4
  <2>2. next[r[1]] = r[2]
    BY <1>3, <2>1
  <2> QED
    BY <1>0, <1>1, <1>2, <1>3, <2>2 DEF ConsumerAt, LastBlock
<1> DEFINE q == [i \in 1 .. n |-> IF i < n THEN r[i + 1] ELSE r[1]]
<1>6. /\ q \in [1 .. n -> blocks] /\ q[n] = r[1]
      /\ \A i \in 1 .. n : i # n => i + 1 \in 2 .. n /\ q[i] = r[i + 1]
  BY <1>3
<1> HIDE DEF q
<1>t. Types'
  BY <1>1, <1>k DEF Types, TypeOK, Shapes
<1>c. Contents'
  BY <1>1 DEF Contents, Filled, Spanned, Constructed
<1>l. Linked(q, n, k - 1)'
  <2>1. \A i, j \in 1 .. n : q[i] = q[j] => i = j
    <3> TAKE i, j \in 1 .. n
    <3>1. CASE i = n \/ j = n
      <4>1. \A h \in 1 .. n : h # n => q[h] # r[1]
        <5> TAKE h \in 1 .. n
        <5>1. h # n => h + 1 \in 1 .. n /\ h + 1 # 1 /\ 1 \in 1 .. n /\ q[h] = r[h + 1]
          BY <1>3, <1>6
        <5> QED
          BY <1>3, <5>1
      <4> QED
        BY <1>6, <3>1, <4>1
    <3>2. CASE i # n /\ j # n
      <4>1. i + 1 \in 1 .. n /\ j + 1 \in 1 .. n /\ q[i] = r[i + 1] /\ q[j] = r[j + 1]
        BY <1>3, <1>6, <3>2
      <4>2. q[i] = q[j] => i + 1 = j + 1
        BY <1>3, <4>1
      <4> QED
        BY <4>2
    <3> QED
      BY <3>1, <3>2
  <2>2. \A i \in 1 .. n : next[q[i]] = q[IF i = n THEN 1 ELSE i + 1]
    <3> TAKE i \in 1 .. n
    <3>1. CASE i = n
      <4>1. q[1] = r[2] /\ next[r[1]] = r[2]
        BY <1>1, <1>3, <1>4, <1>5, <1>6
      <4> QED
        BY <1>6, <3>1, <4>1
    <3>2. CASE i # n
      <4>1. i + 1 \in 1 .. n /\ q[i] = r[i + 1]
        BY <1>3, <1>6, <3>2
      <4>2. next[q[i]] = r[IF i + 1 = n THEN 1 ELSE (i + 1) + 1]
        BY <1>3, <4>1
      <4>3. i + 1 # n => q[i + 1] = r[(i + 1) + 1]
        BY <1>6, <4>1
      <4> QED
        BY <1>6, <3>2, <4>2, <4>3
    <3> QED
      BY <3>1, <3>2
  <2>3. k - 1 \in 1 .. n /\ tailBlock = q[k - 1] /\ q[1] = r[2]
    <3>1. k - 1 \in 1 .. n /\ k - 1 # n /\ (k - 1) + 1 = k /\ 1 \in 1 .. n /\ 1 # n /\ 1 + 1 = 2
      BY <1>3, <1>4
    <3>2. q[k - 1] = r[(k - 1) + 1] /\ q[1] = r[1 + 1]
      BY <1>6, <3>1
    <3> QED
      BY <1>3, <3>1, <3>2
  <2> QED
    BY <1>1, <1>3, <1>5, <1>6, <2>1, <2>2, <2>3 DEF Linked
<1>7. \A c : (\E i \in 1 .. n : q[i] = c) <=> \E i \in 1 .. n : r[i] = c
  <2> TAKE c
  <2>1. ASSUME NEW i \in 1 .. n, q[i] = c
        PROVE  \E j \in 1 .. n : r[j] = c
    <3>1. CASE i = n
      <4>1. 1 \in 1 .. n /\ r[1] = c
        BY <1>3, <1>6, <2>1, <3>1
      <4> QED
        BY <4>1
    <3>2. CASE i # n
      <4>1. i + 1 \in 1 .. n /\ r[i + 1] = c
        BY <1>3, <1>6, <2>1, <3>2
      <4> QED
        BY <4>1
    <3> QED
      BY <3>1, <3>2
  <2>2. ASSUME NEW i \in 1 .. n, r[i] = c
        PROVE  \E j \in 1 .. n : q[j] = c
    <3>1. CASE i = 1
      <4>1. n \in 1 .. n /\ q[n] = c
        BY <1>3, <1>6, <2>2, <3>1
      <4> QED
        BY <4>1
    <3>2. CASE i # 1
      <4>1. i - 1 \in 1 .. n /\ i - 1 # n /\ (i - 1) + 1 = i
        BY <1>3, <3>2
      <4>2. q[i - 1] = r[i]
        BY <1>6, <4>1
      <4> QED
        BY <2>2, <4>1, <4>2
    <3> QED
      BY <3>1, <3>2
  <2> QED
    BY <2>1, <2>2
<1>p. ProducerAt(q, n, k - 1)'
  <2>1. IF pp' = "link" THEN (\E b \in blocks : Made(q, n, b))'
        ELSE \A c \in blocks' : \E i \in 1 .. n : q[i] = c
    <3>1. CASE pp = "link"
      <4>1. PICK b \in blocks : Made(r, n, b)
        BY <1>0, <3>1 DEF ProducerAt
      <4>2. (\A i \in 1 .. n : q[i] # b) /\ \A c \in blocks : (\E i \in 1 .. n : q[i] = c) \/ c = b
        BY <1>7, <4>1 DEF Made
      <4>3. Made(q, n, b)'
        BY <1>1, <4>1, <4>2 DEF Made
      <4> QED
        BY <1>1, <3>1, <4>3
    <3>2. CASE pp # "link"
      BY <1>0, <1>1, <1>7, <3>2 DEF ProducerAt
    <3> QED
      BY <3>1, <3>2
  <2>2. \A i \in 2 .. n : front[r[i]] # tail[r[i]] <=> i <= k \/ (pp = "advance" /\ i = k + 1)
    BY <1>0 DEF ProducerAt
  <2>3. pp \in {"reuse", "reusePublish", "advance"} => k < n
    BY <1>0 DEF ProducerAt
  <2>4. \A i \in 2 .. n :
           front[q[i]] # tail[q[i]] <=> i <= k - 1 \/ (pp = "advance" /\ i = (k - 1) + 1)
    <3> TAKE i \in 2 .. n
    <3>1. CASE i = n
      BY <1>3, <1>4, <1>5, <1>6, <2>3, <3>1
    <3>2. CASE i # n
      <4>1. i \in 1 .. n /\ i + 1 \in 2 .. n /\ q[i] = r[i + 1]
        BY <1>3, <1>6, <3>2
      <4>2. front[r[i + 1]] # tail[r[i + 1]] <=> i + 1 <= k \/ (pp = "advance" /\ i + 1 = k + 1)
        BY <2>2, <4>1
      <4> QED
        BY <1>3, <4>1, <4>2
    <3> QED
      BY <3>1, <3>2
  <2>5. pp \in {"reuse", "reusePublish", "advance"} => k - 1 < n
    BY <1>3, <2>3
  <2> QED
    BY <1>0, <1>1, <2>1, <2>4, <2>5 DEF ProducerAt, HasRoom, After
<1>r. ConsumerAt(q, n, k - 1)'
  <2>1. front[r[2]] # tail[r[2]]
    <3>1. 2 \in 2 .. n /\ 2 <= k
      BY <1>3, <1>4
    <3> QED
      BY <1>0, <3>1 DEF ProducerAt
  <2> QED
    BY <1>1, <1>5, <2>1 DEF ConsumerAt
<1>8. \A i \in 1 .. k - 1 : q[i] = r[i + 1]
  BY <1>3, <1>4, <1>6
<1> QED
  BY <1>4, <1>5, <1>8, <1>t, <1>c, <1>l, <1>p, <1>r DEF Ring

-----------------------------------------------------------------------------
\* Every step keeps the invariant: one action, one lemma.
LEMMA QueueInvStep ==
  ASSUME QueueAssumption, QueueInv, [Next]_vars
  PROVE  QueueInv'
<1>1. PICK n, k, r : Ring(r, n, k)
  BY DEF QueueInv
<1>2. Types /\ Contents
  BY DEF QueueInv
<1>3. ASSUME Types' /\ Contents' /\ Ring(r, n, k)'
      PROVE  QueueInv'
  BY <1>3 DEF QueueInv
<1>4. CASE \E alloc \in BOOLEAN : Enqueue(alloc)
  BY <1>1, <1>2, <1>3, <1>4, EnqueueKeeps
<1>5. CASE Dequeue
  BY <1>1, <1>2, <1>3, <1>5, DequeueKeeps
<1>6. CASE Producer
  <2>1. CASE RoomConstruct
    BY <1>1, <1>2, <1>3, <2>1, RoomConstructKeeps
  <2>2. CASE RoomPublish
    BY <1>1, <1>2, <1>3, <2>2, RoomPublishKeeps
  <2>3. CASE NextFree
    BY <1>1, <1>2, <1>3, <2>3, NextFreeKeeps
  <2>4. CASE NoNextFree
    BY <1>1, <1>2, <1>3, <2>4, NoNextFreeKeeps
  <2>5. CASE ReuseConstruct
    BY <1>1, <1>2, <1>3, <2>5, ReuseConstructKeeps
  <2>6. CASE ReusePublish
    BY <1>1, <1>2, <1>3, <2>6, ReusePublishKeeps
  <2>7. CASE NewBlock
    BY <1>1, <1>2, <1>3, <2>7, NewBlockKeeps
  <2>8. CASE Link
    <3>1. Types' /\ Contents' /\ \E q : Ring(q, n + 1, k)'
      BY <1>1, <1>2, <2>8, LinkKeeps
    <3> QED
      BY <3>1 DEF QueueInv
  <2>9. CASE Advance
    <3>1. Types' /\ Contents' /\ Ring(r, n, k + 1)'
      BY <1>1, <1>2, <2>9, AdvanceKeeps
    <3> QED
      BY <3>1 DEF QueueInv
  <2> QED
    BY <1>6, <2>1, <2>2, <2>3, <2>4, <2>5, <2>6, <2>7, <2>8, <2>9 DEF Producer
<1>7. CASE Consumer
  <2>1. CASE Look
    BY <1>1, <1>2, <1>3, <2>1, LookKeeps
  <2>2. CASE NoElement
    BY <1>1, <1>2, <1>3, <2>2, NoElementKeeps
  <2>3. CASE EnterNext
    <3>1. Types' /\ Contents' /\ \E q : Ring(q, n, k - 1)'
      BY <1>1, <1>2, <2>3, EnterNextKeeps
    <3> QED
      BY <3>1 DEF QueueInv
  <2>4. CASE MoveOut
    BY <1>1, <1>2, <1>3, <2>4, MoveOutKeeps
  <2>5. CASE Release
    BY <1>1, <1>2, <1>3, <2>5, ReleaseKeeps
  <2> QED
    BY <1>7, <2>1, <2>2, <2>3, <2>4, <2>5 DEF Consumer
<1>8. CASE Destroy
  BY <1>1, <1>2, <1>3, <1>8, DestroyKeeps
<1>9. CASE UNCHANGED vars
  <2>1. Types'
    <3>1. TypeOK'
      <4>1. TypeOK
        BY <1>2 DEF Types
      <4>2. \A b \in blocks' :
               /\ front'[b] \in 0 .. size'[b] - 1 /\ tail'[b] \in 0 .. size'[b] - 1
               /\ data'[b] \in [0 .. size'[b] - 1 -> 0 .. LABELS - 1 \cup {NULL}]
        BY <1>9, <4>1 DEF TypeOK, vars, ringVars
      <4>3. /\ blocks' \subseteq Block /\ freed' \subseteq blocks'
            /\ frontBlock' \in blocks' /\ tailBlock' \in blocks' /\ largestBlockSize' \in Nat
            /\ size' \in [Block -> Nat] /\ next' \in [Block -> blocks']
            /\ element' \in 0 .. LABELS - 1 \cup {NULL} /\ moved' \in 0 .. LABELS - 1 \cup {NULL}
            /\ canAlloc' \in BOOLEAN /\ tailBlockAtStart' \in blocks' \cup {NULL}
            /\ sent' \in 0 .. LABELS - 1 /\ result' \in -1 .. LABELS - 1
            /\ present' \in BOOLEAN
        BY <1>9, <4>1, Zenon DEF TypeOK, vars, ringVars, producerVars, consumerVars
      <4>4. pp' = pp /\ cp' = cp
        BY <1>9 DEF vars, producerVars, consumerVars
      <4> QED
        BY <4>1, <4>2, <4>3, <4>4, Zenon DEF TypeOK
    <3> QED
      BY <1>2, <1>9, <3>1 DEF Types, vars, ringVars, producerVars, consumerVars
  <2>2. Contents'
    BY <1>2, <1>9 DEF Contents, Filled, Spanned, Constructed, ReadSlot, vars, ringVars,
                      producerVars, consumerVars
  <2>3. Ring(r, n, k)'
    BY <1>1, <1>9 DEF Ring, Linked, ProducerAt, Made, HasRoom, After, ConsumerAt, LastBlock,
                      vars, ringVars, producerVars, consumerVars
  <2> QED
    BY <1>3, <2>1, <2>2, <2>3
<1> QED
  BY <1>4, <1>5, <1>6, <1>7, <1>8, <1>9 DEF Next

\* The ring is never broken, and each thread finds the other's indices as it needs them.
LEMMA QueueInvAlways == Spec => []QueueInv
<1>1. Init => QueueInv
  BY QueueAssumption, InitHolds
<1>2. QueueInv /\ [Next]_vars => QueueInv'
  BY QueueAssumption, QueueInvStep
<1> QED
  BY <1>1, <1>2, PTL DEF Spec

\* Every variable has its type: the indices of a block stay inside it, whatever the
\* two threads do and however often blocks are reused or added.
THEOREM TypeOKTheorem == Spec => []TypeOK
<1>1. QueueInv => TypeOK
  BY DEF QueueInv, Types
<1> QED
  BY <1>1, QueueInvAlways, PTL

\* inner_enqueue constructs an element only where there is none and where try_dequeue is
\* not at work, and try_dequeue moves an element out of a slot only if there is one.
THEOREM SlotsKeptApartTheorem == Spec => []SlotsKeptApart
<1>1. ASSUME QueueInv
      PROVE  SlotsKeptApart
  <2>1. PICK n, k, r : Ring(r, n, k)
    BY <1>1 DEF QueueInv
  <2>2. /\ Types /\ Contents
        /\ Linked(r, n, k) /\ ProducerAt(r, n, k) /\ ConsumerAt(r, n, k) /\ Shapes(r, n, k)
    BY <1>1, <2>1, QueueAssumption, Known DEF QueueInv, Ring
  <2>3. ASSUME NEW b \in blocks, ~Spanned(b, tail[b]), pp \in {"room", "reuse"}
        PROVE  data[b][tail[b]] = NULL
    <3>1. tail[b] \in 0 .. size[b] - 1
      BY <2>2 DEF Shapes
    <3> QED
      BY <2>2, <2>3, <3>1 DEF Contents, Filled, Constructed
  <2>4. ASSUME NEW b \in blocks
        PROVE  ~Spanned(b, tail[b]) /\ (front[b] # tail[b] => Spanned(b, front[b]))
    BY <2>2, WithinEnds DEF Spanned, Shapes
  <2>5. ASSUME pp = "room"
        PROVE  /\ data[tailBlock][tail[tailBlock]] = NULL
               /\ cp \in {"move", "release"} =>
                     <<tailBlock, tail[tailBlock]>> # <<frontBlock, front[frontBlock]>>
    BY <2>2, <2>3, <2>4, <2>5 DEF Shapes, ConsumerAt
  <2>6. ASSUME pp = "reuse"
        PROVE  /\ data[next[tailBlock]][tail[next[tailBlock]]] = NULL
               /\ next[tailBlock] # frontBlock
    <3>1. k < n
      BY <2>2, <2>6 DEF ProducerAt
    <3>2. next[tailBlock] \in blocks /\ next[tailBlock] # frontBlock
      BY <2>2, <3>1 DEF Shapes, Linked
    <3> QED
      BY <2>3, <2>4, <2>6, <3>2
  <2>7. ASSUME cp = "move"
        PROVE  data[frontBlock][front[frontBlock]] # NULL
    <3>1. front[frontBlock] # tail[frontBlock] /\ frontBlock \in blocks
          /\ front[frontBlock] \in 0 .. size[frontBlock] - 1
      BY <2>2, <2>7 DEF ConsumerAt, Shapes
    <3> QED
      BY <2>2, <2>4, <2>7, <3>1 DEF Contents, Filled
  <2> QED
    BY <2>5, <2>6, <2>7 DEF SlotsKeptApart, WriteSlot, ReadSlot
<1> QED
  BY <1>1, QueueInvAlways, PTL

\* What try_dequeue and inner_enqueue assert: the block the consumer goes on to holds an
\* element, and the block the producer takes into use again is empty and not the front one.
THEOREM AssertionsHoldTheorem == Spec => []AssertionsHold
<1>1. ASSUME QueueInv
      PROVE  AssertionsHold
  <2>1. PICK n, k, r : Ring(r, n, k)
    BY <1>1 DEF QueueInv
  <2>2. /\ Types /\ Linked(r, n, k) /\ ProducerAt(r, n, k) /\ ConsumerAt(r, n, k)
        /\ Shapes(r, n, k)
    BY <1>1, <2>1, QueueAssumption, Known DEF QueueInv, Ring
  <2>3. ASSUME cp = "empty", ~LastBlock
        PROVE  front[next[frontBlock]] # tail[next[frontBlock]]
    <3>1. PICK i \in 1 .. k : tailBlockAtStart = r[i]
      BY <2>2, <2>3 DEF ConsumerAt
    <3>2. i # 1 /\ frontBlock = r[1] /\ n \in Nat /\ k \in 1 .. n
      BY <2>2, <2>3, <3>1 DEF Linked, LastBlock
    <3>3. 2 \in 2 .. n /\ 2 <= k /\ 1 \in 1 .. n /\ 1 # n /\ 1 + 1 = 2
      BY <3>1, <3>2
    <3>4. next[frontBlock] = r[2]
      BY <2>2, <3>2, <3>3 DEF Linked
    <3> QED
      BY <2>2, <3>3, <3>4 DEF ProducerAt
  <2>4. ASSUME pp = "reuse"
        PROVE  front[next[tailBlock]] = tail[next[tailBlock]] /\ next[tailBlock] # frontBlock
    <3>1. k < n /\ k \in Nat
      BY <2>2, <2>4 DEF ProducerAt, Shapes
    <3>2. next[tailBlock] = r[k + 1] /\ k + 1 \in 2 .. n /\ next[tailBlock] # frontBlock
      BY <2>2, <3>1 DEF Shapes, Linked
    <3>3. front[r[k + 1]] # tail[r[k + 1]] <=> k + 1 <= k \/ (pp = "advance" /\ k + 1 = k + 1)
      BY <2>2, <3>2 DEF ProducerAt
    <3> QED
      BY <2>4, <3>1, <3>2, <3>3
  <2> QED
    BY <2>3, <2>4 DEF AssertionsHold
<1> QED
  BY <1>1, QueueInvAlways, PTL

\* A try_dequeue that returns false found nothing because there was nothing when it began.
THEOREM FalseMeansEmptyTheorem == Spec => []FalseMeansEmpty
<1>1. QueueInv => FalseMeansEmpty
  BY DEF QueueInv, Ring, ConsumerAt, FalseMeansEmpty
<1> QED
  BY <1>1, QueueInvAlways, PTL

-----------------------------------------------------------------------------
(* The queue as a sequence, before and after a step. *)

\* The elements of the first k blocks of the ring, block by block.
Parts(r, k) == [i \in 1 .. k |-> Elements(r[i])]

\* The queue is made of them, up to tailBlock, however the ring is written.
QueueOfRing ==
    \A n, k, r :
       Linked(r, n, k) =>
          /\ Parts(r, k) \in Seq(Seq(Label)) /\ Len(Parts(r, k)) = k
          /\ Queue = FlattenSeq(Parts(r, k)) /\ Queue \in Seq(Label)

Whole == QueueInv /\ HeldInSpan /\ ElementsAreRuns /\ QueueOfRing

\* The invariant, with what follows from it about the queue as a sequence.
LEMMA WholeAlways == Spec => []Whole
<1>1. ASSUME QueueInv
      PROVE  QueueOfRing
  <2> SUFFICES ASSUME NEW n, NEW k, NEW r, Linked(r, n, k)
               PROVE  /\ Parts(r, k) \in Seq(Seq(Label)) /\ Len(Parts(r, k)) = k
                      /\ Queue = FlattenSeq(Parts(r, k)) /\ Queue \in Seq(Label)
    BY DEF QueueOfRing
  <2>1. Types /\ Contents
    BY <1>1 DEF QueueInv
  <2>2. k \in Nat /\ \A i \in 1 .. k : r[i] \in blocks
    BY DEF Linked
  <2>3. \A i \in 1 .. k : Elements(r[i]) \in Seq(Label)
    BY <2>1, <2>2, QueueAssumption, ElementsAre DEF ElementsAreRuns
  <2>4. Parts(r, k) \in Seq(Seq(Label)) /\ Len(Parts(r, k)) = k
    BY <2>2, <2>3 DEF Parts
  <2>5. Queue = FlattenSeq(Parts(r, k))
    BY <2>1, QueueAssumption, QueueIs DEF Parts
  <2> QED
    BY <2>4, <2>5, FlattenType
<1>2. QueueInv => Whole
  BY <1>1, QueueAssumption, HeldInSpanHolds, ElementsAre DEF QueueInv, Whole
<1> QED
  BY <1>2, QueueInvAlways, PTL

\* The queue ends with what is in tailBlock.
LEMMA QueueEnds ==
  ASSUME Whole, NEW n, NEW k, NEW r, Linked(r, n, k)
  PROVE  \E s \in Seq(Label) : Queue = s \o Elements(tailBlock)
<1> DEFINE ss == Parts(r, k)
           tt == [i \in 1 .. k - 1 |-> ss[i]]
<1>1. /\ ss \in Seq(Seq(Label)) /\ Len(ss) = k /\ Queue = FlattenSeq(ss)
  BY DEF Whole, QueueOfRing
<1>2. k \in Nat \ {0} /\ tailBlock = r[k]
  BY DEF Linked
<1>3. ss[k] = Elements(tailBlock)
  BY <1>2 DEF Parts
<1> HIDE DEF ss
<1>4. tt \in Seq(Seq(Label)) /\ Len(tt) = k - 1 /\ \A i \in 1 .. k - 1 : ss[i] = tt[i]
  BY <1>1, <1>2
<1> HIDE DEF tt
<1>5. FlattenSeq(ss) = FlattenSeq(tt) \o ss[k]
  <2>1. Len(ss) = Len(tt) + 1 /\ \A i \in 1 .. Len(tt) : ss[i] = tt[i]
    BY <1>1, <1>2, <1>4
  <2>2. FlattenSeq(ss) = FlattenSeq(tt) \o ss[Len(ss)]
    BY <1>1, <1>4, <2>1, FlattenLast, Zenon
  <2> QED
    BY <1>1, <2>2
<1>6. FlattenSeq(tt) \in Seq(Label)
  BY <1>4, FlattenType
<1> QED
  BY <1>1, <1>3, <1>5, <1>6

\* try_enqueue fails, and enqueue allocates, only when the queue holds at least the
\* maxSize elements that the constructor made room for.
THEOREM RoomForMaxSizeTheorem == Spec => RoomForMaxSize
<1>1. ASSUME Whole, [Next]_vars
      PROVE  [pp = "idle" /\ pp' = "full" => Len(Queue) >= maxSize]_vars
  <2>1. SUFFICES ASSUME pp = "idle", pp' = "full"
                 PROVE  Len(Queue) >= maxSize
    OBVIOUS
  <2>2. ~HasRoom(tailBlock)
    <3>1. ~UNCHANGED vars
      BY <2>1 DEF vars, producerVars
    <3>2. ASSUME NEW alloc \in BOOLEAN, Enqueue(alloc)
          PROVE  ~HasRoom(tailBlock)
      BY <2>1, <3>2 DEF Enqueue
    <3>3. ~Dequeue /\ ~Consumer /\ ~Destroy
      BY <2>1 DEF Dequeue, Consumer, Look, NoElement, EnterNext, MoveOut, Release, Idle,
                  producerVars, Destroy
    <3>4. ~Producer
      BY <2>1 DEF Producer, RoomConstruct, RoomPublish, NextFree, NoNextFree, ReuseConstruct,
                  ReusePublish, NewBlock, Link, Advance
    <3> QED
      BY <1>1, <3>1, <3>2, <3>3, <3>4 DEF Next
  <2>3. PICK n, k, r : Linked(r, n, k)
    BY <1>1 DEF Whole, QueueInv, Ring
  <2>4. PICK s \in Seq(Label) : Queue = s \o Elements(tailBlock)
    BY <1>1, <2>3, QueueEnds
  <2>5. /\ size[tailBlock] \in Nat /\ size[tailBlock] >= 2 /\ tailBlock \in blocks
        /\ front[tailBlock] \in 0 .. size[tailBlock] - 1
        /\ tail[tailBlock] \in 0 .. size[tailBlock] - 1
    BY <1>1, <2>3, QueueAssumption, Known DEF Whole, QueueInv, Shapes
  <2>6. size[tailBlock] >= maxSize + 1
    <3>1. size[tailBlock] >= FirstSize
      BY <1>1, <2>5 DEF Whole, QueueInv, Types
    <3> QED
      BY <2>5, <3>1, QueueAssumption, FirstSizeFits
  <2>7. Span(front[tailBlock], tail[tailBlock], size[tailBlock]) = size[tailBlock] - 1
    <3>1. front[tailBlock] = IF tail[tailBlock] + 1 = size[tailBlock] THEN 0
                             ELSE tail[tailBlock] + 1
      BY <2>2, <2>5, AfterIs DEF HasRoom
    <3> QED
      BY <2>5, <3>1 DEF Span
  <2>8. Elements(tailBlock) \in Seq(Label) /\ Len(Elements(tailBlock)) = size[tailBlock] - 1
    BY <1>1, <2>5, <2>7 DEF Whole, ElementsAreRuns
  <2>9. Len(Queue) = Len(s) + Len(Elements(tailBlock)) /\ Len(s) \in Nat
    <3>1. Len(s \o Elements(tailBlock)) = Len(s) + Len(Elements(tailBlock))
      BY <2>8, ConcatProperties, Zenon
    <3>2. Len(s) \in Nat
      BY LenProperties, Zenon
    <3> QED
      BY <2>4, <3>1, <3>2
  <2> QED
    BY <2>5, <2>6, <2>8, <2>9, QueueAssumption DEF QueueAssumption
<1> QED
  BY <1>1, WholeAlways, PTL DEF Spec, RoomForMaxSize

\* A block that holds the same elements before and after a step.
LEMMA ElementsSame ==
  ASSUME QueueAssumption, Whole, Whole', NEW b \in blocks, b \in blocks',
         front'[b] = front[b], tail'[b] = tail[b], size'[b] = size[b],
         \A j \in 0 .. size[b] - 1 : Spanned(b, j) => Held(b)'[j] = Held(b)[j]
  PROVE  Elements(b)' = Elements(b)
<1>1. /\ size[b] \in Nat /\ size[b] >= 2 /\ size[b] >= 1
      /\ front[b] \in 0 .. size[b] - 1 /\ tail[b] \in 0 .. size[b] - 1
  BY BlockTypes DEF Whole, QueueInv
<1>2. Elements(b) = Run(front[b], tail[b], size[b], Held(b))
  BY DEF Whole, ElementsAreRuns
<1>3. Elements(b)' = Run(front'[b], tail'[b], size'[b], Held(b)')
  BY DEF Whole, ElementsAreRuns
<1>4. \A j \in 0 .. size[b] - 1 : Within(front[b], tail[b], j) => Held(b)[j] = Held(b)'[j]
  BY DEF Spanned
<1>5. Run(front[b], tail[b], size[b], Held(b)) = Run(front[b], tail[b], size[b], Held(b)')
  <2> DEFINE f == front[b]  t == tail[b]  z == size[b]  d == Held(b)  e == Held(b)'
  <2>1. /\ z \in Nat /\ z >= 1 /\ f \in 0 .. z - 1 /\ t \in 0 .. z - 1
        /\ \A j \in 0 .. z - 1 : Within(f, t, j) => d[j] = e[j]
    BY <1>1, <1>4
  <2> HIDE DEF f, t, z, d, e
  <2>2. Run(f, t, z, d) = Run(f, t, z, e)
    BY <2>1, RunSame
  <2> QED
    BY <2>2 DEF f, t, z, d, e
<1> QED
  BY <1>2, <1>3, <1>5

\* Nothing happens to the queue when its blocks are the same and hold the same elements.
LEMMA QueueSame ==
  ASSUME Whole, Whole', NEW n, NEW k, NEW r, Linked(r, n, k), NEW m, NEW q, Linked(q, m, k)',
         \A i \in 1 .. k : Elements(q[i])' = Elements(r[i])
  PROVE  Queue' = Queue
<1>1. Queue = FlattenSeq(Parts(r, k))
  BY DEF Whole, QueueOfRing
<1>2. Queue' = FlattenSeq(Parts(q, k)')
  BY DEF Whole, QueueOfRing
<1>3. Parts(q, k)' = Parts(r, k)
  BY DEF Parts
<1> QED
  BY <1>1, <1>2, <1>3

\* An element comes into the queue at the end of the last block.
LEMMA QueueGrows ==
  ASSUME Whole, Whole', NEW n, NEW k, NEW r, Linked(r, n, k), Linked(r, n, k)', NEW v \in Label,
         \A i \in 1 .. k - 1 : Elements(r[i])' = Elements(r[i]),
         Elements(r[k])' = Append(Elements(r[k]), v)
  PROVE  Queue' = Append(Queue, v)
<1> DEFINE ss == Parts(r, k)
           uu == Parts(r, k)'
           tt == [i \in 1 .. k - 1 |-> ss[i]]
<1>1. /\ ss \in Seq(Seq(Label)) /\ Len(ss) = k /\ Queue = FlattenSeq(ss)
      /\ uu \in Seq(Seq(Label)) /\ Len(uu) = k /\ Queue' = FlattenSeq(uu)
  BY DEF Whole, QueueOfRing
<1>2. k \in Nat \ {0}
  BY DEF Linked
<1>3. uu[k] = Append(ss[k], v) /\ \A i \in 1 .. k - 1 : uu[i] = ss[i]
  BY <1>2 DEF Parts
<1> HIDE DEF ss, uu
<1>4. /\ tt \in Seq(Seq(Label)) /\ Len(ss) = Len(tt) + 1 /\ Len(uu) = Len(tt) + 1
      /\ \A i \in 1 .. Len(tt) : ss[i] = tt[i] /\ uu[i] = tt[i]
  BY <1>1, <1>2, <1>3
<1> HIDE DEF tt
<1>5. FlattenSeq(ss) = FlattenSeq(tt) \o ss[Len(ss)] /\ ss[Len(ss)] \in Seq(Label)
  BY <1>1, <1>4, FlattenLast, Zenon
<1>6. FlattenSeq(uu) = FlattenSeq(tt) \o uu[Len(uu)]
  BY <1>1, <1>4, FlattenLast, Zenon
<1>7. FlattenSeq(tt) \in Seq(Label)
  BY <1>4, FlattenType
<1> DEFINE f == FlattenSeq(tt)  l == ss[k]
<1>8. f \in Seq(Label) /\ l \in Seq(Label) /\ Queue = f \o l /\ Queue' = f \o Append(l, v)
  BY <1>1, <1>3, <1>5, <1>6, <1>7
<1> HIDE DEF f, l
<1>9. f \o Append(l, v) = Append(f \o l, v)
  BY <1>8
<1> QED
  BY <1>8, <1>9

\* An element comes into the queue in a block of its own.
LEMMA QueueGrowsByBlock ==
  ASSUME Whole, Whole', NEW n, NEW k, NEW r, Linked(r, n, k), Linked(r, n, k + 1)',
         NEW v \in Label, \A i \in 1 .. k : Elements(r[i])' = Elements(r[i]),
         Elements(r[k + 1])' = <<v>>
  PROVE  Queue' = Append(Queue, v)
<1> DEFINE ss == Parts(r, k)
           uu == Parts(r, k + 1)'
<1>1. /\ ss \in Seq(Seq(Label)) /\ Len(ss) = k /\ Queue = FlattenSeq(ss) /\ Queue \in Seq(Label)
      /\ uu \in Seq(Seq(Label)) /\ Len(uu) = k + 1 /\ Queue' = FlattenSeq(uu)
  BY DEF Whole, QueueOfRing
<1>2. k \in Nat
  BY DEF Linked
<1>3. uu[k + 1] = <<v>> /\ \A i \in 1 .. k : uu[i] = ss[i]
  BY <1>2 DEF Parts
<1> HIDE DEF ss, uu
<1>4. Len(uu) = Len(ss) + 1 /\ \A i \in 1 .. Len(ss) : uu[i] = ss[i]
  BY <1>1, <1>3
<1>5. FlattenSeq(uu) = FlattenSeq(ss) \o uu[Len(uu)]
  BY <1>1, <1>4, FlattenLast, Zenon
<1>6. Queue' = Queue \o <<v>>
  BY <1>1, <1>3, <1>5
<1> QED
  BY <1>1, <1>6

\* The first element leaves the queue.
LEMMA QueueShrinks ==
  ASSUME Whole, Whole', NEW n, NEW k, NEW r, Linked(r, n, k), Linked(r, n, k)', NEW v \in Label,
         \A i \in 2 .. k : Elements(r[i])' = Elements(r[i]),
         Elements(r[1]) = <<v>> \o Elements(r[1])'
  PROVE  Queue = <<v>> \o Queue'
<1> DEFINE ss == Parts(r, k)
           uu == Parts(r, k)'
           tt == [i \in 1 .. k - 1 |-> ss[i + 1]]
<1>1. /\ ss \in Seq(Seq(Label)) /\ Len(ss) = k /\ Queue = FlattenSeq(ss)
      /\ uu \in Seq(Seq(Label)) /\ Len(uu) = k /\ Queue' = FlattenSeq(uu)
  BY DEF Whole, QueueOfRing
<1>2. k \in Nat \ {0}
  BY DEF Linked
<1>3. ss[1] = <<v>> \o uu[1] /\ \A i \in 2 .. k : uu[i] = ss[i]
  BY <1>2 DEF Parts
<1> HIDE DEF ss, uu
<1>4. /\ tt \in Seq(Seq(Label)) /\ Len(ss) = Len(tt) + 1 /\ Len(uu) = Len(tt) + 1
      /\ \A i \in 1 .. Len(tt) : ss[i + 1] = tt[i] /\ uu[i + 1] = tt[i]
  BY <1>1, <1>2, <1>3
<1> HIDE DEF tt
<1>5. FlattenSeq(ss) = ss[1] \o FlattenSeq(tt)
  BY <1>1, <1>4, FlattenHead, Zenon
<1>6. FlattenSeq(uu) = uu[1] \o FlattenSeq(tt) /\ uu[1] \in Seq(Label)
  BY <1>1, <1>4, FlattenHead, Zenon
<1>7. FlattenSeq(tt) \in Seq(Label)
  BY <1>4, FlattenType
<1>8. (<<v>> \o uu[1]) \o FlattenSeq(tt) = <<v>> \o (uu[1] \o FlattenSeq(tt))
  <2> DEFINE x == <<v>>  y == uu[1]  w == FlattenSeq(tt)
  <2>1. x \in Seq(Label) /\ y \in Seq(Label) /\ w \in Seq(Label)
    BY <1>6, <1>7
  <2> HIDE DEF x, y, w
  <2>2. (x \o y) \o w = x \o (y \o w)
    BY <2>1, ConcatAssociative
  <2> QED
    BY <2>2 DEF x, y, w
<1> QED
  BY <1>1, <1>3, <1>5, <1>6, <1>8

\* The consumer leaves its block, which is empty.
LEMMA QueueLeaves ==
  ASSUME Whole, Whole', NEW n, NEW k, NEW r, Linked(r, n, k), NEW m, NEW q, Linked(q, m, k - 1)',
         \A i \in 1 .. k - 1 : Elements(q[i])' = Elements(r[i + 1]),
         Elements(r[1]) = <<>>
  PROVE  Queue' = Queue
<1> DEFINE ss == Parts(r, k)
           uu == Parts(q, k - 1)'
<1>1. /\ ss \in Seq(Seq(Label)) /\ Len(ss) = k /\ Queue = FlattenSeq(ss)
      /\ uu \in Seq(Seq(Label)) /\ Len(uu) = k - 1 /\ Queue' = FlattenSeq(uu)
      /\ Queue' \in Seq(Label)
  BY DEF Whole, QueueOfRing
<1>2. k \in Nat \ {0}
  BY DEF Linked
<1>3. ss[1] = <<>> /\ \A i \in 1 .. k - 1 : ss[i + 1] = uu[i]
  BY <1>2 DEF Parts
<1> HIDE DEF ss, uu
<1>4. Len(ss) = Len(uu) + 1 /\ \A i \in 1 .. Len(uu) : ss[i + 1] = uu[i]
  BY <1>1, <1>2, <1>3
<1>5. FlattenSeq(ss) = ss[1] \o FlattenSeq(uu)
  BY <1>1, <1>4, FlattenHead, Zenon
<1> QED
  BY <1>1, <1>3, <1>5, ConcatEmptySeq

\* A step that does not touch the blocks of the queue.
LEMMA QuietQueue ==
  ASSUME Whole, Whole', NEW n, NEW k, NEW r, Linked(r, n, k), NEW m, NEW q, Linked(q, m, k)',
         \A i \in 1 .. k : /\ q[i] = r[i] /\ front'[r[i]] = front[r[i]] /\ tail'[r[i]] = tail[r[i]]
                           /\ size'[r[i]] = size[r[i]] /\ data'[r[i]] = data[r[i]],
         UNCHANGED <<frontBlock, moved>>, cp' = "release" <=> cp = "release"
  PROVE  Queue' = Queue
<1>1. k \in Nat \ {0} /\ frontBlock = r[1]
  BY DEF Linked
<1>2. ReadSlot' = ReadSlot
  BY <1>1 DEF ReadSlot
<1>3. ASSUME NEW i \in 1 .. k
      PROVE  Elements(q[i])' = Elements(r[i])
  BY <1>2, <1>3 DEF Elements
<1> QED
  BY <1>3, QueueSame

\* An element that is constructed is not yet in the queue.
LEMMA ConstructQueue ==
  ASSUME QueueAssumption, Whole, Whole', NEW n, NEW k, NEW r, Linked(r, n, k), Linked(r, n, k)',
         NEW b \in blocks, data' = [data EXCEPT ![b][tail[b]] = element],
         UNCHANGED <<frontBlock, blocks, size, front, tail, moved, cp>>
  PROVE  Queue' = Queue
<1>1. ASSUME NEW i \in 1 .. k
      PROVE  Elements(r[i])' = Elements(r[i])
  <2> DEFINE c == r[i]
  <2>1. c \in blocks
    BY DEF Linked
  <2> HIDE DEF c
  <2>2. /\ size[c] \in Nat /\ front[c] \in 0 .. size[c] - 1 /\ tail[c] \in 0 .. size[c] - 1
        /\ c \in Block /\ b \in Block /\ data = [x \in Block |-> data[x]]
        /\ data[c] \in [0 .. size[c] - 1 -> Label \cup {NULL}]
    BY <2>1, BlockTypes DEF Whole, QueueInv, Types
  <2>3. ASSUME NEW j \in 0 .. size[c] - 1, Spanned(c, j)
        PROVE  Held(c)'[j] = Held(c)[j]
    <3>1. j # tail[c]
      BY <2>2, <2>3, WithinEnds DEF Spanned
    <3>2. data'[c][j] = data[c][j] /\ DOMAIN data'[c] = DOMAIN data[c]
      BY <2>2, <2>3, <3>1
    <3>3. Held(c)' = IF cp = "release" /\ c = frontBlock
                     THEN [data'[c] EXCEPT ![front[c]] = moved] ELSE data'[c]
      BY DEF Held
    <3> QED
      BY <2>2, <2>3, <3>2, <3>3 DEF Held
  <2>4. Elements(c)' = Elements(c)
    BY <2>1, <2>3, ElementsSame
  <2> QED
    BY <2>4 DEF c
<1> QED
  BY <1>1, QueueSame

\* An element that is moved out is in the queue until its slot is released.
LEMMA MoveOutQueue ==
  ASSUME QueueAssumption, Whole, Whole', MoveOut
  PROVE  Queue' = Queue
<1>1. PICK n, k, r : Ring(r, n, k) /\ Types /\ Contents
  BY DEF Whole, QueueInv
<1>2. Linked(r, n, k) /\ Linked(r, n, k)'
  BY <1>1, MoveOutKeeps DEF Ring
<1>3. /\ cp = "move" /\ cp' = "release"
      /\ moved' = data[frontBlock][front[frontBlock]]
      /\ data' = [data EXCEPT ![frontBlock][front[frontBlock]] = NULL]
      /\ UNCHANGED <<frontBlock, blocks, size, front, tail>>
  BY DEF MoveOut, TailFrame
<1>4. ASSUME NEW i \in 1 .. k
      PROVE  Elements(r[i])' = Elements(r[i])
  <2> DEFINE c == r[i]
  <2>1. c \in blocks /\ frontBlock \in blocks
    <3>1. r \in [1 .. n -> blocks] /\ i \in 1 .. n
      BY <1>2 DEF Linked
    <3> QED
      BY <1>1, <3>1 DEF Types, TypeOK
  <2> HIDE DEF c
  <2>2. /\ size[c] \in Nat /\ front[c] \in 0 .. size[c] - 1
        /\ c \in Block /\ frontBlock \in Block /\ data = [x \in Block |-> data[x]]
        /\ data[c] \in [0 .. size[c] - 1 -> Label \cup {NULL}]
    BY <1>1, <2>1, BlockTypes DEF Types
  <2>3. ASSUME NEW j \in 0 .. size[c] - 1
        PROVE  Held(c)'[j] = Held(c)[j]
    <3>1. Held(c) = data[c]
      BY <1>3 DEF Held
    <3>2. Held(c)' = IF c = frontBlock THEN [data'[c] EXCEPT ![front[c]] = moved'] ELSE data'[c]
      BY <1>3 DEF Held
    <3>3. CASE c # frontBlock
      BY <1>3, <2>2, <3>1, <3>2, <3>3
    <3>4. CASE c = frontBlock
      <4>1. data'[c] = [data[c] EXCEPT ![front[c]] = NULL]
        BY <1>3, <2>2, <3>4
      <4> QED
        BY <1>3, <2>2, <2>3, <3>1, <3>2, <3>4, <4>1
    <3> QED
      BY <3>3, <3>4
  <2>4. Elements(c)' = Elements(c)
    BY <1>3, <2>1, <2>3, ElementsSame
  <2> QED
    BY <2>4 DEF c
<1> QED
  BY <1>2, <1>4, QueueSame

\* front moves on: the oldest element is gone.
LEMMA ReleaseQueue ==
  ASSUME QueueAssumption, Whole, Whole', Release
  PROVE  moved \in Label /\ Queue = <<moved>> \o Queue'
<1>1. PICK n, k, r : Ring(r, n, k) /\ Types /\ Contents
  BY DEF Whole, QueueInv
<1>2. Linked(r, n, k) /\ Linked(r, n, k)' /\ ConsumerAt(r, n, k)
  BY <1>1, ReleaseKeeps DEF Ring
<1>3. /\ cp = "release" /\ cp' = "idle"
      /\ front' = [front EXCEPT ![frontBlock] = After(frontBlock, front[frontBlock])]
      /\ UNCHANGED <<frontBlock, blocks, size, tail, data>>
  BY DEF Release, TailFrame
<1>4. moved \in Label /\ k \in Nat \ {0} /\ frontBlock = r[1] /\ front \in [Block -> Nat]
      /\ \A i \in 1 .. k : r[i] \in blocks /\ (r[i] = frontBlock <=> i = 1)
  <2>1. moved \in Label /\ front \in [Block -> Nat]
    BY <1>1, <1>3 DEF Types
  <2>2. /\ k \in Nat \ {0} /\ frontBlock = r[1]
        /\ \A i \in 1 .. k : r[i] \in blocks /\ (r[i] = frontBlock <=> i = 1)
    BY <1>2 DEF Linked
  <2> QED
    BY <2>1, <2>2
<1>5. ASSUME NEW i \in 2 .. k
      PROVE  Elements(r[i])' = Elements(r[i])
  <2>1. r[i] \in blocks /\ r[i] # frontBlock
    BY <1>4
  <2>2. front'[r[i]] = front[r[i]]
    BY <1>3, <2>1
  <2>3. Held(r[i])' = Held(r[i])
    BY <1>3, <2>1 DEF Held
  <2> QED
    BY <1>3, <2>1, <2>2, <2>3, ElementsSame
<1>6. Elements(r[1]) = <<moved>> \o Elements(r[1])'
  <2> DEFINE b == r[1]  f == front[r[1]]  t == tail[r[1]]  z == size[r[1]]  g == front'[r[1]]
             d == Held(r[1])  e == data[r[1]]
  <2>1. /\ z \in Nat /\ z >= 2 /\ z >= 1 /\ f \in 0 .. z - 1 /\ t \in 0 .. z - 1
        /\ e \in [0 .. z - 1 -> Label \cup {NULL}] /\ b \in blocks /\ b \in Block
    BY <1>1, <1>4, BlockTypes
  <2>2. f # t
    BY <1>2, <1>3, <1>4 DEF ConsumerAt
  <2>3. g \in 0 .. z - 1 /\ (f + 1 = z => g = 0) /\ (f + 1 # z => g = f + 1)
    BY <1>3, <1>4, <2>1, AfterIs
  <2>4. Elements(b) = Run(f, t, z, d)
    BY <2>1 DEF Whole, ElementsAreRuns
  <2>5. d = [e EXCEPT ![f] = moved]
    BY <1>3, <1>4 DEF Held
  <2>6. Elements(b)' = Run(g, t, z, e)
    <3>1. b \in blocks' /\ Held(b)' = e
      BY <1>3, <2>1 DEF Held
    <3>2. Elements(b)' = Run(front'[b], tail'[b], size'[b], Held(b)')
      BY <3>1 DEF Whole, ElementsAreRuns
    <3> QED
      BY <1>3, <3>1, <3>2
  <2> HIDE DEF b, f, t, z, g, d, e
  <2>7. d[f] = moved /\ \A j \in 0 .. z - 1 : j # f => d[j] = e[j]
    BY <2>1, <2>5
  <2>8. Run(f, t, z, d) = <<moved>> \o Run(g, t, z, d)
    BY <2>1, <2>2, <2>3, <2>7, RunShrinks
  <2>9. Run(g, t, z, d) = Run(g, t, z, e)
    <3>1. \A j \in 0 .. z - 1 : Within(g, t, j) => d[j] = e[j]
      BY <2>1, <2>2, <2>3, <2>7, WithinShrinks
    <3>2. z \in Nat /\ z >= 1 /\ g \in 0 .. z - 1 /\ t \in 0 .. z - 1
      BY <2>1, <2>3
    <3> QED
      BY <3>1, <3>2, RunSame
  <2>10. Elements(b) = <<moved>> \o Elements(b)'
    BY <2>4, <2>6, <2>8, <2>9
  <2> QED
    BY <2>10 DEF b
<1> QED
  BY <1>2, <1>4, <1>5, <1>6, QueueShrinks

\* The tail moves on: the element that was constructed is in the queue.
LEMMA RoomPublishQueue ==
  ASSUME QueueAssumption, Whole, Whole', RoomPublish
  PROVE  sent \in Label /\ Queue' = Append(Queue, sent)
<1>1. PICK n, k, r : Ring(r, n, k) /\ Types /\ Contents
  BY DEF Whole, QueueInv
<1>2. Linked(r, n, k) /\ Linked(r, n, k)' /\ ProducerAt(r, n, k) /\ ConsumerAt(r, n, k)
  BY <1>1, RoomPublishKeeps DEF Ring
<1>3. /\ pp = "publish"
      /\ tail' = [tail EXCEPT ![tailBlock] = After(tailBlock, tail[tailBlock])]
      /\ UNCHANGED <<frontBlock, blocks, size, front, data, cp, moved>>
  BY DEF RoomPublish, Published, consumerVars
<1>4. /\ element = sent /\ sent \in Label /\ k \in Nat \ {0} /\ tailBlock = r[k]
      /\ tail \in [Block -> Nat]
      /\ \A i \in 1 .. k : r[i] \in blocks /\ (r[i] = tailBlock <=> i = k)
  BY <1>1, <1>2, <1>3 DEF Linked, Types
<1>5. ASSUME NEW i \in 1 .. k - 1
      PROVE  Elements(r[i])' = Elements(r[i])
  <2>1. r[i] \in blocks /\ r[i] # tailBlock
    BY <1>4
  <2>2. tail'[r[i]] = tail[r[i]]
    BY <1>3, <2>1
  <2>3. Held(r[i])' = Held(r[i])
    BY <1>3 DEF Held
  <2> QED
    BY <1>3, <2>1, <2>2, <2>3, ElementsSame
<1>6. Elements(r[k])' = Append(Elements(r[k]), sent)
  <2> DEFINE b == r[k]  f == front[r[k]]  t == tail[r[k]]  z == size[r[k]]  a == tail'[r[k]]
             d == Held(r[k])
  <2>1. /\ z \in Nat /\ z >= 2 /\ f \in 0 .. z - 1 /\ t \in 0 .. z - 1
        /\ data[b] \in [0 .. z - 1 -> Label \cup {NULL}] /\ b \in blocks /\ b \in Block
    BY <1>1, <1>4, BlockTypes
  <2>2. a \in 0 .. z - 1 /\ (t + 1 = z => a = 0) /\ (t + 1 # z => a = t + 1) /\ a # f
    <3>1. a = After(b, t) /\ After(b, t) # f
      BY <1>2, <1>3, <1>4, <2>1 DEF ProducerAt, HasRoom
    <3> QED
      BY <2>1, <3>1, AfterIs
  <2>3. Elements(b) = Run(f, t, z, d)
    BY <2>1 DEF Whole, ElementsAreRuns
  <2>4. Elements(b)' = Run(f, a, z, d)
    <3>1. b \in blocks' /\ Held(b)' = d
      BY <1>3, <2>1 DEF Held
    <3>2. Elements(b)' = Run(front'[b], tail'[b], size'[b], Held(b)')
      BY <3>1 DEF Whole, ElementsAreRuns
    <3> QED
      BY <1>3, <3>1, <3>2
  <2>5. d[t] = sent
    <3>1. data[b][t] = sent
      BY <1>2, <1>3, <1>4 DEF ProducerAt
    <3>2. cp = "release" /\ b = frontBlock => f # t
      BY <1>2 DEF ConsumerAt
    <3> QED
      BY <2>1, <3>1, <3>2 DEF Held
  <2> HIDE DEF b, f, t, z, a, d
  <2>6. Run(f, a, z, d) = Append(Run(f, t, z, d), d[t])
    BY <2>1, <2>2, <2>4, RunGrows
  <2>7. Elements(b)' = Append(Elements(b), sent)
    BY <2>3, <2>4, <2>5, <2>6
  <2> QED
    BY <2>7 DEF b
<1> QED
  BY <1>2, <1>4, <1>5, <1>6, QueueGrows

\* tailBlock moves on: the element that was put into the next block is in the queue.
LEMMA AdvanceQueue ==
  ASSUME QueueAssumption, Whole, Whole', Advance
  PROVE  sent \in Label /\ Queue' = Append(Queue, sent)
<1>1. PICK n, k, r : Ring(r, n, k) /\ Types /\ Contents
  BY DEF Whole, QueueInv
<1>2. /\ Linked(r, n, k) /\ Linked(r, n, k + 1)' /\ ProducerAt(r, n, k) /\ Shapes(r, n, k)
  BY <1>1, AdvanceKeeps, Known DEF Ring
<1>3. /\ pp = "advance"
      /\ UNCHANGED <<frontBlock, blocks, size, front, tail, data, cp, moved>>
  BY DEF Advance, Published, consumerVars
<1>4. element = sent /\ sent \in Label
  BY <1>1, <1>3 DEF Types
<1>5. \A c : Elements(c)' = Elements(c)
  BY <1>3 DEF Elements, ReadSlot
<1>6. Elements(r[k + 1]) = <<sent>>
  <2> DEFINE b == r[k + 1]
             f == front[r[k + 1]]  a == tail[r[k + 1]]  z == size[r[k + 1]]  d == data[r[k + 1]]
  <2>1. b = next[tailBlock] /\ b \in blocks /\ b # frontBlock
    BY <1>2, <1>3 DEF ProducerAt, Shapes, Linked
  <2>2. z \in Nat /\ z >= 2 /\ z >= 1 /\ f \in 0 .. z - 1
    BY <1>1, <2>1, BlockTypes
  <2>3. /\ a \in 0 .. z - 1 /\ (f + 1 = z => a = 0) /\ (f + 1 # z => a = f + 1)
        /\ a # f /\ d[f] = sent
    <3>1. a = After(b, f) /\ d[f] = sent
      BY <1>2, <1>3, <1>4, <2>1 DEF ProducerAt
    <3> QED
      BY <2>2, <3>1, AfterIs
  <2>4. Held(b) = d
    BY <2>1 DEF Held
  <2>5. Elements(b) = Run(f, a, z, d)
    BY <2>1, <2>4 DEF Whole, ElementsAreRuns
  <2> HIDE DEF b, f, a, z, d
  <2>6. Run(f, a, z, d) = Append(Run(f, f, z, d), d[f])
    BY <2>2, <2>3, <2>5, RunGrows
  <2>7. Run(f, f, z, d) = <<>>
    <3>1. Span(f, f, z) = 0
      BY <2>2 DEF Span
    <3>2. (f - f) % z = 0
      BY <2>2, <3>1, RunSlots
    <3> QED
      BY <3>2 DEF Run
  <2>8. Elements(b) = <<sent>>
    BY <2>3, <2>5, <2>6, <2>7
  <2> QED
    BY <2>8 DEF b
<1> QED
  BY <1>2, <1>4, <1>5, <1>6, QueueGrowsByBlock

\* The consumer leaves a block that is empty.
LEMMA EnterNextQueue ==
  ASSUME QueueAssumption, Whole, Whole', EnterNext
  PROVE  Queue' = Queue
<1>1. PICK n, k, r : Ring(r, n, k) /\ Types /\ Contents
  BY DEF Whole, QueueInv
<1>2. Linked(r, n, k) /\ k \in 2 .. n /\ front[r[1]] = tail[r[1]]
  BY <1>1, EnterNextKeeps DEF Ring
<1>3. PICK q : Linked(q, n, k - 1)' /\ \A i \in 1 .. k - 1 : q[i] = r[i + 1]
  BY <1>1, EnterNextKeeps DEF Ring
<1>4. cp # "release" /\ cp' # "release" /\ UNCHANGED <<front, tail, size, data>>
  BY DEF EnterNext, TailFrame
<1>5. \A c : Elements(c)' = Elements(c)
  BY <1>4 DEF Elements
<1>6. Elements(r[1]) = <<>>
  <2>1. r[1] \in blocks
    BY <1>2 DEF Linked
  <2>2. front[r[1]] \in Nat
    BY <1>1, <2>1, BlockTypes
  <2>3. Elements(r[1]) \in Seq(Label) /\ Len(Elements(r[1])) = 0
    BY <1>2, <2>1, <2>2 DEF Whole, ElementsAreRuns, Span
  <2> QED
    BY <2>3
<1> QED
  BY <1>2, <1>3, <1>5, <1>6, QueueLeaves

-----------------------------------------------------------------------------
\* The steps that only look, or that change what neither thread has reached yet, leave
\* the queue as it is.
LooksOnly ==
    \/ \E alloc \in BOOLEAN : Enqueue(alloc)
    \/ NextFree \/ NoNextFree \/ Dequeue \/ Look \/ NoElement \/ Destroy

LEMMA LookingQueue ==
  ASSUME QueueAssumption, Whole, Whole', LooksOnly
  PROVE  Queue' = Queue
<1>1. UNCHANGED <<ringVars, moved>> /\ (cp' = "release" <=> cp = "release")
  BY DEF LooksOnly, Enqueue, NextFree, NoNextFree, Keep, Dequeue, Look, NoElement, Idle, Destroy,
         consumerVars
<1>2. ReadSlot' = ReadSlot /\ Walk' = Walk
  BY <1>1 DEF ringVars, ReadSlot, Walk
<1>3. ASSUME NEW b
      PROVE  Elements(b)' = Elements(b)
  BY <1>1, <1>2 DEF ringVars, Elements
<1> QED
  BY <1>1, <1>2, <1>3 DEF ringVars, Queue

\* An element that is constructed at the tail is not yet in the queue.
LEMMA RoomConstructQueue ==
  ASSUME QueueAssumption, Whole, Whole', RoomConstruct
  PROVE  Queue' = Queue
<1>1. PICK n, k, r : Ring(r, n, k) /\ Types /\ Contents
  BY DEF Whole, QueueInv
<1>2. Linked(r, n, k) /\ Linked(r, n, k)' /\ tailBlock \in blocks
  BY <1>1, RoomConstructKeeps DEF Ring, Types, TypeOK
<1>3. /\ data' = [data EXCEPT ![tailBlock][tail[tailBlock]] = element]
      /\ UNCHANGED <<frontBlock, blocks, size, front, tail, moved, cp>>
  BY DEF RoomConstruct, Construct, Keep, consumerVars
<1> QED
  BY <1>2, <1>3, ConstructQueue

\* Nor is one that is constructed in the next block,
LEMMA ReuseConstructQueue ==
  ASSUME QueueAssumption, Whole, Whole', ReuseConstruct
  PROVE  Queue' = Queue
<1>1. PICK n, k, r : Ring(r, n, k) /\ Types /\ Contents
  BY DEF Whole, QueueInv
<1>2. Linked(r, n, k) /\ Linked(r, n, k)' /\ next[tailBlock] \in blocks
  BY <1>1, ReuseConstructKeeps DEF Ring, Types, TypeOK
<1>3. /\ data' = [data EXCEPT ![next[tailBlock]][tail[next[tailBlock]]] = element]
      /\ UNCHANGED <<frontBlock, blocks, size, front, tail, moved, cp>>
  BY DEF ReuseConstruct, Construct, Keep, consumerVars
<1> QED
  BY <1>2, <1>3, ConstructQueue

\* even when the tail of that block has moved:
LEMMA ReusePublishQueue ==
  ASSUME QueueAssumption, Whole, Whole', ReusePublish
  PROVE  Queue' = Queue
<1>1. PICK n, k, r : Ring(r, n, k) /\ Types /\ Contents
  BY DEF Whole, QueueInv
<1>2. Linked(r, n, k) /\ Linked(r, n, k)' /\ ProducerAt(r, n, k)
  BY <1>1, ReusePublishKeeps DEF Ring
<1>3. /\ pp = "reusePublish"
      /\ tail' = [tail EXCEPT ![next[tailBlock]] = After(next[tailBlock], @)]
      /\ UNCHANGED <<frontBlock, size, front, data, moved, cp>>
  BY DEF ReusePublish, Keep, consumerVars
<1>4. /\ k \in Nat \ {0} /\ k + 1 \in 1 .. n /\ next[tailBlock] = r[k + 1]
      /\ \A i \in 1 .. k : i \in 1 .. n /\ r[i] # next[tailBlock]
  BY <1>2, <1>3 DEF Linked, ProducerAt
<1>5. \A i \in 1 .. k : tail'[r[i]] = tail[r[i]]
  BY <1>3, <1>4
<1> QED
  BY <1>2, <1>3, <1>5, QuietQueue

\* nor the one in a new block,
LEMMA NewBlockQueue ==
  ASSUME QueueAssumption, Whole, Whole', NewBlock
  PROVE  Queue' = Queue
<1>1. PICK n, k, r : Ring(r, n, k) /\ Types /\ Contents
  BY DEF Whole, QueueInv
<1>2. Linked(r, n, k) /\ Linked(r, n, k)'
  BY <1>1, NewBlockKeeps DEF Ring
<1> DEFINE b == Fresh(blocks)
<1>3. /\ \E x, y, z, w :
            /\ size' = [size EXCEPT ![b] = x] /\ data' = [data EXCEPT ![b] = y]
            /\ front' = [front EXCEPT ![b] = z] /\ tail' = [tail EXCEPT ![b] = w]
      /\ UNCHANGED <<frontBlock, moved, cp>>
  <2> HIDE DEF b
  <2> QED
    BY DEF NewBlock, Keep, consumerVars, b
<1>4. b \notin blocks
  BY <1>1 DEF NewBlock, Fresh, Types, TypeOK
<1>5. \A i \in 1 .. k : r[i] \in blocks
  BY <1>2 DEF Linked
<1> HIDE DEF b
<1>6. \A i \in 1 .. k : /\ size'[r[i]] = size[r[i]] /\ data'[r[i]] = data[r[i]]
                        /\ front'[r[i]] = front[r[i]] /\ tail'[r[i]] = tail[r[i]]
  BY <1>3, <1>4, <1>5
<1> QED
  BY <1>2, <1>3, <1>6, QuietQueue

\* even when that block is in the ring: tailBlock comes before it.
LEMMA LinkQueue ==
  ASSUME QueueAssumption, Whole, Whole', Link
  PROVE  Queue' = Queue
<1>1. PICK n, k, r : Ring(r, n, k) /\ Types /\ Contents
  BY DEF Whole, QueueInv
<1>2. PICK q : Linked(q, n + 1, k)' /\ \A i \in 1 .. k : q[i] = r[i]
  BY <1>1, LinkKeeps DEF Ring
<1>3. Linked(r, n, k)
  BY <1>1 DEF Ring
<1>4. UNCHANGED <<frontBlock, size, front, tail, data, moved, cp>>
  BY DEF Link, Keep, consumerVars
<1> QED
  BY <1>2, <1>3, <1>4, QuietQueue

\* At first there is one block, and nothing in it.
LEMMA InitQueue ==
  ASSUME QueueAssumption, Init
  PROVE  Queue = <<>>
<1>1. PICK n, k, r : Linked(r, n, k) /\ Types /\ Contents
  BY InitHolds DEF QueueInv, Ring
<1>2. /\ frontBlock \in Block /\ frontBlock = tailBlock
      /\ front = [b \in Block |-> 0] /\ tail = [b \in Block |-> 0]
  BY <1>1 DEF Init, Types, TypeOK
<1>3. k = 1
  <2>1. k \in 1 .. n /\ 1 \in 1 .. n /\ r[k] = r[1]
    BY <1>1, <1>2 DEF Linked
  <2> QED
    BY <1>1, <2>1 DEF Linked
<1>4. front[frontBlock] = tail[frontBlock]
  BY <1>2
<1> QED
  BY <1>1, <1>3, <1>4, OneBlock

\* Every step is one of the contract, or leaves what the contract speaks of alone.
LEMMA ContractStep ==
  ASSUME QueueAssumption, Whole, Whole', [Next]_vars
  PROVE  [Contract!FNext]_<<Queue, sent, result>>
<1> USE DEF Contract!FNext, Contract!Put, Contract!Get
<1>1. ASSUME LooksOnly
      PROVE  UNCHANGED <<Queue, sent, result>>
  <2>1. UNCHANGED <<sent, result>>
    BY <1>1 DEF LooksOnly, Enqueue, NextFree, NoNextFree, Keep, Dequeue, Look, NoElement, Idle,
                Destroy
  <2> QED
    BY <1>1, <2>1, LookingQueue
<1>2. ASSUME RoomPublish \/ Advance
      PROVE  Contract!Put
  <2>1. sent' = (sent + 1) % LABELS /\ UNCHANGED result
    BY <1>2 DEF RoomPublish, Advance, Published
  <2> QED
    BY <1>2, <2>1, RoomPublishQueue, AdvanceQueue
<1>3. ASSUME Release
      PROVE  Contract!Get
  <2>1. result' = moved /\ UNCHANGED sent
    BY <1>3 DEF Release, Idle
  <2>2. moved \in Label /\ Queue = <<moved>> \o Queue'
    BY <1>3, ReleaseQueue
  <2>3. Queue' \in Seq(Label)
    <3>1. PICK n, k, r : Linked(r, n, k)'
      BY DEF Whole, QueueInv, Ring
    <3>2. Label' = Label
      BY DEF Label
    <3> QED
      BY <3>1, <3>2 DEF Whole, QueueOfRing
  <2>4. Queue # <<>> /\ Head(Queue) = moved /\ Tail(Queue) = Queue'
    BY <2>2, <2>3
  <2> QED
    BY <2>1, <2>4
<1>4. ASSUME RoomConstruct \/ ReuseConstruct \/ ReusePublish \/ NewBlock \/ Link
      PROVE  UNCHANGED <<Queue, sent, result>>
  <2>1. UNCHANGED <<sent, result>>
    BY <1>4 DEF RoomConstruct, ReuseConstruct, ReusePublish, NewBlock, Link, Keep
  <2> QED
    BY <1>4, <2>1, RoomConstructQueue, ReuseConstructQueue, ReusePublishQueue, NewBlockQueue,
       LinkQueue
<1>5. ASSUME EnterNext \/ MoveOut
      PROVE  UNCHANGED <<Queue, sent, result>>
  <2>1. UNCHANGED <<sent, result>>
    BY <1>5 DEF EnterNext, MoveOut, Idle
  <2> QED
    BY <1>5, <2>1, EnterNextQueue, MoveOutQueue
<1>6. CASE UNCHANGED vars
  BY <1>6 DEF vars, ringVars, consumerVars, Queue, Walk, Elements, ReadSlot
<1>7. CASE Next
  BY <1>1, <1>2, <1>3, <1>4, <1>5, <1>7 DEF Next, Producer, Consumer, LooksOnly
<1> QED
  BY <1>6, <1>7

\* What is put in comes out once, in order, across every change of blocks: the queue of
\* readerwriterqueue.h, its two threads taking their steps in any order, is a first-in
\* first-out queue.
THEOREM KeepsOrderTheorem == Spec => KeepsOrder
<1>1. Init => Contract!FInit
  BY QueueAssumption, InitQueue DEF Contract!FInit, Init
<1>2. Whole /\ Whole' /\ [Next]_vars => [Contract!FNext]_<<Queue, sent, result>>
  BY QueueAssumption, ContractStep
<1> QED
  BY <1>1, <1>2, WholeAlways, PTL DEF Spec, KeepsOrder, Contract!FSpec
=============================================================================
