------------------------ MODULE MicroAllocatorProofs ------------------------
(***************************************************************************)
(* MicroAllocator keeps the blocks of its chunks apart, its table sorted,  *)
(* and finds the chunk of a block by it, whether it looks at the last hit, *)
(* searches from the start or by halves, for any number of threads, chunks *)
(* and blocks, and although the table changes between the search for a     *)
(* chunk and its use.                                                      *)
(***************************************************************************)
EXTENDS MicroAllocator, SequenceLemmas

\* The addresses of a chunk that has memory.
Span(s) == s .. s + mMaxChunks - 1
Area(c) == IF mData[c] = NULL THEN {} ELSE Span(mData[c])

Task == [pc : {"idle", "free", "realloc"}, p : Nat \cup {NULL}, chunk : Chunk \cup {NULL}]
Entry == [start : Spot, chunk : Chunk]

Types ==
    /\ mData \in [Chunk -> Spot \cup {Base, NULL}]
    /\ mData[FixedChunk] = Base /\ \A c \in Chunk : mData[c] = Base => c = FixedChunk
    /\ mUsedCount \in [Chunk -> Nat] /\ mFreeList \in [Chunk -> Seq(Nat)]
    /\ chunkChunks \in 1 .. MaxChunkChunks /\ mCurrent \in Chunk
    /\ mMicroChunks \in Seq(Entry) /\ mLastMicroChunk \in Nat
    /\ held \in SUBSET Nat /\ bigBlocks \in SUBSET Spot
    /\ task \in [Thread -> Task]

\* No two chunks share memory, nor one and a block of the C library; what has not been
\* made yet has none.
Spaces ==
    /\ \A c, d \in Chunk : mData[c] = mData[d] /\ mData[c] # NULL => c = d
    /\ \A c \in Chunk : mData[c] \notin bigBlocks
    /\ \A c \in Chunk : c[1] > chunkChunks => mData[c] = NULL

\* A block is used by the application or about to be freed by one thread.
OneUser ==
    /\ \A t \in Thread : task[t].pc = "idle" <=> task[t].p = NULL
    /\ \A t \in Thread : task[t].p \notin held
    /\ \A t, u \in Thread : task[t].p = task[u].p /\ task[t].p # NULL => t = u

\* It is one of the C library's or lies in a chunk.
Known == \A p \in Busy : p \in bigBlocks \/ \E c \in Chunk : p \in Area(c)

\* What Tiled says of one chunk.
TiledAt(c) ==
    /\ Range(mFreeList[c]) = Area(c) \ Busy
    /\ IsInjective(mFreeList[c])
    /\ mUsedCount[c] = Cardinality(Area(c) \cap Busy)
    /\ c # FixedChunk => (mData[c] = NULL <=> mUsedCount[c] = 0)

MicroInv ==
    /\ Types /\ Spaces /\ OneUser /\ Known
    /\ FreedWhereItBelongs /\ (\A c \in Chunk : TiledAt(c)) /\ TableExact

-----------------------------------------------------------------------------
\* What the assumption says of numbers.
LEMMA Numbers ==
  ASSUME MicroAssumption
  PROVE  /\ Spot \subseteq Nat /\ Base \in Nat /\ Base \notin Spot
         /\ mMaxChunks \in Nat /\ mMaxChunks > 0
         /\ NULL \notin Nat /\ NULL \notin Chunk /\ FixedChunk \in Chunk
         /\ \A s, r \in Spot \cup {Base} : s # r => s + mMaxChunks < r \/ r + mMaxChunks < s
         /\ DEFAULT_CHUNKS \in Nat /\ DEFAULT_CHUNKS > 0
         /\ MaxChunkChunks \in Nat /\ MaxChunkChunks > 0 /\ LINEAR \in Nat
BY DEF MicroAssumption, Chunk, FixedChunk

\* Two memories have no address in common.
LEMMA SpansApart ==
  ASSUME MicroAssumption, NEW s \in Spot \cup {Base}, NEW r \in Spot \cup {Base}, s # r
  PROVE  Span(s) \cap Span(r) = {} /\ r \notin Span(s)
<1>1. /\ s \in Nat /\ r \in Nat /\ mMaxChunks \in Nat /\ mMaxChunks > 0
      /\ s + mMaxChunks < r \/ r + mMaxChunks < s
  BY Numbers
<1> QED
  BY <1>1 DEF Span

\* An address in a memory, as isInside() tests it.
LEMMA WithinSpan ==
  ASSUME MicroAssumption, NEW s \in Nat, NEW p \in Nat
  PROVE  Within(p, s) <=> p \in Span(s)
BY Numbers DEF Within, End, Span

\* The list of a new chunk.
LEMMA NewBlocks ==
  ASSUME MicroAssumption, NEW s \in Nat
  PROVE  /\ Blocks(s) \in Seq(Nat) /\ Blocks(s) # <<>> /\ IsInjective(Blocks(s))
         /\ Head(Blocks(s)) = s /\ Range(Blocks(s)) = Span(s)
         /\ IsFiniteSet(Span(s)) /\ s \in Span(s) /\ Span(s) \subseteq Nat
<1>0. mMaxChunks \in Nat /\ mMaxChunks > 0
  BY Numbers
<1>1. /\ Blocks(s) \in Seq(Nat) /\ DOMAIN Blocks(s) = 1 .. mMaxChunks /\ Len(Blocks(s)) = mMaxChunks
      /\ \A i \in 1 .. mMaxChunks : Blocks(s)[i] = s + i - 1
  BY <1>0 DEF Blocks
<1>2. Blocks(s) # <<>> /\ Head(Blocks(s)) = s
  BY <1>0, <1>1
<1>3. IsInjective(Blocks(s))
  BY <1>0, <1>1 DEF IsInjective
<1>4. Range(Blocks(s)) = Span(s)
  <2>1. ASSUME NEW x \in Span(s)
        PROVE  x \in Range(Blocks(s))
    <3>1. x - s + 1 \in 1 .. mMaxChunks /\ Blocks(s)[x - s + 1] = x
      BY <1>0, <1>1, <2>1 DEF Span
    <3> QED
      BY <1>1, <3>1 DEF Range
  <2>2. ASSUME NEW x \in Range(Blocks(s))
        PROVE  x \in Span(s)
    BY <1>0, <1>1, <2>2 DEF Range, Span
  <2> QED
    BY <2>1, <2>2
<1>5. IsFiniteSet(Span(s)) /\ s \in Span(s) /\ Span(s) \subseteq Nat
  BY <1>0, FS_Interval DEF Span
<1> QED
  BY <1>1, <1>2, <1>3, <1>4, <1>5

\* The area of a chunk.
LEMMA AreaIs ==
  ASSUME MicroAssumption, Types, NEW c \in Chunk
  PROVE  /\ mData[c] # NULL => /\ mData[c] \in Nat /\ mData[c] \in Spot \cup {Base}
                               /\ Area(c) = Span(mData[c])
                               /\ Range(Blocks(mData[c])) = Area(c)
         /\ IsFiniteSet(Area(c)) /\ Area(c) \subseteq Nat
<1>1. CASE mData[c] = NULL
  BY <1>1, FS_EmptySet DEF Area
<1>2. CASE mData[c] # NULL
  <2>1. mData[c] \in Nat /\ mData[c] \in Spot \cup {Base}
    BY <1>2, Numbers DEF Types
  <2> QED
    BY <1>2, <2>1, NewBlocks DEF Area
<1> QED
  BY <1>1, <1>2

\* An address lies in one chunk at most, and in none if its memory is the C library's.
LEMMA AreasApart ==
  ASSUME MicroAssumption, Types, Spaces
  PROVE  /\ \A c, d \in Chunk : \A x : x \in Area(c) /\ x \in Area(d) => c = d
         /\ \A c \in Chunk : \A s \in Spot : s \in Area(c) => s = mData[c]
         /\ \A c \in Chunk : \A x \in bigBlocks : x \notin Area(c)
<1>1. ASSUME NEW c \in Chunk, NEW d \in Chunk, NEW x, x \in Area(c), x \in Area(d)
      PROVE  c = d
  <2>1. mData[c] # NULL /\ mData[d] # NULL
    BY <1>1 DEF Area
  <2>2. mData[c] = mData[d]
    BY <1>1, <2>1, AreaIs, SpansApart
  <2> QED
    BY <2>1, <2>2 DEF Spaces
<1>2. ASSUME NEW c \in Chunk, NEW s \in Spot, s \in Area(c)
      PROVE  s = mData[c]
  <2>1. mData[c] # NULL
    BY <1>2 DEF Area
  <2> QED
    BY <1>2, <2>1, AreaIs, SpansApart
<1>3. ASSUME NEW c \in Chunk, NEW x \in bigBlocks, x \in Area(c)
      PROVE  FALSE
  BY <1>2, <1>3 DEF Types, Spaces
<1> QED
  BY <1>1, <1>2, <1>3

\* Who is busy with a block.
LEMMA BusyIs ==
  \A x : x \in Busy <=> x \in held \/ (x # NULL /\ \E t \in Thread : task[t].p = x)
BY DEF Busy

\* Tiled chunk by chunk.
LEMMA TiledByChunk ==
  ASSUME MicroAssumption, Types
  PROVE  Tiled <=> \A c \in Chunk : TiledAt(c)
<1>1. ASSUME NEW c \in Chunk
      PROVE  (IF mData[c] = NULL THEN {} ELSE Range(Blocks(mData[c]))) = Area(c)
  BY <1>1, AreaIs DEF Area
<1> QED
  BY <1>1, Zenon DEF Tiled, TiledAt

-----------------------------------------------------------------------------
\* An entry of the table, and how the memories of two of them lie.
LEMMA TableEntries ==
  ASSUME MicroAssumption, Types, TableExact
  PROVE  /\ Len(mMicroChunks) \in Nat /\ DOMAIN mMicroChunks = 1 .. Len(mMicroChunks)
         /\ \A i \in 1 .. Len(mMicroChunks) :
               /\ mMicroChunks[i] \in Entry /\ mMicroChunks[i].start \in Nat
               /\ mMicroChunks[i].chunk # FixedChunk
               /\ mData[mMicroChunks[i].chunk] = mMicroChunks[i].start
         /\ \A i, j \in 1 .. Len(mMicroChunks) :
               i < j => mMicroChunks[i].start + mMaxChunks < mMicroChunks[j].start
         /\ \A c \in Chunk : c # FixedChunk /\ mData[c] # NULL =>
               \E i \in 1 .. Len(mMicroChunks) :
                  mMicroChunks[i].chunk = c /\ mMicroChunks[i].start = mData[c]
<1>1. /\ Len(mMicroChunks) \in Nat /\ DOMAIN mMicroChunks = 1 .. Len(mMicroChunks)
      /\ \A i \in 1 .. Len(mMicroChunks) : mMicroChunks[i] \in Entry
  BY DEF Types
<1>2. \A i \in 1 .. Len(mMicroChunks) :
         mMicroChunks[i].start \in Spot /\ mMicroChunks[i].chunk \in Chunk
  BY <1>1 DEF Entry
<1>3. ASSUME NEW i \in 1 .. Len(mMicroChunks)
      PROVE  /\ mMicroChunks[i].chunk # FixedChunk
             /\ mData[mMicroChunks[i].chunk] = mMicroChunks[i].start
  <2> DEFINE e == mMicroChunks[i]
  <2>1. <<e.start, e.chunk>> \in {<<f.start, f.chunk>> : f \in Range(mMicroChunks)}
    BY <1>1 DEF Range
  <2>2. PICK c \in {d \in Chunk \ {FixedChunk} : mData[d] # NULL} :
           <<e.start, e.chunk>> = <<mData[c], c>>
    BY <2>1 DEF TableExact
  <2> QED
    BY <2>2
<1>4. ASSUME NEW i \in 1 .. Len(mMicroChunks), NEW j \in 1 .. Len(mMicroChunks), i < j
      PROVE  mMicroChunks[i].start + mMaxChunks < mMicroChunks[j].start
  <2>1. mMicroChunks[i].start < mMicroChunks[j].start
    BY <1>1, <1>4 DEF TableExact
  <2> QED
    BY <1>2, <2>1, Numbers
<1>5. ASSUME NEW c \in Chunk, c # FixedChunk, mData[c] # NULL
      PROVE  \E i \in 1 .. Len(mMicroChunks) :
                mMicroChunks[i].chunk = c /\ mMicroChunks[i].start = mData[c]
  <2>1. <<mData[c], c>> \in {<<mData[d], d>> : d \in {d \in Chunk \ {FixedChunk} : mData[d] # NULL}}
    BY <1>5
  <2>2. PICK f \in Range(mMicroChunks) : <<mData[c], c>> = <<f.start, f.chunk>>
    BY <2>1 DEF TableExact
  <2> QED
    BY <1>1, <2>2 DEF Range
<1>6. \A i \in 1 .. Len(mMicroChunks) : mMicroChunks[i].start \in Nat
  BY <1>2, Numbers
<1> QED
  BY <1>1, <1>3, <1>4, <1>5, <1>6

\* The search by halves finds the entry that has the address, if there is one.  What it
\* finds between any two bounds is given in closed form, which shows that the recursion
\* has a meaning; that it finds this is shown for the shortest stretch where it does not.
LEMMA SearchFinds ==
  ASSUME MicroAssumption, Types, TableExact, NEW p \in Nat
  PROVE  /\ Search(p) \in 0 .. Len(mMicroChunks)
         /\ Search(p) # 0 => Within(p, mMicroChunks[Search(p)].start)
         /\ Search(p) = 0 => \A i \in 1 .. Len(mMicroChunks) : ~Within(p, mMicroChunks[i].start)
<1> DEFINE n == Len(mMicroChunks)
           B == {r \in (0 .. n) \X (0 .. n) : r[1] <= r[2]}
           Mid(r) == (r[2] - r[1]) \div 2 + r[1]
           At(r) == mMicroChunks[Mid(r) + 1].start
           Body(f, r) == IF r[1] = r[2] THEN 0
                         ELSE IF Within(p, At(r)) THEN Mid(r) + 1
                         ELSE IF p > End(At(r)) THEN f[<<Mid(r) + 1, r[2]>>] ELSE f[<<r[1], Mid(r)>>]
           Has(i) == Within(p, mMicroChunks[i].start)
           Between(r, x) == \/ x \in r[1] + 1 .. r[2] /\ Has(x)
                            \/ x = 0 /\ \A i \in r[1] + 1 .. r[2] : ~Has(i)
           s == CHOOSE s : s = [r \in B |-> Body(s, r)]
<1>0. /\ n \in Nat /\ mMaxChunks \in Nat /\ mMaxChunks > 0
      /\ \A i \in 1 .. n : mMicroChunks[i].start \in Nat
      /\ \A i, j \in 1 .. n : i < j => mMicroChunks[i].start + mMaxChunks < mMicroChunks[j].start
  BY TableEntries, Numbers
<1>1. Search(p) = s[<<0, n>>]
  BY DEF Search
<1>2. ASSUME NEW i \in 1 .. n, NEW j \in 1 .. n, Has(i), Has(j)
      PROVE  i = j
  BY <1>0, <1>2 DEF Within, End
<1>3. ASSUME NEW r \in B, r[1] # r[2]
      PROVE  /\ r[1] \in 0 .. n /\ r[2] \in 0 .. n /\ Mid(r) \in r[1] .. r[2] - 1
             /\ <<Mid(r) + 1, r[2]>> \in B /\ <<r[1], Mid(r)>> \in B /\ Mid(r) + 1 \in 1 .. n
  BY <1>0, <1>3
<1>4. ASSUME NEW r \in B, r[1] # r[2], ~Within(p, At(r)), p > End(At(r))
      PROVE  \A i \in r[1] + 1 .. Mid(r) + 1 : ~Has(i)
  <2> SUFFICES ASSUME NEW i \in r[1] + 1 .. Mid(r) + 1, Has(i)
               PROVE  FALSE
    OBVIOUS
  <2>1. Mid(r) + 1 \in 1 .. n /\ i \in 1 .. n /\ i <= Mid(r) + 1
    BY <1>0, <1>3, <1>4
  <2>2. i # Mid(r) + 1
    BY <1>4
  <2> HIDE DEF Mid
  <2> QED
    BY <1>0, <1>4, <2>1, <2>2 DEF Within, End
<1>5. ASSUME NEW r \in B, r[1] # r[2], ~Within(p, At(r)), ~(p > End(At(r)))
      PROVE  \A i \in Mid(r) + 1 .. r[2] : ~Has(i)
  <2> SUFFICES ASSUME NEW i \in Mid(r) + 1 .. r[2], Has(i)
               PROVE  FALSE
    OBVIOUS
  <2>1. Mid(r) + 1 \in 1 .. n /\ i \in 1 .. n /\ i >= Mid(r) + 1
    BY <1>0, <1>3, <1>5
  <2>2. i # Mid(r) + 1
    BY <1>5
  <2> HIDE DEF Mid
  <2> QED
    BY <1>0, <1>5, <2>1, <2>2 DEF Within, End
<1> HIDE DEF Has
\* What is right of the two halves is right of the whole.
<1>6. ASSUME NEW f, NEW r \in B, r[1] # r[2],
             Between(<<Mid(r) + 1, r[2]>>, f[<<Mid(r) + 1, r[2]>>]),
             Between(<<r[1], Mid(r)>>, f[<<r[1], Mid(r)>>])
      PROVE  Between(r, Body(f, r))
  <2>0. /\ r[1] \in Nat /\ r[2] \in Nat /\ Mid(r) \in r[1] .. r[2] - 1
    BY <1>0, <1>3, <1>6
  <2>1. CASE Within(p, At(r))
    <3>1. Body(f, r) = Mid(r) + 1 /\ Mid(r) + 1 \in r[1] + 1 .. r[2]
      BY <1>6, <2>0, <2>1
    <3> QED
      BY <2>1, <3>1 DEF Has
  <2>2. CASE ~Within(p, At(r)) /\ p > End(At(r))
    <3>1. Body(f, r) = f[<<Mid(r) + 1, r[2]>>]
      BY <1>6, <2>2
    <3>2. \A i \in r[1] + 1 .. Mid(r) + 1 : ~Has(i)
      BY <1>4, <1>6, <2>2
    <3>3. \A i \in r[1] + 1 .. r[2] : i \in r[1] + 1 .. Mid(r) + 1 \/ i \in Mid(r) + 1 + 1 .. r[2]
      BY <2>0
    <3>4. Mid(r) + 1 + 1 .. r[2] \subseteq r[1] + 1 .. r[2]
      BY <2>0
    <3> HIDE DEF Mid, Body
    <3> QED
      BY <1>6, <3>1, <3>2, <3>3, <3>4
  <2>3. CASE ~Within(p, At(r)) /\ ~(p > End(At(r)))
    <3>1. Body(f, r) = f[<<r[1], Mid(r)>>]
      BY <1>6, <2>3
    <3>2. \A i \in Mid(r) + 1 .. r[2] : ~Has(i)
      BY <1>5, <1>6, <2>3
    <3>3. \A i \in r[1] + 1 .. r[2] : i \in r[1] + 1 .. Mid(r) \/ i \in Mid(r) + 1 .. r[2]
      BY <2>0
    <3>4. r[1] + 1 .. Mid(r) \subseteq r[1] + 1 .. r[2]
      BY <2>0
    <3> HIDE DEF Mid, Body
    <3> QED
      BY <1>6, <3>1, <3>2, <3>3, <3>4
  <2> QED
    BY <2>1, <2>2, <2>3
<1>7. ASSUME NEW r \in B, NEW x, NEW y, Between(r, x), Between(r, y)
      PROVE  x = y
  <2>1. r[1] + 1 .. r[2] \subseteq 1 .. n
    BY <1>0
  <2>2. 0 \notin 1 .. n
    BY <1>0
  <2> HIDE DEF B
  <2> QED
    BY <1>2, <1>7, <2>1, <2>2
<1>8. s = [r \in B |-> Body(s, r)]
  <2> DEFINE g == [r \in B |-> CHOOSE x : Between(r, x)]
  <2>1. \A r \in B : Between(r, g[r])
    <3> SUFFICES ASSUME NEW r \in B
                 PROVE  \E x : Between(r, x)
      OBVIOUS
    <3> QED
      OBVIOUS
  <2>2. \A r \in B : g[r] = Body(g, r)
    <3> SUFFICES ASSUME NEW r \in B
                 PROVE  g[r] = Body(g, r)
      OBVIOUS
    <3>1. CASE r[1] = r[2]
      <4>1. Body(g, r) = 0 /\ r[1] + 1 .. r[2] = {}
        BY <1>0, <3>1
      <4>2. Between(r, Body(g, r))
        BY <4>1
      <4> HIDE DEF Body, g, Between
      <4> QED
        BY <1>7, <2>1, <4>2
    <3>2. CASE r[1] # r[2]
      <4>1. <<Mid(r) + 1, r[2]>> \in B /\ <<r[1], Mid(r)>> \in B
        BY <1>3, <3>2
      <4> HIDE DEF Body, g, Between, Mid, B
      <4>2. Between(r, Body(g, r))
        BY <1>6, <2>1, <3>2, <4>1
      <4> QED
        BY <1>7, <2>1, <4>2
    <3> QED
      BY <3>1, <3>2
  <2>3. g = [r \in B |-> Body(g, r)]
    <3>1. g = [r \in B |-> g[r]]
      OBVIOUS
    <3> HIDE DEF g, Body, B
    <3> QED
      BY <2>2, <3>1
  <2> HIDE DEF g, Body, B
  <2> QED
    BY <2>3
<1>9. \A r \in B : s[r] = Body(s, r)
  <2> HIDE DEF s, Body, B
  <2> QED
    BY <1>8
<1> HIDE DEF s
<1>10. \A r \in B : Between(r, s[r])
  <2> DEFINE Bad == {k \in Nat : \E r \in B : r[2] - r[1] = k /\ ~Between(r, s[r])}
  <2>1. SUFFICES ASSUME Bad # {}
                 PROVE  FALSE
    <3>1. \A r \in B : r[2] - r[1] \in Nat
      BY <1>0
    <3> HIDE DEF B, Between
    <3> QED
      BY <3>1
  <2>2. PICK k \in Bad : \A l \in Bad : k <= l
    BY <2>1, LeastNumber
  <2>3. PICK r \in B : r[2] - r[1] = k /\ ~Between(r, s[r])
    OBVIOUS
  <2>4. CASE r[1] = r[2]
    <3>0. Body(s, r) = 0 /\ r[1] + 1 .. r[2] = {}
      BY <1>0, <2>4
    <3>1. s[r] = 0
      <4> HIDE DEF Body, B
      <4> QED
        BY <1>9, <3>0
    <3> HIDE DEF Body, B
    <3> QED
      BY <2>3, <3>0, <3>1
  <2>5. CASE r[1] # r[2]
    <3>1. /\ r[1] \in 0 .. n /\ r[2] \in 0 .. n /\ Mid(r) \in r[1] .. r[2] - 1
          /\ <<Mid(r) + 1, r[2]>> \in B /\ <<r[1], Mid(r)>> \in B
      BY <1>3, <2>5
    <3> HIDE DEF Mid
    <3>2. /\ r[2] - (Mid(r) + 1) \in Nat /\ r[2] - (Mid(r) + 1) < k
          /\ Mid(r) - r[1] \in Nat /\ Mid(r) - r[1] < k
      BY <1>0, <2>3, <3>1
    <3> HIDE DEF Between, B, n
    <3>3. /\ Between(<<Mid(r) + 1, r[2]>>, s[<<Mid(r) + 1, r[2]>>])
          /\ Between(<<r[1], Mid(r)>>, s[<<r[1], Mid(r)>>])
      BY <2>2, <3>1, <3>2
    <3> HIDE DEF Body
    <3>4. Between(r, Body(s, r))
      BY <1>6, <2>5, <3>3
    <3> QED
      BY <1>9, <2>3, <3>4
  <2> QED
    BY <2>4, <2>5
<1>11. <<0, n>> \in B
  BY <1>0
<1>12. Between(<<0, n>>, Search(p))
  BY <1>1, <1>10, <1>11
<1>13. 0 + 1 .. n = 1 .. n /\ 0 \notin 1 .. n /\ 1 .. n \subseteq 0 .. n /\ 0 \in 0 .. n
  BY <1>0
<1> QED
  BY <1>12, <1>13 DEF Has

\* Whatever way it takes, the search finds the entry of an address.
LEMMA FoundRight ==
  ASSUME MicroAssumption, Types, TableExact, NEW p \in Nat
  PROVE  /\ Found(p) \in 0 .. Len(mMicroChunks)
         /\ Found(p) # 0 => Within(p, mMicroChunks[Found(p)].start)
         /\ Found(p) = 0 => \A i \in 1 .. Len(mMicroChunks) : ~Within(p, mMicroChunks[i].start)
<1> DEFINE inside == {i \in DOMAIN mMicroChunks : Within(p, mMicroChunks[i].start)}
           first == CHOOSE i \in inside : \A j \in inside : i <= j
<1>0. Len(mMicroChunks) \in Nat /\ DOMAIN mMicroChunks = 1 .. Len(mMicroChunks)
  BY TableEntries
<1>1. Found(p) = IF mLastMicroChunk \in inside THEN mLastMicroChunk
                 ELSE IF Len(mMicroChunks) >= LINEAR THEN Search(p)
                 ELSE IF inside = {} THEN 0 ELSE first
  BY DEF Found
<1>2. CASE mLastMicroChunk \in inside
  BY <1>0, <1>1, <1>2
<1>3. CASE mLastMicroChunk \notin inside /\ Len(mMicroChunks) >= LINEAR
  BY <1>1, <1>3, SearchFinds
<1>4. CASE mLastMicroChunk \notin inside /\ ~(Len(mMicroChunks) >= LINEAR) /\ inside = {}
  BY <1>0, <1>1, <1>4
<1>5. CASE mLastMicroChunk \notin inside /\ ~(Len(mMicroChunks) >= LINEAR) /\ inside # {}
  <2>1. inside \in SUBSET Nat
    BY <1>0
  <2>2. \E i \in inside : \A j \in inside : i <= j
    BY <1>5, <2>1, LeastNumber
  <2>3. first \in inside
    <3> HIDE DEF inside
    <3> QED
      BY <2>2
  <2>4. Found(p) = first
    BY <1>1, <1>5
  <2> HIDE DEF first
  <2> QED
    BY <1>0, <2>3, <2>4
<1> QED
  BY <1>2, <1>3, <1>4, <1>5

\* The chunk that serves has a block or no memory yet.
LEMMA ChosenGives ==
  ASSUME MicroAssumption, Types, Spaces, ChunkToUse \in Chunk
  PROVE  Gives(ChunkToUse)
<1> DEFINE givers == {c \in Chunk : c[1] <= chunkChunks /\ Gives(c)}
           least == CHOOSE c \in givers : \A d \in givers : Turn(c) <= Turn(d)
           T == {Turn(c) : c \in givers}
<1>1. CASE Gives(mCurrent)
  <2>1. ChunkToUse = mCurrent
    BY <1>1 DEF ChunkToUse
  <2> QED
    BY <1>1, <2>1
<1>2. CASE ~Gives(mCurrent) /\ givers # {}
  <2>1. ASSUME NEW c \in givers
        PROVE  Turn(c) \in Nat
    <3>1. /\ c[1] \in Nat /\ c[1] >= 1 /\ c[1] <= chunkChunks /\ c[2] \in Nat
          /\ chunkChunks \in Nat /\ DEFAULT_CHUNKS \in Nat
      <4>1. c \in (1 .. MaxChunkChunks) \X (1 .. DEFAULT_CHUNKS) /\ c[1] <= chunkChunks
        BY <2>1 DEF Chunk
      <4>2. MaxChunkChunks \in Nat /\ DEFAULT_CHUNKS \in Nat /\ chunkChunks \in 1 .. MaxChunkChunks
        BY Numbers DEF Types
      <4> QED
        BY <4>1, <4>2
    <3>2. PICK k \in Nat : k = IF c[1] = 1 THEN 0 ELSE chunkChunks + 1 - c[1]
      BY <3>1
    <3>3. k * DEFAULT_CHUNKS \in Nat
      BY <3>1, <3>2
    <3>4. Turn(c) = k * DEFAULT_CHUNKS + c[2]
      BY <3>2 DEF Turn
    <3> QED
      BY <3>1, <3>3, <3>4
  <2>2. T \in SUBSET Nat /\ T # {}
    BY <1>2, <2>1
  <2>3. PICK m \in T : \A k \in T : m <= k
    BY <2>2, LeastNumber
  <2>4. \E c \in givers : \A d \in givers : Turn(c) <= Turn(d)
    BY <2>3
  <2>5. least \in givers
    <3> HIDE DEF givers
    <3> QED
      BY <2>4
  <2>6. ChunkToUse = least
    BY <1>2 DEF ChunkToUse
  <2> QED
    BY <2>5, <2>6
<1>3. CASE ~Gives(mCurrent) /\ givers = {}
  <2>1. ChunkToUse = <<chunkChunks + 1, 1>>
    BY <1>3 DEF ChunkToUse
  <2>2. mData[ChunkToUse] = NULL
    BY <2>1 DEF Spaces, Types
  <2> QED
    BY <2>2 DEF Gives
<1> QED
  BY <1>1, <1>2, <1>3

\* What memory of the C library is free of.
LEMMA FreeSpotIs ==
  ASSUME MicroAssumption, MicroInv, NEW s \in FreeSpots
  PROVE  /\ s \in Spot /\ s \in Nat /\ s # NULL /\ s \notin bigBlocks /\ s \notin Busy
         /\ \A c \in Chunk : mData[c] # s /\ s \notin Area(c) /\ Area(c) \cap Span(s) = {}
         /\ Busy \cap Span(s) = {}
         /\ \A x \in Spot : x # s => x \notin Span(s)
<1> USE DEF MicroInv
<1>1. s \in Spot /\ s \in Nat /\ s # NULL /\ s \notin bigBlocks
  BY Numbers DEF FreeSpots
<1>2. \A i \in 1 .. Len(mMicroChunks) : mMicroChunks[i].start # s
  <2>1. DOMAIN mMicroChunks = 1 .. Len(mMicroChunks)
    BY TableEntries
  <2> QED
    BY <2>1 DEF FreeSpots
<1>3. ASSUME NEW c \in Chunk
      PROVE  mData[c] # s
  <2>1. CASE c = FixedChunk
    BY <1>1, <2>1, Numbers DEF Types
  <2>2. CASE c # FixedChunk
    BY <1>1, <1>2, <2>2, TableEntries
  <2> QED
    BY <2>1, <2>2
<1>4. ASSUME NEW c \in Chunk
      PROVE  s \notin Area(c) /\ Area(c) \cap Span(s) = {}
  <2>1. CASE mData[c] = NULL
    BY <2>1 DEF Area
  <2>2. CASE mData[c] # NULL
    <3>1. mData[c] \in Spot \cup {Base} /\ Area(c) = Span(mData[c])
      BY <2>2, AreaIs
    <3> QED
      BY <1>1, <1>3, <3>1, SpansApart
  <2> QED
    BY <2>1, <2>2
<1>5. \A x \in Spot : x # s => x \notin Span(s)
  BY <1>1, SpansApart
<1>6. s \notin Busy
  BY <1>1, <1>4 DEF Known
<1>7. Busy \cap Span(s) = {}
  <2> SUFFICES ASSUME NEW x \in Busy, x \in Span(s)
               PROVE  FALSE
    OBVIOUS
  <2>1. CASE x \in bigBlocks
    BY <1>5, <1>6, <2>1 DEF Types
  <2>2. CASE \E c \in Chunk : x \in Area(c)
    BY <1>4, <2>2
  <2> QED
    BY <2>1, <2>2 DEF Known
<1> QED
  BY <1>1, <1>3, <1>4, <1>5, <1>6, <1>7

-----------------------------------------------------------------------------
\* A chunk that a step leaves alone, and whose blocks nobody takes or leaves.
LEMMA TiledStays ==
  ASSUME NEW c, TiledAt(c), mData'[c] = mData[c], mFreeList'[c] = mFreeList[c],
         mUsedCount'[c] = mUsedCount[c], \A x \in Area(c) : x \in Busy' <=> x \in Busy
  PROVE  TiledAt(c)'
<1>1. Area(c)' = Area(c)
  BY DEF Area, Span
<1>2. Area(c)' \ Busy' = Area(c) \ Busy /\ Area(c)' \cap Busy' = Area(c) \cap Busy
  BY <1>1
<1> QED
  BY <1>1, <1>2, Zenon DEF TiledAt

\* The calls stay as they are but one, which is finished or goes on.
LEMMA TaskSet ==
  ASSUME Types, NEW t \in Thread, NEW r \in Task, task' = [task EXCEPT ![t] = r]
  PROVE  /\ task' \in [Thread -> Task] /\ task'[t] = r
         /\ \A u \in Thread : u # t => task'[u] = task[u]
BY DEF Types

\* A block more in use.
LEMMA BusyMore ==
  ASSUME Types, OneUser, NEW x \in Nat, NULL \notin Nat, x \notin Busy, held' = held \cup {x},
         \A t \in Thread : task'[t].p = task[t].p /\ (task'[t].pc = "idle" <=> task[t].pc = "idle")
  PROVE  OneUser' /\ \A y : y \in Busy' <=> y \in Busy \/ y = x
<1>1. \A y : y \in Busy' <=> y \in held' \/ (y # NULL /\ \E t \in Thread : task'[t].p = y)
  BY DEF Busy
<1>2. x # NULL /\ NULL \notin held
  BY DEF Types
<1>3. \A y : y \in Busy' <=> y \in Busy \/ y = x
  BY <1>1, BusyIs
<1>4. OneUser'
  BY <1>2, BusyIs DEF OneUser
<1> QED
  BY <1>3, <1>4

\* A block is taken from the application into a call.
LEMMA BusyCalled ==
  ASSUME Types, OneUser, NULL \notin Nat, NEW t \in Thread, task[t].pc = "idle",
         NEW x \in held, held' = held \ {x}, NEW r \in Task, r.p = x, r.pc # "idle",
         task' = [task EXCEPT ![t] = r]
  PROVE  OneUser' /\ \A y : y \in Busy' <=> y \in Busy
<1>0. x \in Nat /\ x # NULL
  BY DEF Types
<1>1. task'[t] = r /\ \A u \in Thread : u # t => task'[u] = task[u]
  BY TaskSet
<1>2. task[t].p = NULL
  BY DEF OneUser
<1>3. \A y : y \in Busy' <=> y \in held' \/ (y # NULL /\ \E u \in Thread : task'[u].p = y)
  BY DEF Busy
<1>4. ASSUME NEW y
      PROVE  y \in Busy' <=> y \in Busy
  <2>1. CASE y = x
    BY <1>0, <1>1, <1>3, <2>1, BusyIs
  <2>2. CASE y # x
    BY <1>0, <1>1, <1>2, <1>3, <2>2, BusyIs
  <2> QED
    BY <2>1, <2>2
<1>5. OneUser'
  <2>1. \A u \in Thread : task'[u].pc = "idle" <=> task'[u].p = NULL
    BY <1>0, <1>1 DEF OneUser
  <2>2. \A u \in Thread : task'[u].p \notin held'
    BY <1>1 DEF OneUser
  <2>3. \A u \in Thread : u # t => task'[u].p # x
    BY <1>1 DEF OneUser
  <2>4. \A u, v \in Thread : task'[u].p = task'[v].p /\ task'[u].p # NULL => u = v
    BY <1>1, <2>3 DEF OneUser
  <2> QED
    BY <2>1, <2>2, <2>4 DEF OneUser
<1> QED
  BY <1>4, <1>5

\* A call ends; what it leaves to the application is its own block or a new one.
LEMMA BusyEnds ==
  ASSUME Types, OneUser, NULL \notin Nat, NEW t \in Thread, task[t].pc # "idle",
         NEW X \in SUBSET Nat, \A x \in X : x \notin Busy \/ x = task[t].p,
         held' = held \cup X, task' = [task EXCEPT ![t] = Idle]
  PROVE  /\ OneUser'
         /\ \A y : y \in Busy' <=> (y \in Busy /\ y # task[t].p) \/ y \in X
         /\ task[t].p \in Busy /\ task[t].p \in Nat
<1>0. Idle \in Task /\ Idle.p = NULL /\ Idle.pc = "idle"
  BY DEF Idle, Task
<1>1. task'[t] = Idle /\ \A u \in Thread : u # t => task'[u] = task[u]
  BY <1>0, TaskSet
<1>2. task[t] \in Task /\ task[t].p # NULL /\ task[t].p \in Nat
  BY DEF OneUser, Types, Task
<1>3. \A y : y \in Busy' <=> y \in held' \/ (y # NULL /\ \E u \in Thread : task'[u].p = y)
  BY DEF Busy
<1>4. task[t].p \in Busy
  BY <1>2, BusyIs
<1>5. \A u \in Thread : u # t => task[u].p # task[t].p
  BY <1>2 DEF OneUser
<1>6. task[t].p \notin held /\ NULL \notin X
  BY DEF OneUser
<1>7. ASSUME NEW y
      PROVE  y \in Busy' <=> (y \in Busy /\ y # task[t].p) \/ y \in X
  <2>1. CASE y = NULL
    <3>1. y \notin held /\ y \notin X
      BY <2>1, <1>6 DEF Types
    <3> QED
      BY <1>3, <2>1, <3>1, BusyIs
  <2>2. CASE y # NULL
    <3>1. (\E u \in Thread : task'[u].p = y) <=> \E u \in Thread : u # t /\ task[u].p = y
      BY <1>0, <1>1, <2>2
    <3>2. (\E u \in Thread : u # t /\ task[u].p = y)
             <=> (\E u \in Thread : task[u].p = y) /\ y # task[t].p
      BY <1>5
    <3> QED
      BY <1>3, <1>6, <2>2, <3>1, <3>2, BusyIs
  <2> QED
    BY <2>1, <2>2
<1>8. OneUser'
  <2>1. \A u \in Thread : task'[u].pc = "idle" <=> task'[u].p = NULL
    BY <1>0, <1>1 DEF OneUser
  <2>2. \A u \in Thread : task'[u].p \notin held'
    <3> SUFFICES ASSUME NEW u \in Thread
                 PROVE  task'[u].p \notin held \cup X
      OBVIOUS
    <3>1. CASE u = t
      BY <1>0, <1>1, <1>6, <3>1 DEF Types
    <3>2. CASE u # t
      <4>1. task'[u].p = task[u].p /\ task[u].p \notin held /\ task[u].p # task[t].p
        BY <1>1, <1>5, <3>2 DEF OneUser
      <4>2. task[u].p \in Busy \/ task[u].p = NULL
        BY BusyIs
      <4> QED
        BY <1>6, <4>1, <4>2
    <3> QED
      BY <3>1, <3>2
  <2>3. \A u, v \in Thread : task'[u].p = task'[v].p /\ task'[u].p # NULL => u = v
    BY <1>0, <1>1 DEF OneUser
  <2> QED
    BY <2>1, <2>2, <2>3 DEF OneUser
<1> QED
  BY <1>2, <1>4, <1>7, <1>8

-----------------------------------------------------------------------------
\* A step that touches no chunk and of the table the last hit only.
LEMMA ChunksStay ==
  ASSUME MicroInv, UNCHANGED <<chunkVars, mMicroChunks>>,
         mLastMicroChunk' \in 0 .. Len(mMicroChunks),
         held' \in SUBSET Nat, bigBlocks' \in SUBSET Spot, task' \in [Thread -> Task],
         \A c \in Chunk : mData[c] \notin bigBlocks',
         OneUser',
         \A x \in Busy' : x \in bigBlocks' \/ \E c \in Chunk : x \in Area(c),
         \A c \in Chunk : \A x \in Area(c) : x \in Busy' <=> x \in Busy,
         \A t \in Thread : task'[t].pc # "idle" =>
            IF task'[t].chunk = NULL THEN task'[t].p \in bigBlocks'
            ELSE mData[task'[t].chunk] # NULL /\ Within(task'[t].p, mData[task'[t].chunk])
  PROVE  MicroInv'
<1> USE DEF MicroInv
<1>0. /\ mData' = mData /\ mUsedCount' = mUsedCount /\ mFreeList' = mFreeList
      /\ chunkChunks' = chunkChunks /\ mCurrent' = mCurrent /\ mMicroChunks' = mMicroChunks
  BY DEF chunkVars
<1>1. Types'
  BY <1>0 DEF Types
<1>2. Spaces'
  BY <1>0 DEF Spaces
<1>3. \A c : Area(c)' = Area(c)
  BY <1>0 DEF Area, Span
<1>4. Known'
  BY <1>3 DEF Known
<1>5. \A c \in Chunk : TiledAt(c)'
  BY <1>0, TiledStays
<1>6. TableExact'
  BY <1>0 DEF TableExact
<1>7. FreedWhereItBelongs'
  BY <1>0 DEF FreedWhereItBelongs
<1> QED
  BY <1>1, <1>2, <1>4, <1>5, <1>6, <1>7

\* Nothing happens.
LEMMA MicroStutter ==
  ASSUME MicroInv, UNCHANGED vars
  PROVE  MicroInv'
<1>0. /\ UNCHANGED <<chunkVars, mMicroChunks>> /\ mLastMicroChunk' = mLastMicroChunk
      /\ held' = held /\ bigBlocks' = bigBlocks /\ task' = task
  BY DEF vars, tableVars
<1>1. Busy' = Busy
  BY <1>0 DEF Busy
<1>2. OneUser'
  BY <1>0 DEF OneUser, MicroInv
<1> QED
  BY <1>0, <1>1, <1>2, ChunksStay DEF MicroInv, Types, Spaces, Known, FreedWhereItBelongs, TableExact

\* A request too large for the chunks.
LEMMA MallocBigKeeps ==
  ASSUME MicroAssumption, MicroInv, NEW t \in Thread, MallocBig(t)
  PROVE  MicroInv'
<1>1. PICK s \in FreeSpots : bigBlocks' = bigBlocks \cup {s} /\ held' = held \cup {s}
  BY DEF MallocBig
<1>2. UNCHANGED <<chunkVars, mMicroChunks>> /\ mLastMicroChunk' = mLastMicroChunk /\ task' = task
  BY DEF MallocBig, tableVars
<1>3. /\ s \in Spot /\ s \in Nat /\ s \notin Busy
      /\ \A c \in Chunk : mData[c] # s /\ s \notin Area(c)
  BY FreeSpotIs
<1>4. OneUser' /\ \A y : y \in Busy' <=> y \in Busy \/ y = s
  BY <1>1, <1>2, <1>3, Numbers, BusyMore DEF MicroInv
<1>5. \A x \in Busy' : x \in bigBlocks' \/ \E c \in Chunk : x \in Area(c)
  BY <1>1, <1>4 DEF MicroInv, Known
<1>6. \A c \in Chunk : \A x \in Area(c) : x \in Busy' <=> x \in Busy
  BY <1>3, <1>4
<1>7. held' \in SUBSET Nat /\ bigBlocks' \in SUBSET Spot /\ task' \in [Thread -> Task]
  BY <1>1, <1>2, <1>3 DEF MicroInv, Types
<1>8. mLastMicroChunk' \in 0 .. Len(mMicroChunks)
  BY <1>2 DEF MicroInv, TableExact
<1>9. \A c \in Chunk : mData[c] \notin bigBlocks'
  BY <1>1, <1>3 DEF MicroInv, Spaces
<1>10. \A u \in Thread : task'[u].pc # "idle" =>
          IF task'[u].chunk = NULL THEN task'[u].p \in bigBlocks'
          ELSE mData[task'[u].chunk] # NULL /\ Within(task'[u].p, mData[task'[u].chunk])
  BY <1>1, <1>2 DEF MicroInv, FreedWhereItBelongs
<1> QED
  BY <1>2, <1>4, <1>5, <1>6, <1>7, <1>8, <1>9, <1>10, ChunksStay

\* The first half of heap_free and heap_realloc: the block is on its way, and the chunk is
\* the one it lies in, or none.
LEMMA FindKeeps ==
  ASSUME MicroAssumption, MicroInv, NEW t \in Thread, Find(t)
  PROVE  MicroInv'
<1>1. PICK p \in held, next \in {"free", "realloc"} : isMicroAlloc(t, p, next)
  BY DEF Find
<1> DEFINE i == Found(p)
           chunk == IF Within(p, Base) THEN FixedChunk
                    ELSE IF i = 0 THEN NULL ELSE mMicroChunks[i].chunk
           r == [pc |-> next, p |-> p, chunk |-> chunk]
<1>0. p \in Nat /\ p \in Busy
  BY BusyIs DEF MicroInv, Types
<1>2. /\ task[t].pc = "idle" /\ held' = held \ {p} /\ task' = [task EXCEPT ![t] = r]
      /\ UNCHANGED <<chunkVars, mMicroChunks>> /\ bigBlocks' = bigBlocks
      /\ mLastMicroChunk' \in {mLastMicroChunk, i}
  BY <1>1 DEF isMicroAlloc
<1>3. /\ i \in 0 .. Len(mMicroChunks)
      /\ i # 0 => Within(p, mMicroChunks[i].start)
      /\ i = 0 => \A j \in 1 .. Len(mMicroChunks) : ~Within(p, mMicroChunks[j].start)
  BY <1>0, FoundRight DEF MicroInv
<1> HIDE DEF i
<1>4. chunk \in Chunk \cup {NULL}
  <2>1. i # 0 => i \in 1 .. Len(mMicroChunks)
    BY <1>3
  <2>2. i # 0 => mMicroChunks[i] \in Entry
    BY <2>1, TableEntries DEF MicroInv
  <2> QED
    BY <2>2, Numbers DEF Entry
<1>5. IF chunk = NULL THEN p \in bigBlocks
      ELSE mData[chunk] # NULL /\ Within(p, mData[chunk])
  <2>1. CASE Within(p, Base)
    BY <2>1, Numbers DEF MicroInv, Types
  <2>2. CASE ~Within(p, Base) /\ i # 0
    <3>1. i \in 1 .. Len(mMicroChunks)
      BY <1>3, <2>2
    <3>2. /\ mData[mMicroChunks[i].chunk] = mMicroChunks[i].start
          /\ mMicroChunks[i].start \in Nat /\ mMicroChunks[i] \in Entry
      BY <3>1, TableEntries DEF MicroInv
    <3> QED
      BY <1>3, <2>2, <3>2, Numbers DEF Entry
  <2>3. CASE ~Within(p, Base) /\ i = 0
    <3>1. ASSUME NEW c \in Chunk, p \in Area(c)
          PROVE  FALSE
      <4>1. mData[c] # NULL /\ mData[c] \in Nat /\ Area(c) = Span(mData[c])
        BY <3>1, AreaIs DEF Area, MicroInv
      <4>2. Within(p, mData[c])
        BY <1>0, <3>1, <4>1, WithinSpan
      <4>3. c # FixedChunk
        BY <2>3, <4>2 DEF MicroInv, Types
      <4>4. PICK j \in 1 .. Len(mMicroChunks) : mMicroChunks[j].start = mData[c]
        BY <4>1, <4>3, TableEntries DEF MicroInv
      <4> QED
        BY <1>3, <2>3, <4>2, <4>4
    <3>2. p \in bigBlocks
      BY <1>0, <3>1 DEF MicroInv, Known
    <3> QED
      BY <2>3, <3>2
  <2> QED
    BY <2>1, <2>2, <2>3
<1> HIDE DEF chunk
<1>6. r \in Task /\ r.p = p /\ r.pc # "idle"
  BY <1>0, <1>4 DEF Task
<1>7. task' \in [Thread -> Task] /\ task'[t] = r /\ \A u \in Thread : u # t => task'[u] = task[u]
  BY <1>2, <1>6, TaskSet DEF MicroInv
<1> HIDE DEF r
<1>8. OneUser' /\ \A y : y \in Busy' <=> y \in Busy
  BY <1>2, <1>6, Numbers, BusyCalled DEF MicroInv
<1>9. \A x \in Busy' : x \in bigBlocks' \/ \E c \in Chunk : x \in Area(c)
  BY <1>2, <1>8 DEF MicroInv, Known
<1>10. held' \in SUBSET Nat /\ bigBlocks' \in SUBSET Spot
  BY <1>2 DEF MicroInv, Types
<1>11. mLastMicroChunk' \in 0 .. Len(mMicroChunks)
  BY <1>2, <1>3 DEF MicroInv, TableExact
<1>12. \A c \in Chunk : mData[c] \notin bigBlocks'
  BY <1>2 DEF MicroInv, Spaces
<1>13. \A u \in Thread : task'[u].pc # "idle" =>
          IF task'[u].chunk = NULL THEN task'[u].p \in bigBlocks'
          ELSE mData[task'[u].chunk] # NULL /\ Within(task'[u].p, mData[task'[u].chunk])
  <2>1. r.chunk = chunk /\ r.p = p
    BY DEF r
  <2> QED
    BY <1>2, <1>5, <1>7, <2>1 DEF MicroInv, FreedWhereItBelongs
<1> QED
  BY <1>2, <1>7, <1>8, <1>9, <1>10, <1>11, <1>12, <1>13, ChunksStay

\* What a call that is not finished has: a block of a chunk, or of the C library.
LEMMA TaskHas ==
  ASSUME MicroAssumption, MicroInv, NEW t \in Thread, task[t].pc # "idle"
  PROVE  /\ task[t] \in Task /\ task[t].p \in Nat /\ task[t].p \in Busy /\ task[t].p # NULL
         /\ task[t].chunk = NULL => /\ task[t].p \in bigBlocks
                                    /\ \A c \in Chunk : task[t].p \notin Area(c)
         /\ task[t].chunk # NULL => /\ task[t].chunk \in Chunk /\ mData[task[t].chunk] # NULL
                                    /\ task[t].p \in Area(task[t].chunk)
         /\ \A u \in Thread : u # t => task[u].p # task[t].p
<1>1. task[t] \in Task /\ task[t].p # NULL /\ task[t].p \in Nat /\ task[t].p \in Busy
  BY BusyIs DEF MicroInv, OneUser, Types, Task
<1>2. ASSUME task[t].chunk = NULL
      PROVE  task[t].p \in bigBlocks /\ \A c \in Chunk : task[t].p \notin Area(c)
  BY <1>2, AreasApart DEF MicroInv, FreedWhereItBelongs
<1>3. ASSUME task[t].chunk # NULL
      PROVE  /\ task[t].chunk \in Chunk /\ mData[task[t].chunk] # NULL
             /\ task[t].p \in Area(task[t].chunk)
  <2>1. /\ task[t].chunk \in Chunk /\ mData[task[t].chunk] # NULL
        /\ Within(task[t].p, mData[task[t].chunk])
    BY <1>1, <1>3 DEF MicroInv, FreedWhereItBelongs, Task
  <2> QED
    BY <1>1, <2>1, AreaIs, WithinSpan DEF MicroInv
<1>4. \A u \in Thread : u # t => task[u].p # task[t].p
  BY <1>1 DEF MicroInv, OneUser
<1> QED
  BY <1>1, <1>2, <1>3, <1>4

\* The C library gets its block back.
LEMMA FreeBigKeeps ==
  ASSUME MicroAssumption, MicroInv, NEW t \in Thread, FreeBig(t)
  PROVE  MicroInv'
<1> DEFINE p == task[t].p
<1>1. /\ task[t].pc = "free" /\ task[t].pc # "idle" /\ task[t].chunk = NULL
      /\ bigBlocks' = bigBlocks \ {p} /\ held' = held \cup {}
      /\ task' = [task EXCEPT ![t] = Idle]
      /\ UNCHANGED <<chunkVars, mMicroChunks>> /\ mLastMicroChunk' = mLastMicroChunk
  BY DEF FreeBig, Done, tableVars
<1>2. /\ p \in bigBlocks /\ (\A c \in Chunk : p \notin Area(c))
      /\ \A u \in Thread : u # t => task[u].p # p
  BY <1>1, TaskHas
<1>3. OneUser' /\ \A y : y \in Busy' <=> y \in Busy /\ y # p
  <2>1. /\ {} \in SUBSET Nat /\ (\A x \in {} : x \notin Busy \/ x = task[t].p)
        /\ held' = held \cup {} /\ task' = [task EXCEPT ![t] = Idle] /\ task[t].pc # "idle"
    BY <1>1
  <2>2. OneUser' /\ \A y : y \in Busy' <=> (y \in Busy /\ y # task[t].p) \/ y \in {}
    BY <2>1, Numbers, BusyEnds DEF MicroInv
  <2> QED
    BY <2>2
<1>4. Idle \in Task /\ Idle.pc = "idle"
  BY DEF Idle, Task
<1>5. task' \in [Thread -> Task] /\ task'[t] = Idle /\ \A u \in Thread : u # t => task'[u] = task[u]
  BY <1>1, <1>4, TaskSet DEF MicroInv
<1>6. \A x \in Busy' : x \in bigBlocks' \/ \E c \in Chunk : x \in Area(c)
  BY <1>1, <1>3 DEF MicroInv, Known
<1>7. \A c \in Chunk : \A x \in Area(c) : x \in Busy' <=> x \in Busy
  BY <1>2, <1>3
<1>8. /\ held' \in SUBSET Nat /\ bigBlocks' \in SUBSET Spot
      /\ mLastMicroChunk' \in 0 .. Len(mMicroChunks)
      /\ \A c \in Chunk : mData[c] \notin bigBlocks'
  BY <1>1 DEF MicroInv, Types, Spaces, TableExact
<1>9. \A u \in Thread : task'[u].pc # "idle" =>
          IF task'[u].chunk = NULL THEN task'[u].p \in bigBlocks'
          ELSE mData[task'[u].chunk] # NULL /\ Within(task'[u].p, mData[task'[u].chunk])
  BY <1>1, <1>2, <1>4, <1>5 DEF MicroInv, FreedWhereItBelongs
<1> QED
  BY <1>1, <1>3, <1>5, <1>6, <1>7, <1>8, <1>9, ChunksStay

\* The block is the application's again.
LEMMA ReallocStaysKeeps ==
  ASSUME MicroAssumption, MicroInv, NEW t \in Thread, ReallocStays(t)
  PROVE  MicroInv'
<1> DEFINE p == task[t].p
<1>1. /\ task[t].pc # "idle" /\ bigBlocks' = bigBlocks /\ held' = held \cup {p}
      /\ task' = [task EXCEPT ![t] = Idle]
      /\ UNCHANGED <<chunkVars, mMicroChunks>> /\ mLastMicroChunk' = mLastMicroChunk
  BY DEF ReallocStays, Done, tableVars
<1>2. p \in Nat /\ p \in Busy
  BY <1>1, TaskHas
<1>3. OneUser' /\ \A y : y \in Busy' <=> y \in Busy
  <2>1. {p} \in SUBSET Nat /\ \A x \in {p} : x \notin Busy \/ x = task[t].p
    BY <1>2
  <2>2. OneUser' /\ \A y : y \in Busy' <=> (y \in Busy /\ y # task[t].p) \/ y \in {p}
    BY <1>1, <2>1, Numbers, BusyEnds DEF MicroInv
  <2> QED
    BY <1>2, <2>2
<1>4. Idle \in Task /\ Idle.pc = "idle"
  BY DEF Idle, Task
<1>5. task' \in [Thread -> Task] /\ task'[t] = Idle /\ \A u \in Thread : u # t => task'[u] = task[u]
  BY <1>1, <1>4, TaskSet DEF MicroInv
<1>6. \A x \in Busy' : x \in bigBlocks' \/ \E c \in Chunk : x \in Area(c)
  BY <1>1, <1>3 DEF MicroInv, Known
<1>7. \A c \in Chunk : \A x \in Area(c) : x \in Busy' <=> x \in Busy
  BY <1>3
<1>8. /\ held' \in SUBSET Nat /\ bigBlocks' \in SUBSET Spot
      /\ mLastMicroChunk' \in 0 .. Len(mMicroChunks)
      /\ \A c \in Chunk : mData[c] \notin bigBlocks'
  BY <1>1, <1>2 DEF MicroInv, Types, Spaces, TableExact
<1>9. \A u \in Thread : task'[u].pc # "idle" =>
          IF task'[u].chunk = NULL THEN task'[u].p \in bigBlocks'
          ELSE mData[task'[u].chunk] # NULL /\ Within(task'[u].p, mData[task'[u].chunk])
  BY <1>1, <1>4, <1>5 DEF MicroInv, FreedWhereItBelongs
<1> QED
  BY <1>1, <1>3, <1>5, <1>6, <1>7, <1>8, <1>9, ChunksStay

\* New memory; the old block goes to free(), or the C library has moved it.
LEMMA ReallocMovesKeeps ==
  ASSUME MicroAssumption, MicroInv, NEW t \in Thread, ReallocMoves(t)
  PROVE  MicroInv'
<1> DEFINE p == task[t].p
<1>1. PICK s \in FreeSpots :
        /\ held' = held \cup {s}
        /\ bigBlocks' = (IF task[t].chunk = NULL THEN bigBlocks \ {p} ELSE bigBlocks) \cup {s}
  BY DEF ReallocMoves
<1>2. /\ task[t].pc = "realloc" /\ task[t].pc # "idle"
      /\ UNCHANGED <<chunkVars, mMicroChunks>> /\ mLastMicroChunk' = mLastMicroChunk
  BY DEF ReallocMoves, tableVars
<1>3. /\ s \in Spot /\ s \in Nat /\ s \notin Busy
      /\ \A c \in Chunk : mData[c] # s /\ s \notin Area(c)
  BY FreeSpotIs
<1>4. /\ task[t] \in Task /\ p \in Busy /\ p \in Nat /\ s # p
      /\ \A u \in Thread : u # t => task[u].p # p
  BY <1>2, <1>3, TaskHas
<1>5. /\ held' \in SUBSET Nat /\ bigBlocks' \in SUBSET Spot
      /\ mLastMicroChunk' \in 0 .. Len(mMicroChunks)
      /\ \A c \in Chunk : mData[c] \notin bigBlocks'
  BY <1>1, <1>2, <1>3 DEF MicroInv, Types, Spaces, TableExact
<1>6. CASE task[t].chunk = NULL
  <2>1. task' = [task EXCEPT ![t] = Idle] /\ bigBlocks' = (bigBlocks \ {p}) \cup {s}
    BY <1>1, <1>6 DEF ReallocMoves, Done
  <2>2. \A c \in Chunk : p \notin Area(c)
    BY <1>2, <1>6, TaskHas
  <2>3. OneUser' /\ \A y : y \in Busy' <=> (y \in Busy /\ y # p) \/ y = s
    <3>1. {s} \in SUBSET Nat /\ \A x \in {s} : x \notin Busy \/ x = task[t].p
      BY <1>3
    <3>2. OneUser' /\ \A y : y \in Busy' <=> (y \in Busy /\ y # task[t].p) \/ y \in {s}
      BY <1>1, <1>2, <2>1, <3>1, Numbers, BusyEnds DEF MicroInv
    <3> QED
      BY <3>2
  <2>4. Idle \in Task /\ Idle.pc = "idle"
    BY DEF Idle, Task
  <2>5. task' \in [Thread -> Task] /\ task'[t] = Idle /\ \A u \in Thread : u # t => task'[u] = task[u]
    BY <2>1, <2>4, TaskSet DEF MicroInv
  <2>6. \A x \in Busy' : x \in bigBlocks' \/ \E c \in Chunk : x \in Area(c)
    BY <2>1, <2>3 DEF MicroInv, Known
  <2>7. \A c \in Chunk : \A x \in Area(c) : x \in Busy' <=> x \in Busy
    BY <1>3, <2>2, <2>3
  <2>8. \A u \in Thread : task'[u].pc # "idle" =>
            IF task'[u].chunk = NULL THEN task'[u].p \in bigBlocks'
            ELSE mData[task'[u].chunk] # NULL /\ Within(task'[u].p, mData[task'[u].chunk])
    BY <1>4, <2>1, <2>4, <2>5 DEF MicroInv, FreedWhereItBelongs
  <2> QED
    BY <1>2, <1>5, <2>3, <2>5, <2>6, <2>7, <2>8, ChunksStay
<1>7. CASE task[t].chunk # NULL
  <2> DEFINE r == [task[t] EXCEPT !.pc = "free"]
  <2>1. task' = [task EXCEPT ![t] = r] /\ bigBlocks' = bigBlocks \cup {s}
    BY <1>1, <1>7 DEF ReallocMoves
  <2>2. r \in Task /\ r.pc # "idle" /\ r.p = p /\ r.chunk = task[t].chunk
    BY <1>4 DEF Task
  <2> HIDE DEF r
  <2>3. task' \in [Thread -> Task] /\ task'[t] = r /\ \A u \in Thread : u # t => task'[u] = task[u]
    BY <2>1, <2>2, TaskSet DEF MicroInv
  <2>4. OneUser' /\ \A y : y \in Busy' <=> y \in Busy \/ y = s
    <3>1. \A u \in Thread : /\ task'[u].p = task[u].p
                            /\ task'[u].pc = "idle" <=> task[u].pc = "idle"
      BY <1>2, <2>2, <2>3
    <3> QED
      BY <1>1, <1>3, <3>1, Numbers, BusyMore DEF MicroInv
  <2>5. \A x \in Busy' : x \in bigBlocks' \/ \E c \in Chunk : x \in Area(c)
    BY <2>1, <2>4 DEF MicroInv, Known
  <2>6. \A c \in Chunk : \A x \in Area(c) : x \in Busy' <=> x \in Busy
    BY <1>3, <2>4
  <2>7. \A u \in Thread : task'[u].pc # "idle" =>
            IF task'[u].chunk = NULL THEN task'[u].p \in bigBlocks'
            ELSE mData[task'[u].chunk] # NULL /\ Within(task'[u].p, mData[task'[u].chunk])
    BY <1>2, <1>7, <2>1, <2>2, <2>3 DEF MicroInv, FreedWhereItBelongs
  <2> QED
    BY <1>2, <1>5, <2>3, <2>4, <2>5, <2>6, <2>7, ChunksStay
<1> QED
  BY <1>6, <1>7


-----------------------------------------------------------------------------
\* What the first part of TableExact says of a table.
TableOf(tab, data) ==
    {<<e.start, e.chunk>> : e \in Range(tab)}
      = {<<data[c], c>> : c \in {d \in Chunk \ {FixedChunk} : data[d] # NULL}}

\* A table that has the chunks with memory, place by place.
LEMMA TableFrom ==
  ASSUME NEW n \in Nat, NEW tab, DOMAIN tab = 1 .. n, NEW data,
         \A i \in 1 .. n : /\ tab[i].chunk \in Chunk /\ tab[i].chunk # FixedChunk
                           /\ data[tab[i].chunk] = tab[i].start /\ tab[i].start # NULL,
         \A c \in Chunk : c # FixedChunk /\ data[c] # NULL =>
            \E i \in 1 .. n : tab[i].chunk = c /\ tab[i].start = data[c]
  PROVE  TableOf(tab, data)
<1>1. ASSUME NEW e \in Range(tab)
      PROVE  <<e.start, e.chunk>>
                \in {<<data[c], c>> : c \in {d \in Chunk \ {FixedChunk} : data[d] # NULL}}
  <2>1. PICK i \in 1 .. n : e = tab[i]
    BY DEF Range
  <2> QED
    BY <2>1
<1>2. ASSUME NEW c \in Chunk, c # FixedChunk, data[c] # NULL
      PROVE  <<data[c], c>> \in {<<e.start, e.chunk>> : e \in Range(tab)}
  <2>1. PICK i \in 1 .. n : tab[i].chunk = c /\ tab[i].start = data[c]
    BY <1>2
  <2>2. tab[i] \in Range(tab)
    BY DEF Range
  <2> QED
    BY <2>1, <2>2
<1> QED
  BY <1>1, <1>2 DEF TableOf

\* A chunk leaves the table.
LEMMA TableWithout ==
  ASSUME MicroAssumption, Types, Spaces, TableExact, NEW c \in Chunk, c # FixedChunk,
         mData[c] # NULL, mData' = [mData EXCEPT ![c] = NULL], removeMicroChunk(c)
  PROVE  mMicroChunks' \in Seq(Entry) /\ mLastMicroChunk' \in Nat /\ TableExact'
<1> DEFINE n == Len(mMicroChunks)
           Test(e) == e.chunk = c
           places == {i \in 1 .. n : mMicroChunks[i].chunk = c}
<1>0. /\ n \in Nat /\ DOMAIN mMicroChunks = 1 .. n
      /\ \A i \in 1 .. n : /\ mMicroChunks[i] \in Entry /\ mMicroChunks[i].start \in Nat
                           /\ mMicroChunks[i].chunk # FixedChunk
                           /\ mData[mMicroChunks[i].chunk] = mMicroChunks[i].start
      /\ \A i, j \in 1 .. n : i < j => mMicroChunks[i].start < mMicroChunks[j].start
      /\ \A d \in Chunk : d # FixedChunk /\ mData[d] # NULL =>
            \E i \in 1 .. n : mMicroChunks[i].chunk = d /\ mMicroChunks[i].start = mData[d]
  BY TableEntries DEF TableExact
<1>1. places # {} /\ places \in SUBSET Nat
  BY <1>0
<1>2. PICK k : k = Min(places)
  OBVIOUS
<1>3. k \in places
  <2>1. \E m \in places : \A j \in places : m <= j
    BY <1>1, LeastNumber
  <2> HIDE DEF places
  <2> QED
    BY <1>2, <2>1 DEF Min
<1>4. mMicroChunks' = RemoveAt(mMicroChunks, k) /\ mLastMicroChunk' = 0
  <2>1. \E i \in 1 .. Len(mMicroChunks) : mMicroChunks[i].chunk = c
    BY <1>1
  <2> QED
    BY <1>1, <1>2, <2>1 DEF removeMicroChunk, RemoveFirstMatch, SelectInSeq
<1>5. PICK tab : tab = mMicroChunks'
  OBVIOUS
<1>6. /\ tab \in Seq(Entry) /\ Len(tab) = n - 1 /\ n - 1 \in Nat /\ k \in 1 .. n
      /\ \A i \in 1 .. k - 1 : tab[i] = mMicroChunks[i]
      /\ \A i \in k .. n - 1 : tab[i] = mMicroChunks[i + 1]
  <2>1. mMicroChunks \in Seq(Entry) /\ k \in 1 .. Len(mMicroChunks)
    BY <1>3 DEF Types
  <2> HIDE DEF places, n
  <2>2. /\ RemoveAt(mMicroChunks, k) \in Seq(Entry)
        /\ Len(RemoveAt(mMicroChunks, k)) = Len(mMicroChunks) - 1
        /\ \A i \in 1 .. k - 1 : RemoveAt(mMicroChunks, k)[i] = mMicroChunks[i]
        /\ \A i \in k .. Len(mMicroChunks) - 1 : RemoveAt(mMicroChunks, k)[i] = mMicroChunks[i + 1]
    BY <2>1, Removed
  <2>3. n - 1 \in Nat
    BY <2>1 DEF n
  <2> QED
    BY <1>4, <1>5, <2>1, <2>2, <2>3 DEF n
<1>7. \A i \in 1 .. n : i # k => mMicroChunks[i].chunk # c
  <2> SUFFICES ASSUME NEW i \in 1 .. n, i # k, mMicroChunks[i].chunk = c
               PROVE  FALSE
    OBVIOUS
  <2>1. mMicroChunks[i].start = mMicroChunks[k].start
    BY <1>0, <1>3
  <2>2. i < k \/ k < i
    BY <1>0, <1>6
  <2> QED
    BY <1>0, <1>6, <2>1, <2>2
<1> DEFINE Was(i) == IF i < k THEN i ELSE i + 1
<1>8. \A i \in 1 .. n - 1 : Was(i) \in 1 .. n /\ Was(i) # k /\ tab[i] = mMicroChunks[Was(i)]
  BY <1>0, <1>6
<1>9. \A i, j \in 1 .. n - 1 : i < j => Was(i) < Was(j)
  BY <1>0, <1>6
<1>10. \A j \in 1 .. n : j # k => \E i \in 1 .. n - 1 : Was(i) = j
  <2> SUFFICES ASSUME NEW j \in 1 .. n, j # k
               PROVE  \E i \in 1 .. n - 1 : Was(i) = j
    OBVIOUS
  <2>1. CASE j < k
    BY <1>0, <1>6, <2>1
  <2>2. CASE j > k
    <3>1. j - 1 \in 1 .. n - 1 /\ Was(j - 1) = j
      BY <1>0, <1>6, <2>2
    <3> QED
      BY <3>1
  <2> QED
    BY <1>0, <1>6, <2>1, <2>2
<1> HIDE DEF Was, places
<1>11. \A d \in Chunk : mData'[d] = IF d = c THEN NULL ELSE mData[d]
  BY DEF Types
<1>12. \A i \in 1 .. n - 1 : /\ tab[i].chunk \in Chunk /\ tab[i].chunk # FixedChunk
                             /\ mData'[tab[i].chunk] = tab[i].start /\ tab[i].start # NULL
  BY <1>0, <1>7, <1>8, <1>11, Numbers DEF Entry
<1>13. \A d \in Chunk : d # FixedChunk /\ mData'[d] # NULL =>
          \E i \in 1 .. n - 1 : tab[i].chunk = d /\ tab[i].start = mData'[d]
  <2> SUFFICES ASSUME NEW d \in Chunk, d # FixedChunk, mData'[d] # NULL
               PROVE  \E i \in 1 .. n - 1 : tab[i].chunk = d /\ tab[i].start = mData'[d]
    OBVIOUS
  <2>1. d # c /\ mData'[d] = mData[d]
    BY <1>11
  <2>2. PICK j \in 1 .. n : mMicroChunks[j].chunk = d /\ mMicroChunks[j].start = mData[d]
    BY <1>0, <2>1
  <2>3. j # k
    BY <1>3, <2>1, <2>2 DEF places
  <2> QED
    BY <1>8, <1>10, <2>1, <2>2, <2>3
<1>14. DOMAIN tab = 1 .. n - 1
  BY <1>6
<1>15. TableOf(tab, mData')
  <2>1. PICK m : m = n - 1
    OBVIOUS
  <2>2. PICK data : data = mData'
    OBVIOUS
  <2>3. m \in Nat /\ DOMAIN tab = 1 .. m
    BY <1>6, <1>14, <2>1
  <2>4. \A i \in 1 .. m : /\ tab[i].chunk \in Chunk /\ tab[i].chunk # FixedChunk
                          /\ data[tab[i].chunk] = tab[i].start /\ tab[i].start # NULL
    BY <1>12, <2>1, <2>2
  <2>5. \A d \in Chunk : d # FixedChunk /\ data[d] # NULL =>
           \E i \in 1 .. m : tab[i].chunk = d /\ tab[i].start = data[d]
    BY <1>13, <2>1, <2>2
  <2>6. TableOf(tab, data)
    BY <2>3, <2>4, <2>5, TableFrom
  <2> QED
    BY <2>2, <2>6
<1>16. \A i, j \in 1 .. n - 1 : i < j => tab[i].start < tab[j].start
  BY <1>0, <1>8, <1>9
<1>17. TableExact'
  <2>1. {<<e.start, e.chunk>> : e \in Range(mMicroChunks')}
          = {<<mData'[d], d>> : d \in {d \in Chunk \ {FixedChunk} : mData'[d] # NULL}}
    BY <1>5, <1>15 DEF TableOf
  <2>2. \A i, j \in DOMAIN mMicroChunks' :
           i < j => mMicroChunks'[i].start < mMicroChunks'[j].start
    BY <1>5, <1>14, <1>16
  <2>3. mLastMicroChunk' \in 0 .. Len(mMicroChunks')
    BY <1>4, <1>5, <1>6
  <2> QED
    BY <2>1, <2>2, <2>3 DEF TableExact
<1> QED
  BY <1>4, <1>5, <1>6, <1>17

\* A chunk enters the table: what lies before its place lies before it in memory too.
LEMMA TableWith ==
  ASSUME MicroAssumption, MicroInv, NEW c \in Chunk, mData[c] = NULL, NEW s \in FreeSpots,
         mData' = [mData EXCEPT ![c] = s], addMicroChunk(s, c)
  PROVE  mMicroChunks' \in Seq(Entry) /\ mLastMicroChunk' \in Nat /\ TableExact'
<1> DEFINE n == Len(mMicroChunks)
           behind == {i \in 1 .. n : End(s) < mMicroChunks[i].start}
           e == [start |-> s, chunk |-> c]
<1>0. /\ n \in Nat /\ DOMAIN mMicroChunks = 1 .. n
      /\ \A i \in 1 .. n : /\ mMicroChunks[i] \in Entry /\ mMicroChunks[i].start \in Nat
                           /\ mMicroChunks[i].chunk # FixedChunk
                           /\ mData[mMicroChunks[i].chunk] = mMicroChunks[i].start
      /\ \A i, j \in 1 .. n : i < j => mMicroChunks[i].start < mMicroChunks[j].start
      /\ \A d \in Chunk : d # FixedChunk /\ mData[d] # NULL =>
            \E i \in 1 .. n : mMicroChunks[i].chunk = d /\ mMicroChunks[i].start = mData[d]
  BY TableEntries DEF TableExact, MicroInv
<1>1. s \in Spot /\ s \in Nat /\ s # NULL /\ \A d \in Chunk : mData[d] # s
  BY FreeSpotIs
<1>2. c # FixedChunk /\ e \in Entry
  BY <1>1, Numbers DEF MicroInv, Types, Entry
<1>3. \A i \in 1 .. n : mMicroChunks[i].start < s \/ i \in behind
  <2> SUFFICES ASSUME NEW i \in 1 .. n
               PROVE  mMicroChunks[i].start < s \/ End(s) < mMicroChunks[i].start
    OBVIOUS
  <2>1. mMicroChunks[i].start \in Spot /\ mMicroChunks[i].start # s
    BY <1>0, <1>1 DEF Entry
  <2> QED
    BY <1>0, <1>1, <2>1, Numbers DEF End
<1>4. \A i \in behind : s < mMicroChunks[i].start
  BY <1>0, <1>1, Numbers DEF End
<1>5. PICK k : k = PlaceInTable(s)
  OBVIOUS
<1>6. /\ k \in 1 .. n + 1
      /\ \A i \in 1 .. n : i < k => mMicroChunks[i].start < s
      /\ \A i \in 1 .. n : i >= k => s < mMicroChunks[i].start
  <2>1. k = IF behind = {} THEN n + 1 ELSE CHOOSE i \in behind : \A j \in behind : i <= j
    BY <1>0, <1>5 DEF PlaceInTable
  <2>2. CASE behind = {}
    BY <1>0, <1>3, <2>1, <2>2
  <2>3. CASE behind # {}
    <3>1. behind \in SUBSET Nat
      BY <1>0
    <3>2. \E i \in behind : \A j \in behind : i <= j
      BY <2>3, <3>1, LeastNumber
    <3>3. k \in behind /\ \A j \in behind : k <= j
      <4> HIDE DEF behind
      <4> QED
        BY <2>1, <2>3, <3>2
    <3>4. k \in 1 .. n /\ s < mMicroChunks[k].start
      BY <1>4, <3>3
    <3>5. \A i \in 1 .. n : i < k => mMicroChunks[i].start < s
      <4> HIDE DEF behind
      <4> QED
        BY <1>0, <1>3, <3>3, <3>4
    <3>6. ASSUME NEW i \in 1 .. n, i >= k
          PROVE  s < mMicroChunks[i].start
      <4>1. i = k \/ mMicroChunks[k].start < mMicroChunks[i].start
        BY <1>0, <3>4, <3>6
      <4> QED
        BY <1>0, <1>1, <3>4, <4>1
    <3> QED
      BY <1>0, <3>4, <3>5, <3>6
  <2> QED
    BY <2>2, <2>3
<1> HIDE DEF behind
<1>7. PICK tab : tab = mMicroChunks'
  OBVIOUS
<1>8. /\ tab \in Seq(Entry) /\ Len(tab) = n + 1 /\ mLastMicroChunk' = k /\ tab[k] = e
      /\ \A i \in 1 .. k - 1 : tab[i] = mMicroChunks[i]
      /\ \A i \in k + 1 .. n + 1 : tab[i] = mMicroChunks[i - 1]
  <2>1. mMicroChunks \in Seq(Entry) /\ k \in 1 .. Len(mMicroChunks) + 1
    BY <1>6 DEF MicroInv, Types
  <2>2. tab = InsertAt(mMicroChunks, k, e) /\ mLastMicroChunk' = k
    BY <1>5, <1>7 DEF addMicroChunk
  <2> HIDE DEF e, n
  <2>3. /\ InsertAt(mMicroChunks, k, e) \in Seq(Entry)
        /\ Len(InsertAt(mMicroChunks, k, e)) = Len(mMicroChunks) + 1
        /\ InsertAt(mMicroChunks, k, e)[k] = e
        /\ \A i \in 1 .. k - 1 : InsertAt(mMicroChunks, k, e)[i] = mMicroChunks[i]
        /\ \A i \in k + 1 .. Len(mMicroChunks) + 1 :
              InsertAt(mMicroChunks, k, e)[i] = mMicroChunks[i - 1]
    BY <1>2, <2>1, Inserted
  <2> QED
    BY <2>2, <2>3 DEF n
<1> DEFINE Was(i) == IF i < k THEN i ELSE i - 1
<1>9. \A i \in 1 .. n + 1 : i # k => Was(i) \in 1 .. n /\ tab[i] = mMicroChunks[Was(i)]
  BY <1>0, <1>6, <1>8
<1>10. \A i \in 1 .. n + 1 : i # k => tab[i].start \in Nat /\ (i < k <=> tab[i].start < s)
  <2> SUFFICES ASSUME NEW i \in 1 .. n + 1, i # k
               PROVE  tab[i].start \in Nat /\ (i < k <=> tab[i].start < s)
    OBVIOUS
  <2>1. Was(i) \in 1 .. n /\ tab[i] = mMicroChunks[Was(i)] /\ (i < k <=> Was(i) < k)
    BY <1>0, <1>6, <1>9
  <2> HIDE DEF Was
  <2> QED
    BY <1>0, <1>1, <1>6, <2>1
<1>11. \A i, j \in 1 .. n + 1 : i < j => tab[i].start < tab[j].start
  <2> SUFFICES ASSUME NEW i \in 1 .. n + 1, NEW j \in 1 .. n + 1, i < j
               PROVE  tab[i].start < tab[j].start
    OBVIOUS
  <2>1. CASE i = k
    <3>1. j # k /\ ~(j < k)
      BY <1>0, <1>6, <2>1
    <3>2. tab[j].start \in Nat /\ ~(tab[j].start < s) /\ tab[i].start = s
      BY <1>8, <1>10, <2>1, <3>1
    <3>3. tab[j].start # s
      <4>1. Was(j) \in 1 .. n /\ tab[j] = mMicroChunks[Was(j)]
        BY <1>9, <3>1
      <4> HIDE DEF Was
      <4>2. mMicroChunks[Was(j)] \in Entry
        BY <1>0, <4>1
      <4> QED
        BY <1>0, <1>1, <4>1, <4>2 DEF Entry
    <3> QED
      BY <1>1, <3>2, <3>3
  <2>2. CASE j = k
    <3>1. i # k /\ i < k
      BY <1>0, <1>6, <2>2
    <3> QED
      BY <1>8, <1>10, <2>2, <3>1
  <2>3. CASE i # k /\ j # k
    <3>1. /\ Was(i) \in 1 .. n /\ tab[i] = mMicroChunks[Was(i)]
          /\ Was(j) \in 1 .. n /\ tab[j] = mMicroChunks[Was(j)]
      BY <1>9, <2>3
    <3>2. Was(i) < Was(j)
      BY <1>0, <1>6, <2>3
    <3> HIDE DEF Was
    <3> QED
      BY <1>0, <3>1, <3>2
  <2> QED
    BY <2>1, <2>2, <2>3
<1>12. \A j \in 1 .. n : \E i \in 1 .. n + 1 : i # k /\ Was(i) = j
  <2> SUFFICES ASSUME NEW j \in 1 .. n
               PROVE  \E i \in 1 .. n + 1 : i # k /\ Was(i) = j
    OBVIOUS
  <2>1. CASE j < k
    <3>1. j \in 1 .. n + 1 /\ j # k /\ Was(j) = j
      BY <1>0, <1>6, <2>1
    <3> QED
      BY <3>1
  <2>2. CASE j >= k
    <3>1. j + 1 \in 1 .. n + 1 /\ j + 1 # k /\ Was(j + 1) = j
      BY <1>0, <1>6, <2>2
    <3> QED
      BY <3>1
  <2> QED
    BY <1>0, <1>6, <2>1, <2>2
<1> HIDE DEF Was
<1>13. \A d \in Chunk : mData'[d] = IF d = c THEN s ELSE mData[d]
  BY DEF MicroInv, Types
<1>14. TableOf(tab, mData')
  <2>1. PICK m : m = n + 1
    OBVIOUS
  <2>2. PICK data : data = mData'
    OBVIOUS
  <2>3. m \in Nat /\ DOMAIN tab = 1 .. m
    BY <1>0, <1>8, <2>1
  <2>4. \A i \in 1 .. m : /\ tab[i].chunk \in Chunk /\ tab[i].chunk # FixedChunk
                          /\ data[tab[i].chunk] = tab[i].start /\ tab[i].start # NULL
    <3> SUFFICES ASSUME NEW i \in 1 .. n + 1
                 PROVE  /\ tab[i].chunk \in Chunk /\ tab[i].chunk # FixedChunk
                        /\ mData'[tab[i].chunk] = tab[i].start /\ tab[i].start # NULL
      BY <2>1, <2>2
    <3>1. CASE i = k
      BY <1>1, <1>2, <1>8, <1>13, <3>1
    <3>2. CASE i # k
      <4>1. PICK j \in 1 .. n : tab[i] = mMicroChunks[j]
        BY <1>9, <3>2
      <4>2. /\ mMicroChunks[j] \in Entry /\ mMicroChunks[j].chunk # FixedChunk
            /\ mData[mMicroChunks[j].chunk] = mMicroChunks[j].start
            /\ mMicroChunks[j].start \in Nat
        BY <1>0
      <4> QED
        BY <1>13, <4>1, <4>2, Numbers DEF Entry
    <3> QED
      BY <3>1, <3>2
  <2>5. \A d \in Chunk : d # FixedChunk /\ data[d] # NULL =>
           \E i \in 1 .. m : tab[i].chunk = d /\ tab[i].start = data[d]
    <3> SUFFICES ASSUME NEW d \in Chunk, d # FixedChunk, mData'[d] # NULL
                 PROVE  \E i \in 1 .. n + 1 : tab[i].chunk = d /\ tab[i].start = mData'[d]
      BY <2>1, <2>2
    <3>1. CASE d = c
      <4>1. k \in 1 .. n + 1 /\ tab[k].chunk = d /\ tab[k].start = mData'[d]
        BY <1>6, <1>8, <1>13, <3>1
      <4> QED
        BY <4>1
    <3>2. CASE d # c
      <4>1. mData'[d] = mData[d]
        BY <1>13, <3>2
      <4>2. PICK j \in 1 .. n : mMicroChunks[j].chunk = d /\ mMicroChunks[j].start = mData[d]
        BY <1>0, <4>1
      <4>3. PICK i \in 1 .. n + 1 : i # k /\ Was(i) = j
        BY <1>12
      <4>4. tab[i] = mMicroChunks[j]
        BY <1>9, <4>3
      <4> QED
        BY <4>1, <4>2, <4>4
    <3> QED
      BY <3>1, <3>2
  <2>6. TableOf(tab, data)
    BY <2>3, <2>4, <2>5, TableFrom
  <2> QED
    BY <2>2, <2>6
<1>15. DOMAIN tab = 1 .. n + 1 /\ n + 1 \in Nat
  BY <1>0, <1>8
<1>16. TableExact'
  <2>1. {<<f.start, f.chunk>> : f \in Range(mMicroChunks')}
          = {<<mData'[d], d>> : d \in {d \in Chunk \ {FixedChunk} : mData'[d] # NULL}}
    BY <1>7, <1>14 DEF TableOf
  <2>2. \A i, j \in DOMAIN mMicroChunks' :
           i < j => mMicroChunks'[i].start < mMicroChunks'[j].start
    BY <1>7, <1>11, <1>15
  <2>3. mLastMicroChunk' \in 0 .. Len(mMicroChunks')
    BY <1>6, <1>7, <1>8, <1>15
  <2> QED
    BY <2>1, <2>2, <2>3 DEF TableExact
<1>17. mLastMicroChunk' \in Nat
  BY <1>6, <1>8, <1>15
<1> QED
  BY <1>7, <1>8, <1>16, <1>17

\* A step that changes one chunk, and of the others not even which blocks are in use.
LEMMA OthersTiled ==
  ASSUME MicroInv, NEW c \in Chunk, NEW m, NEW f, NEW v,
         mData' = [mData EXCEPT ![c] = m] \/ mData' = mData,
         mFreeList' = [mFreeList EXCEPT ![c] = f], mUsedCount' = [mUsedCount EXCEPT ![c] = v],
         \A d \in Chunk : d # c => \A x \in Area(d) : x \in Busy' <=> x \in Busy,
         TiledAt(c)'
  PROVE  \A d \in Chunk : TiledAt(d)' /\ (d # c => Area(d)' = Area(d))
<1> SUFFICES ASSUME NEW d \in Chunk, d # c
             PROVE  TiledAt(d)' /\ Area(d)' = Area(d)
  OBVIOUS
<1>1. mData'[d] = mData[d] /\ mFreeList'[d] = mFreeList[d] /\ mUsedCount'[d] = mUsedCount[d]
  BY DEF MicroInv, Types
<1>2. Area(d)' = Area(d)
  BY <1>1 DEF Area, Span
<1> QED
  BY <1>1, <1>2, TiledStays DEF MicroInv

\* A block goes back to its chunk, which goes back to the heap when it was the last.
LEMMA FreeKeeps ==
  ASSUME MicroAssumption, MicroInv, NEW t \in Thread, Free(t)
  PROVE  MicroInv'
<1>0. PICK p, c : p = task[t].p /\ c = task[t].chunk
  OBVIOUS
<1> DEFINE K == Area(c) \cap Busy
<1>1. /\ task[t].pc # "idle" /\ c # NULL /\ held' = held /\ held' = held \cup {}
      /\ task' = [task EXCEPT ![t] = Idle]
      /\ mUsedCount' = [mUsedCount EXCEPT ![c] = @ - 1]
      /\ chunkChunks' = chunkChunks /\ mCurrent' = mCurrent /\ bigBlocks' = bigBlocks
  BY <1>0 DEF Free, Done
<1>2. /\ c \in Chunk /\ mData[c] # NULL /\ p \in Area(c) /\ p \in Busy /\ p \in Nat
      /\ \A u \in Thread : u # t => task[u].p # p
  BY <1>0, <1>1, TaskHas
<1>3. /\ \A d \in Chunk : d # c => p \notin Area(d)
      /\ \A x \in bigBlocks : x # p
  BY <1>2, AreasApart DEF MicroInv
<1>4. OneUser' /\ \A y : y \in Busy' <=> y \in Busy /\ y # p
  <2>1. {} \in SUBSET Nat /\ \A x \in {} : x \notin Busy \/ x = task[t].p
    OBVIOUS
  <2>2. OneUser' /\ \A y : y \in Busy' <=> (y \in Busy /\ y # task[t].p) \/ y \in {}
    BY <1>1, <2>1, Numbers, BusyEnds DEF MicroInv
  <2> QED
    BY <1>0, <2>2
<1>5. /\ IsFiniteSet(K) /\ p \in K /\ mUsedCount[c] = Cardinality(K) /\ mUsedCount[c] \in Nat
      /\ mUsedCount[c] # 0 /\ mFreeList[c] \in Seq(Nat) /\ IsInjective(mFreeList[c])
      /\ Range(mFreeList[c]) = Area(c) \ Busy
  <2>1. IsFiniteSet(Area(c))
    BY <1>2, AreaIs DEF MicroInv
  <2>2. IsFiniteSet(K)
    BY <2>1, FS_Subset
  <2>3. p \in K /\ mUsedCount[c] = Cardinality(K) /\ mUsedCount[c] \in Nat
    BY <1>2 DEF MicroInv, TiledAt, Types
  <2>4. mUsedCount[c] # 0
    BY <2>2, <2>3, FS_EmptySet
  <2> QED
    BY <1>2, <2>2, <2>3, <2>4 DEF MicroInv, TiledAt, Types
<1>6. Cardinality(K \ {p}) = mUsedCount[c] - 1
  <2> HIDE DEF K
  <2>1. Cardinality(K \ {p}) = IF p \in K THEN Cardinality(K) - 1 ELSE Cardinality(K)
    BY <1>5, FS_RemoveElement
  <2> QED
    BY <1>5, <2>1
<1>7. mUsedCount' \in [Chunk -> Nat] /\ mUsedCount'[c] = mUsedCount[c] - 1
  BY <1>1, <1>2, <1>5 DEF MicroInv, Types
<1>8. Idle \in Task /\ Idle.pc = "idle"
  BY DEF Idle, Task
<1>9. task' \in [Thread -> Task] /\ task'[t] = Idle /\ \A u \in Thread : u # t => task'[u] = task[u]
  BY <1>1, <1>8, TaskSet DEF MicroInv
<1>10. \A d \in Chunk : d # c => \A x \in Area(d) : x \in Busy' <=> x \in Busy
  BY <1>3, <1>4
<1> HIDE DEF K
<1>11. CASE NowEmpty(c)
  <2>1. /\ c # FixedChunk /\ mUsedCount[c] = 1 /\ removeMicroChunk(c)
        /\ mData' = [mData EXCEPT ![c] = NULL] /\ mFreeList' = [mFreeList EXCEPT ![c] = <<>>]
    BY <1>0, <1>11 DEF Free, NowEmpty
  <2>2. K = {p}
    <3>1. IsFiniteSet(K) /\ Cardinality(K) = 1
      BY <1>5, <2>1
    <3>2. \E x : K = {x}
      BY <3>1, FS_Singleton
    <3> QED
      BY <1>5, <3>2
  <2>3. \A d \in Chunk : /\ mData'[d] = IF d = c THEN NULL ELSE mData[d]
                         /\ mFreeList'[d] = IF d = c THEN <<>> ELSE mFreeList[d]
    BY <2>1 DEF MicroInv, Types
  <2>4. mMicroChunks' \in Seq(Entry) /\ mLastMicroChunk' \in Nat /\ TableExact'
    BY <1>2, <2>1, TableWithout DEF MicroInv
  <2>5. Types'
    <3>1. mData' \in [Chunk -> Spot \cup {Base, NULL}]
      BY <2>1 DEF MicroInv, Types
    <3>2. mFreeList' \in [Chunk -> Seq(Nat)]
      <4>1. <<>> \in Seq(Nat)
        OBVIOUS
      <4> QED
        BY <2>1, <4>1 DEF MicroInv, Types
    <3>3. mData'[FixedChunk] = Base /\ \A d \in Chunk : mData'[d] = Base => d = FixedChunk
      BY <2>1, <2>3, Numbers DEF MicroInv, Types
    <3> QED
      BY <1>1, <1>7, <1>9, <2>4, <3>1, <3>2, <3>3 DEF MicroInv, Types
  <2>6. Spaces'
    BY <1>1, <1>2, <2>3, Numbers DEF MicroInv, Spaces, Types
  <2>7. TiledAt(c)'
    <3>1. Area(c)' = {} /\ mData'[c] = NULL /\ mFreeList'[c] = <<>> /\ mUsedCount'[c] = 0
      BY <1>2, <1>5, <1>7, <2>1, <2>3 DEF Area
    <3>2. Range(<<>>) = {} /\ IsInjective(<<>>)
      BY DEF Range, IsInjective
    <3>3. Range(mFreeList'[c]) = Area(c)' \ Busy' /\ IsInjective(mFreeList'[c])
      BY <3>1, <3>2
    <3>4. Area(c)' \cap Busy' = {} /\ Cardinality({}) = 0
      BY <3>1, FS_EmptySet
    <3>5. mUsedCount'[c] = Cardinality(Area(c)' \cap Busy')
      BY <3>1, <3>4
    <3> QED
      BY <3>1, <3>3, <3>5, Zenon DEF TiledAt
  <2>8. \A d \in Chunk : TiledAt(d)' /\ (d # c => Area(d)' = Area(d))
    <3>1. PICK v : v = mUsedCount[c] - 1
      OBVIOUS
    <3>2. mUsedCount' = [mUsedCount EXCEPT ![c] = v]
      BY <1>1, <1>2, <3>1 DEF MicroInv, Types
    <3> QED
      BY <1>2, <1>10, <2>1, <2>7, <3>2, OthersTiled
  <2>9. Known'
    <3> SUFFICES ASSUME NEW x \in Busy', x \notin bigBlocks
                 PROVE  \E d \in Chunk : x \in Area(d)'
      BY <1>1 DEF Known
    <3>1. x \in Busy /\ x # p
      BY <1>4
    <3>2. PICK d \in Chunk : x \in Area(d)
      BY <3>1 DEF MicroInv, Known
    <3>3. d # c
      BY <2>2, <3>1, <3>2 DEF K
    <3> QED
      BY <2>8, <3>2, <3>3
  <2>10. FreedWhereItBelongs'
    <3> SUFFICES ASSUME NEW u \in Thread, task'[u].pc # "idle"
                 PROVE  IF task'[u].chunk = NULL THEN task'[u].p \in bigBlocks'
                        ELSE mData'[task'[u].chunk] # NULL
                             /\ Within(task'[u].p, mData'[task'[u].chunk])
      BY DEF FreedWhereItBelongs
    <3>1. u # t /\ task'[u] = task[u]
      BY <1>8, <1>9
    <3>2. task[u].chunk # c
      <4> SUFFICES ASSUME task[u].chunk = c
                   PROVE  FALSE
        OBVIOUS
      <4>1. task[u].p \in K
        BY <1>1, <3>1, TaskHas DEF K
      <4> QED
        BY <1>2, <2>2, <3>1, <4>1
    <3>3. task[u].chunk # NULL => task[u].chunk \in Chunk
      BY <3>1, TaskHas
    <3> QED
      BY <1>1, <2>3, <3>1, <3>2, <3>3 DEF MicroInv, FreedWhereItBelongs
  <2> QED
    BY <1>4, <2>4, <2>5, <2>6, <2>8, <2>9, <2>10 DEF MicroInv
<1>12. CASE ~NowEmpty(c)
  <2>1. /\ mFreeList' = [mFreeList EXCEPT ![c] = <<p>> \o @] /\ mData' = mData
        /\ mMicroChunks' = mMicroChunks /\ mLastMicroChunk' = mLastMicroChunk
    BY <1>0, <1>12 DEF Free, tableVars
  <2>2. PICK f : f = <<p>> \o mFreeList[c]
    OBVIOUS
  <2>3. f \in Seq(Nat) /\ IsInjective(f) /\ \A x : x \in Range(f) <=> x = p \/ x \in Range(mFreeList[c])
    <3>1. p \notin Range(mFreeList[c])
      BY <1>2, <1>5
    <3> QED
      BY <1>2, <1>5, <2>2, <3>1, ListPut
  <2>4. /\ mFreeList' = [mFreeList EXCEPT ![c] = f] /\ mFreeList'[c] = f
        /\ mFreeList' \in [Chunk -> Seq(Nat)]
    BY <1>2, <2>1, <2>2, <2>3 DEF MicroInv, Types
  <2>5. \A d : Area(d)' = Area(d)
    BY <2>1 DEF Area, Span
  <2>6. TiledAt(c)'
    <3>1. Range(mFreeList'[c]) = Area(c)' \ Busy'
      BY <1>2, <1>4, <1>5, <2>3, <2>4, <2>5
    <3>2. Area(c)' \cap Busy' = K \ {p}
      BY <1>4, <2>5 DEF K
    <3>3. mUsedCount'[c] = Cardinality(Area(c)' \cap Busy')
      BY <1>6, <1>7, <3>2
    <3>4. c # FixedChunk => (mData'[c] = NULL <=> mUsedCount'[c] = 0)
      BY <1>2, <1>5, <1>7, <1>12, <2>1 DEF NowEmpty
    <3>5. IsInjective(mFreeList'[c])
      BY <2>3, <2>4
    <3> QED
      BY <3>1, <3>3, <3>4, <3>5, Zenon DEF TiledAt
  <2>7. \A d \in Chunk : TiledAt(d)'
    <3>1. PICK v : v = mUsedCount[c] - 1
      OBVIOUS
    <3>2. mUsedCount' = [mUsedCount EXCEPT ![c] = v]
      BY <1>1, <1>2, <3>1 DEF MicroInv, Types
    <3> QED
      BY <1>2, <1>10, <2>1, <2>4, <2>6, <3>2, OthersTiled
  <2>8. Types'
    BY <1>1, <1>7, <1>9, <2>1, <2>4 DEF MicroInv, Types
  <2>9. Spaces' /\ TableExact'
    BY <1>1, <2>1 DEF MicroInv, Spaces, TableExact
  <2>10. Known'
    BY <1>1, <1>4, <2>5 DEF MicroInv, Known
  <2>11. FreedWhereItBelongs'
    BY <1>1, <1>8, <1>9, <2>1 DEF MicroInv, FreedWhereItBelongs
  <2> QED
    BY <1>4, <2>7, <2>8, <2>9, <2>10, <2>11 DEF MicroInv
<1> QED
  BY <1>11, <1>12

\* A small request: of a chunk that has a block, or of new memory for one that has none.
LEMMA MallocKeeps ==
  ASSUME MicroAssumption, MicroInv, NEW t \in Thread, Malloc(t)
  PROVE  MicroInv'
<1>0. PICK c : c = ChunkToUse
  OBVIOUS
<1> DEFINE K == Area(c) \cap Busy
<1>1. /\ c \in Chunk /\ mCurrent' = c /\ bigBlocks' = bigBlocks /\ task' = task
      /\ chunkChunks' = IF c[1] > chunkChunks THEN c[1] ELSE chunkChunks
      /\ mUsedCount' = [mUsedCount EXCEPT ![c] = @ + 1]
  BY <1>0 DEF Malloc
<1>2. Gives(c)
  BY <1>0, <1>1, ChosenGives DEF MicroInv
<1>3. /\ chunkChunks' \in 1 .. MaxChunkChunks /\ c[1] <= chunkChunks'
      /\ \A d \in Chunk : d[1] > chunkChunks' => d[1] > chunkChunks
  <2>1. /\ chunkChunks \in 1 .. MaxChunkChunks /\ MaxChunkChunks \in Nat
        /\ \A d \in Chunk : d[1] \in 1 .. MaxChunkChunks
    BY Numbers DEF MicroInv, Types, Chunk
  <2> QED
    BY <1>1, <2>1
<1>4. /\ mUsedCount[c] \in Nat /\ mUsedCount[c] = Cardinality(K) /\ IsFiniteSet(K)
      /\ mFreeList[c] \in Seq(Nat) /\ IsInjective(mFreeList[c])
      /\ Range(mFreeList[c]) = Area(c) \ Busy
  <2>1. IsFiniteSet(Area(c))
    BY <1>1, AreaIs DEF MicroInv
  <2>2. IsFiniteSet(K)
    BY <2>1, FS_Subset
  <2> QED
    BY <1>1, <2>2 DEF MicroInv, TiledAt, Types
<1>5. PICK v : v = mUsedCount[c] + 1
  OBVIOUS
<1>6. /\ mUsedCount' = [mUsedCount EXCEPT ![c] = v] /\ mUsedCount' \in [Chunk -> Nat]
      /\ mUsedCount'[c] = mUsedCount[c] + 1 /\ mUsedCount'[c] # 0
  BY <1>1, <1>4, <1>5 DEF MicroInv, Types
<1> HIDE DEF K
<1>7. CASE mData[c] # NULL
  <2>1. PICK x, f : x = Head(mFreeList[c]) /\ f = Tail(mFreeList[c])
    OBVIOUS
  <2>2. /\ held' = held \cup {x} /\ mFreeList' = [mFreeList EXCEPT ![c] = f] /\ mData' = mData
        /\ mMicroChunks' = mMicroChunks /\ mLastMicroChunk' = mLastMicroChunk
    <3>1. /\ held' = held \cup {Head(mFreeList[c])}
          /\ mFreeList' = [mFreeList EXCEPT ![c] = Tail(@)]
          /\ UNCHANGED <<mData, tableVars>>
      BY <1>0, <1>7 DEF Malloc
    <3> QED
      BY <1>1, <2>1, <3>1 DEF tableVars, MicroInv, Types
  <2>3. /\ f \in Seq(Nat) /\ IsInjective(f) /\ x \in Nat /\ x \notin Range(f)
        /\ \A y : y \in Range(mFreeList[c]) <=> y = x \/ y \in Range(f)
    <3>1. mFreeList[c] # <<>>
      BY <1>2, <1>7 DEF Gives
    <3> QED
      BY <1>4, <2>1, <3>1, ListTaken
  <2>4. x \in Area(c) /\ x \notin Busy
    BY <1>4, <2>3
  <2>5. OneUser' /\ \A y : y \in Busy' <=> y \in Busy \/ y = x
    BY <1>1, <2>2, <2>3, <2>4, Numbers, BusyMore DEF MicroInv
  <2>6. \A d : Area(d)' = Area(d)
    BY <2>2 DEF Area, Span
  <2>7. mFreeList' \in [Chunk -> Seq(Nat)] /\ mFreeList'[c] = f
    BY <1>1, <2>2, <2>3 DEF MicroInv, Types
  <2>8. TiledAt(c)'
    <3>1. Range(mFreeList'[c]) = Area(c)' \ Busy' /\ IsInjective(mFreeList'[c])
      BY <1>4, <2>3, <2>4, <2>5, <2>6, <2>7
    <3>2. Area(c)' \cap Busy' = K \cup {x} /\ x \notin K
      BY <2>4, <2>5, <2>6 DEF K
    <3>3. Cardinality(K \cup {x}) = Cardinality(K) + 1
      BY <1>4, <3>2, FS_AddElement
    <3>4. mUsedCount'[c] = Cardinality(Area(c)' \cap Busy')
      BY <1>4, <1>6, <3>2, <3>3
    <3>5. c # FixedChunk => (mData'[c] = NULL <=> mUsedCount'[c] = 0)
      BY <1>6, <1>7, <2>2
    <3> QED
      BY <3>1, <3>4, <3>5, Zenon DEF TiledAt
  <2>9. \A d \in Chunk : d # c => \A y \in Area(d) : y \in Busy' <=> y \in Busy
    BY <1>1, <2>4, <2>5, AreasApart DEF MicroInv
  <2>10. \A d \in Chunk : TiledAt(d)'
    BY <1>1, <1>6, <2>2, <2>8, <2>9, OthersTiled
  <2>11. Types'
    <3>1. held' \in SUBSET Nat
      BY <2>2, <2>3 DEF MicroInv, Types
    <3> QED
      BY <1>1, <1>3, <1>6, <2>2, <2>7, <3>1 DEF MicroInv, Types
  <2>12. Spaces' /\ TableExact' /\ FreedWhereItBelongs'
    BY <1>1, <1>3, <2>2 DEF MicroInv, Spaces, TableExact, FreedWhereItBelongs
  <2>13. Known'
    BY <1>1, <2>4, <2>5, <2>6 DEF MicroInv, Known
  <2> QED
    BY <2>5, <2>10, <2>11, <2>12, <2>13 DEF MicroInv
<1>8. CASE mData[c] = NULL
  <2>1. PICK s \in FreeSpots :
           /\ mData' = [mData EXCEPT ![c] = s] /\ held' = held \cup {s}
           /\ mFreeList' = [mFreeList EXCEPT ![c] = Tail(Blocks(s))] /\ addMicroChunk(s, c)
    BY <1>0, <1>8 DEF Malloc
  <2>2. /\ s \in Spot /\ s \in Nat /\ s # NULL /\ s \notin bigBlocks /\ s \notin Busy
        /\ \A d \in Chunk : mData[d] # s /\ s \notin Area(d)
        /\ Busy \cap Span(s) = {}
    BY FreeSpotIs
  <2>3. mMicroChunks' \in Seq(Entry) /\ mLastMicroChunk' \in Nat /\ TableExact'
    BY <1>1, <1>8, <2>1, TableWith
  <2>4. PICK f : f = Tail(Blocks(s))
    OBVIOUS
  <2>5. /\ f \in Seq(Nat) /\ IsInjective(f) /\ s \notin Range(f)
        /\ \A y : y \in Span(s) <=> y = s \/ y \in Range(f)
    <3>1. /\ Blocks(s) \in Seq(Nat) /\ Blocks(s) # <<>> /\ IsInjective(Blocks(s))
          /\ Head(Blocks(s)) = s /\ Range(Blocks(s)) = Span(s)
      BY <2>2, NewBlocks
    <3>2. /\ Tail(Blocks(s)) \in Seq(Nat) /\ IsInjective(Tail(Blocks(s)))
          /\ Head(Blocks(s)) \notin Range(Tail(Blocks(s)))
          /\ \A y : y \in Range(Blocks(s)) <=> y = Head(Blocks(s)) \/ y \in Range(Tail(Blocks(s)))
      BY <3>1, ListTaken
    <3> QED
      BY <2>4, <3>1, <3>2
  <2>6. \A d \in Chunk : /\ mData'[d] = IF d = c THEN s ELSE mData[d]
                         /\ mFreeList'[d] = IF d = c THEN f ELSE mFreeList[d]
    BY <2>1, <2>4 DEF MicroInv, Types
  <2>7. OneUser' /\ \A y : y \in Busy' <=> y \in Busy \/ y = s
    BY <1>1, <2>1, <2>2, Numbers, BusyMore DEF MicroInv
  <2>8. mUsedCount[c] = 0 /\ c # FixedChunk
    <3>1. K = {}
      BY <1>8 DEF K, Area
    <3>2. mUsedCount[c] = 0
      BY <1>4, <3>1, FS_EmptySet
    <3> QED
      BY <1>8, <3>2, Numbers DEF MicroInv, Types
  <2>9. Area(c)' = Span(s)
    BY <1>1, <2>2, <2>6 DEF Area, Span
  <2>10. TiledAt(c)'
    <3>1. Area(c)' \cap Busy' = {s} /\ s \in Span(s)
      <4>1. s \in Span(s)
        BY <2>2, NewBlocks
      <4> QED
        BY <2>2, <2>7, <2>9, <4>1
    <3>2. Range(mFreeList'[c]) = Area(c)' \ Busy' /\ IsInjective(mFreeList'[c])
      BY <1>1, <2>2, <2>5, <2>6, <2>7, <2>9
    <3>3. Cardinality({s}) = 1 /\ mUsedCount'[c] = 1
      BY <1>6, <2>8, FS_Singleton
    <3>4. mUsedCount'[c] = Cardinality(Area(c)' \cap Busy')
      BY <3>1, <3>3
    <3>5. c # FixedChunk => (mData'[c] = NULL <=> mUsedCount'[c] = 0)
      BY <1>1, <1>6, <2>2, <2>6
    <3> QED
      BY <3>2, <3>4, <3>5, Zenon DEF TiledAt
  <2>11. \A d \in Chunk : TiledAt(d)' /\ (d # c => Area(d)' = Area(d))
    <3>1. \A d \in Chunk : d # c => \A y \in Area(d) : y \in Busy' <=> y \in Busy
      BY <2>2, <2>7
    <3>2. mFreeList' = [mFreeList EXCEPT ![c] = f]
      BY <2>1, <2>4
    <3> QED
      BY <1>1, <1>6, <2>1, <2>10, <3>1, <3>2, OthersTiled
  <2>12. Types'
    <3>1. mData' \in [Chunk -> Spot \cup {Base, NULL}] /\ held' \in SUBSET Nat
      BY <2>1, <2>2 DEF MicroInv, Types
    <3>2. mFreeList' \in [Chunk -> Seq(Nat)]
      BY <2>1, <2>4, <2>5 DEF MicroInv, Types
    <3>3. mData'[FixedChunk] = Base /\ \A d \in Chunk : mData'[d] = Base => d = FixedChunk
      BY <2>2, <2>6, <2>8, Numbers DEF MicroInv, Types
    <3> QED
      BY <1>1, <1>3, <1>6, <2>3, <3>1, <3>2, <3>3 DEF MicroInv, Types
  <2>13. Spaces'
    BY <1>1, <1>3, <2>2, <2>6 DEF MicroInv, Spaces
  <2>14. Known'
    <3> SUFFICES ASSUME NEW x \in Busy', x \notin bigBlocks
                 PROVE  \E d \in Chunk : x \in Area(d)'
      BY <1>1 DEF Known
    <3>1. CASE x = s
      BY <1>1, <2>2, <2>9, <3>1, NewBlocks
    <3>2. CASE x # s
      <4>1. PICK d \in Chunk : x \in Area(d)
        BY <2>7, <3>2 DEF MicroInv, Known
      <4>2. d # c
        BY <1>8, <4>1 DEF Area
      <4> QED
        BY <2>11, <4>1, <4>2
    <3> QED
      BY <3>1, <3>2
  <2>15. FreedWhereItBelongs'
    <3> SUFFICES ASSUME NEW u \in Thread, task[u].pc # "idle"
                 PROVE  IF task[u].chunk = NULL THEN task[u].p \in bigBlocks
                        ELSE mData'[task[u].chunk] # NULL
                             /\ Within(task[u].p, mData'[task[u].chunk])
      BY <1>1 DEF FreedWhereItBelongs
    <3>1. task[u].chunk # NULL => /\ task[u].chunk \in Chunk /\ task[u].chunk # c
                                  /\ mData'[task[u].chunk] = mData[task[u].chunk]
      BY <1>8, <2>6, TaskHas
    <3> QED
      BY <3>1 DEF MicroInv, FreedWhereItBelongs
  <2> QED
    BY <2>3, <2>7, <2>11, <2>12, <2>13, <2>14, <2>15 DEF MicroInv
<1> QED
  BY <1>7, <1>8

-----------------------------------------------------------------------------
\* At the start there is the fixed chunk, all its blocks on its list, and no table.
LEMMA MicroInvInit ==
  ASSUME MicroAssumption, Init
  PROVE  MicroInv
<1>0. /\ FixedChunk \in Chunk /\ Base \in Nat /\ Base # NULL /\ FixedChunk[1] = 1
      /\ \A c \in Chunk : c[1] \in Nat
  BY Numbers DEF Chunk, FixedChunk
<1>1. \A c \in Chunk : /\ mData[c] = IF c = FixedChunk THEN Base ELSE NULL
                       /\ mUsedCount[c] = 0
                       /\ mFreeList[c] = IF c = FixedChunk THEN Blocks(Base) ELSE <<>>
  BY DEF Init
<1>2. Blocks(Base) \in Seq(Nat) /\ IsInjective(Blocks(Base)) /\ Range(Blocks(Base)) = Span(Base)
  BY <1>0, NewBlocks
<1>3. Range(<<>>) = {} /\ IsInjective(<<>>) /\ <<>> \in Seq(Nat) /\ <<>> \in Seq(Entry)
  BY DEF Range, IsInjective
<1>4. \A t \in Thread : task[t].pc = "idle" /\ task[t].p = NULL
  BY DEF Init, Idle
<1>5. Busy = {}
  BY <1>4, BusyIs DEF Init
<1>6. Types
  <2>1. task \in [Thread -> Task]
    BY DEF Init, Task, Idle
  <2>2. mData \in [Chunk -> Spot \cup {Base, NULL}] /\ mUsedCount \in [Chunk -> Nat]
    BY DEF Init
  <2>3. mFreeList \in [Chunk -> Seq(Nat)]
    BY <1>2, <1>3 DEF Init
  <2>4. chunkChunks \in 1 .. MaxChunkChunks /\ mCurrent \in Chunk
    BY <1>0, Numbers DEF Init
  <2>5. mData[FixedChunk] = Base /\ \A c \in Chunk : mData[c] = Base => c = FixedChunk
    BY <1>0, <1>1
  <2> QED
    BY <1>3, <2>1, <2>2, <2>3, <2>4, <2>5 DEF Types, Init
<1>7. Spaces
  <2>1. \A c \in Chunk : c[1] > chunkChunks => c # FixedChunk
    BY <1>0 DEF Init
  <2> QED
    BY <1>0, <1>1, <2>1 DEF Spaces, Init
<1>8. OneUser /\ FreedWhereItBelongs
  BY <1>4, Numbers DEF OneUser, FreedWhereItBelongs, Init
<1>9. Known
  BY <1>5 DEF Known
<1>10. ASSUME NEW c \in Chunk
       PROVE  TiledAt(c)
  <2>1. Range(mFreeList[c]) = Area(c) \ Busy /\ IsInjective(mFreeList[c])
    BY <1>0, <1>1, <1>2, <1>3, <1>5 DEF Area
  <2>2. Area(c) \cap Busy = {} /\ Cardinality({}) = 0
    BY <1>5, FS_EmptySet
  <2>3. mUsedCount[c] = Cardinality(Area(c) \cap Busy)
    BY <1>1, <2>2
  <2>4. c # FixedChunk => (mData[c] = NULL <=> mUsedCount[c] = 0)
    BY <1>1
  <2> QED
    BY <2>1, <2>3, <2>4, Zenon DEF TiledAt
<1>11. TableExact
  <2>1. Range(mMicroChunks) = {} /\ DOMAIN mMicroChunks = {} /\ Len(mMicroChunks) = 0
    BY <1>3 DEF Init
  <2>2. {d \in Chunk \ {FixedChunk} : mData[d] # NULL} = {}
    BY <1>1
  <2> QED
    BY <2>1, <2>2 DEF TableExact, Init
<1> QED
  BY <1>6, <1>7, <1>8, <1>9, <1>10, <1>11 DEF MicroInv

\* Every step keeps the invariant.
LEMMA MicroInvNext ==
  ASSUME MicroAssumption, MicroInv, [Next]_vars
  PROVE  MicroInv'
<1>1. CASE UNCHANGED vars
  BY <1>1, MicroStutter
<1>2. CASE Next
  <2>1. PICK t \in Thread : \/ Malloc(t) \/ MallocBig(t) \/ Find(t) \/ Free(t) \/ FreeBig(t)
                            \/ ReallocStays(t) \/ ReallocMoves(t)
    BY <1>2 DEF Next
  <2>2. CASE Malloc(t)
    BY <2>2, MallocKeeps
  <2>3. CASE MallocBig(t)
    BY <2>3, MallocBigKeeps
  <2>4. CASE Find(t)
    BY <2>4, FindKeeps
  <2>5. CASE Free(t)
    BY <2>5, FreeKeeps
  <2>6. CASE FreeBig(t)
    BY <2>6, FreeBigKeeps
  <2>7. CASE ReallocStays(t)
    BY <2>7, ReallocStaysKeeps
  <2>8. CASE ReallocMoves(t)
    BY <2>8, ReallocMovesKeeps
  <2> QED
    BY <2>1, <2>2, <2>3, <2>4, <2>5, <2>6, <2>7, <2>8
<1> QED
  BY <1>1, <1>2

\* The inductive invariant.
LEMMA MicroInvAlways ==
  ASSUME MicroAssumption
  PROVE  Spec => []MicroInv
<1>1. Init => MicroInv
  BY MicroInvInit
<1>2. MicroInv /\ [Next]_vars => MicroInv'
  BY MicroInvNext
<1> QED
  BY <1>1, <1>2, PTL DEF Spec

\* heap_free() and heap_realloc(): the chunk that isMicroAlloc() found is in memory and
\* holds the block when free() uses it in its second call, and what it found no chunk for
\* is a block of the C library, although other threads have changed the table in between.
THEOREM FreedWhereItBelongsTheorem ==
  ASSUME MicroAssumption
  PROVE  Spec => []FreedWhereItBelongs
<1>1. MicroInv => FreedWhereItBelongs
  BY DEF MicroInv
<1> QED
  BY <1>1, MicroInvAlways, PTL

\* MemoryChunk: every block is in use or on the list of its chunk, once; mUsedCount is
\* exact, and a chunk of the heap's memory has memory as long as it has a block in use.
THEOREM TiledTheorem ==
  ASSUME MicroAssumption
  PROVE  Spec => []Tiled
<1>1. MicroInv => Tiled
  BY TiledByChunk DEF MicroInv
<1> QED
  BY <1>1, MicroInvAlways, PTL

\* addMicroChunk() and removeMicroChunk(): the table by which addresses are looked up has
\* the chunks in memory of the heap and no others, in the order of their addresses, and
\* the place of the last hit is in it.
THEOREM TableExactTheorem ==
  ASSUME MicroAssumption
  PROVE  Spec => []TableExact
<1>1. MicroInv => TableExact
  BY DEF MicroInv
<1> QED
  BY <1>1, MicroInvAlways, PTL
=============================================================================
