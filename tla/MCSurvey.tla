------------------------------ MODULE MCSurvey ------------------------------
(* Requests around every multiple of 8 up to 300 bytes for threadalloc; for   *)
(* ltalloc the smallest ones, those around the bounds of some classes up to  *)
(* the largest (57344), and blocks of the system, around and above its unit  *)
(* of 65536 bytes.  Four addresses whose keys branch at three bits for the   *)
(* radix tree, and three nodes.  For the pools, a few pages of two or three  *)
(* blocks, with tlsf's lists coarser than its default; threads and pages are *)
(* told apart only by equality.                                              *)
EXTENDS Survey, TLC
CONSTANTS t1, t2, p1, p2, p3, m1, m2
Bounds == {40, 128, 224, 1536, 16384, 57344}
MCRequest ==
    {0, 1, 8, 15, 16, 17, 24, 31, 32, 33, 48, 80, 112}
       \cup {s + d : s \in Bounds, d \in {-1, 0, 1}} \cup {65536, 65537, 196601}
MCAlignment == {1, 8, 64, 1024, 65536}
MCSmallRequest == {n \in 0 .. 300 : n % 8 \in {0, 1, 7}}
MCAddress == {256, 512, 768, 1536}
MCSizesAt == [a \in MCAddress |-> IF a = 1536 THEN {1, 2} ELSE {a \div 256}]
MCNodePage == <<-1, -2, -3>>
MCObjects == [b \in Bin |-> 2 * b - 1]
MCWinnieBlocks == [s \in WinnieSize |-> 3 - s]
Symmetry == Permutations(Thread) \cup Permutations(Page)
=============================================================================
