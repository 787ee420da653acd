--------------------------- MODULE MCThreadAlloc ----------------------------
(* Small instances of ThreadAlloc: the .cfg files choose the platform.      *)
EXTENDS ThreadAlloc, TLC
CONSTANTS t1, t2, d1, d2, d3, p1, p2, g1, g2

\* The addresses of pages and of directories are interchangeable; the main
\* thread is not like the others, and t2 is the only other one.
Symmetry == Permutations(Page) \cup Permutations(Dir) \cup Permutations(Big)
=============================================================================
