---------------------------- MODULE MCMichaelHeap ----------------------------
(* Instances of MichaelHeap; threads and descriptors are told apart only by   *)
(* equality.                                                                  *)
EXTENDS MichaelHeap
CONSTANTS t1, t2, d1, d2
Symmetry == Permutations(Thread) \cup Permutations(Desc)
=============================================================================
