-------------------------- MODULE MCLtAllocClasses --------------------------
(* A large class with batches of two blocks and odd blocks left in each chunk, *)
(* when the system may refuse memory; and a small class with three arrays of   *)
(* one batch, which run over into one another.                                 *)
EXTENDS LtAllocClasses, TLC
CONSTANTS t1, t2
ThreadSymmetry == Permutations(Thread)
=============================================================================
