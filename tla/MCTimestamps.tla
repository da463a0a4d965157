---------------------------- MODULE MCTimestamps ----------------------------
(* Threads that both enqueue and dequeue; they are not told apart.         *)
EXTENDS Timestamps, TLC

Symmetry == Permutations(Threads)
=============================================================================
