-------------------------- MODULE MCFAAArrayQueue --------------------------
(* Three threads and segments of two cells: dequeuers overtake enqueuers   *)
(* inside a segment, and a new segment is needed while another thread still*)
(* swings tail and a third retires.  Threads are numbers, since retire     *)
(* visits them in order: no symmetry.                                      *)
EXTENDS FAAArrayQueue
=============================================================================
