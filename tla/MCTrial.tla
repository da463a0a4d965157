------------------------------ MODULE MCTrial ------------------------------
(* All workloads with one to four threads.                                 *)
EXTENDS Trial
=============================================================================
