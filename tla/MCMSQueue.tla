----------------------------- MODULE MCMSQueue -----------------------------
(* Three threads: one stalls with what it has read while two others move   *)
(* the list on, or goes on while the two others have stopped for good.     *)
EXTENDS MSQueue
=============================================================================
