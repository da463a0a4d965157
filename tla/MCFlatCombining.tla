-------------------------- MODULE MCFlatCombining --------------------------
(* Three threads, so that a combiner finds slots before and after its own. *)
(* One item is enough for what TLC is to show here: that the queue keeps   *)
(* the order of different items is proved in FlatCombiningProofs.          *)
EXTENDS FlatCombining
=============================================================================
