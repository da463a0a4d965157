------------------------- MODULE MCLinkedRingQueue -------------------------
(* Three threads, so that one can link or delete a segment while another   *)
(* is about to swing tail and a third moves head.  Segments close whenever *)
(* they like, so each enqueue may need a segment of its own.               *)
EXTENDS LinkedRingQueue
=============================================================================
