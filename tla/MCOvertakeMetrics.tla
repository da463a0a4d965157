------------------------- MODULE MCOvertakeMetrics -------------------------
(* Two workers, each with one record from the warm-up and up to two more,  *)
(* over so few timestamps that calls and effects coincide, cross and are   *)
(* missing.  The dequeue timestamps mirror the enqueue timestamps, so that *)
(* the two metrics are computed from different pairs.                      *)
EXTENDS OvertakeMetrics

Times(inv, lin) == [EnqueueInv |-> inv, EnqueueLin |-> lin,
                    DequeueInv |-> lin, DequeueLin |-> inv]

First == Times(1, 2)

Measurable == {Times(inv, lin) : inv, lin \in 0 .. 3}

MCLogs ==
  [Workers -> {<<>>} \cup {<<First, r>> : r \in Measurable}
                     \cup {<<First, r, s>> : r, s \in Measurable}]
=============================================================================
