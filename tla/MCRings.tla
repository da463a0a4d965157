------------------------------ MODULE MCRings ------------------------------
(* Both kinds of segment, with rings of two cells and three kinds of       *)
(* client.  Three threads, some of which enqueue while the others dequeue: *)
(* enqueuers overtake each other, dequeuers pass them by.  Two threads that*)
(* do both for longer: the ring fills up and closes, and the tickets come  *)
(* round to the same cell.  And two enqueuers, one of which also dequeues, *)
(* with elements to spare: each draws tickets of a full ring while the     *)
(* other is about to close it, until one closes it by force.  The threads  *)
(* are interchangeable; items are numbered as they come.                   *)
EXTENDS PRQueue, CRQueue, TLC

MCClients ==
  {c \in [kind : Kinds, enqueuers : SUBSET Threads \ {{}},
          dequeuers : SUBSET Threads \ {{}},
          items : {2, 3, 4}, tickets : {3, 5, 7}] :
     \/ /\ c.enqueuers = Threads \ c.dequeuers
        /\ c.items = 2 /\ c.tickets = 3
     \/ /\ c.enqueuers = c.dequeuers /\ Cardinality(c.enqueuers) = 2
        /\ c.items = 3 /\ c.tickets = 5
     \/ /\ Cardinality(c.enqueuers) = 2 /\ Cardinality(c.dequeuers) = 1
        /\ c.dequeuers \subseteq c.enqueuers
        /\ c.items = 4 /\ c.tickets = 7}

Next == PNext \/ CNext

Spec == Init /\ [][Next]_vars

Symmetry == Permutations(Threads)
=============================================================================
