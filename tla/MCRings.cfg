SPECIFICATION Spec
CONSTANTS
  Threads = {t1, t2, t3}
  RingSize = 2
  Starts = {0}
  Patience = 1
  MaxItems = 4
  MaxTicket = 7
  Clients <- MCClients
  Snapshot = TRUE
SYMMETRY Symmetry
CHECK_DEADLOCK FALSE
INVARIANTS
  TypeOK
  ClaimHasOwner
  FirstEnqueueFits
  Linearizable
PROPERTIES
  Monotone
