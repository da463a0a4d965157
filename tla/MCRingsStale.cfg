SPECIFICATION PSpec
CONSTANTS
  Threads = {t1, t2, t3}
  RingSize = 2
  Starts = {0}
  Patience = 1
  MaxItems = 4
  MaxTicket = 7
  Clients <- MCClients
  Snapshot = FALSE
SYMMETRY Symmetry
CHECK_DEADLOCK FALSE
INVARIANT Linearizable
