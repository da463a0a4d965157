SPECIFICATION Spec
CONSTANTS
  Threads = {t1, t2}
  Kinds = {"ms", "fc", "faa", "rq"}
  MaxItems = 3
  MaxDequeues = 3
SYMMETRY Symmetry
CHECK_DEADLOCK FALSE
INVARIANTS
  TypeOK
  FifoInRecords
  OwnCallsInOrder
  CombinerTimesLinearize
  LoggedTimesAreLive
