SPECIFICATION Spec
CONSTANTS
  Threads = {t1, t2, t3}
  Kinds = {"faa"}
  MaxItems = 2
  MaxDequeues = 2
CHECK_DEADLOCK FALSE
INVARIANTS
  ZeroInSkipped
