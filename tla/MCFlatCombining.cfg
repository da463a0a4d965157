SPECIFICATION FairSpec
CONSTANTS
  NumThreads = 3
  Values = {a}
  NoValue = NoValue
  MaxItems = 2
INVARIANTS
  TypeOK
  SlotOwnership
  BoundedBypass
PROPERTIES
  LinearizableFifo
  CallsReturn
