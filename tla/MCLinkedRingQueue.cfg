SPECIFICATION Spec
CONSTANTS
  NumThreads = 3
  Enqueuers = {0, 1}
  Dequeuers = {1, 2}
  NumSegs = 4
  MaxItems = 2
INVARIANTS
  TypeOK
  NoUseAfterFree
  RetiredOnce
  Linearizable
