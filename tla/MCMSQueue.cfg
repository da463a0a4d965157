SPECIFICATION FairSpec
CONSTANTS
  Threads = {t1, t2, t3}
  Running = {t1}
  NumNodes = 3
  Values = {a, b}
  NoValue = NoValue
  CountMod = 2
  Reuse = FALSE
INVARIANTS
  TypeOK
  ListIntact
  SafeDelete
PROPERTIES
  LinearizableFifo
  StalledThreadsDoNotBlock
