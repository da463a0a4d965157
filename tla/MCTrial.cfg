SPECIFICATION FairSpec
CONSTANTS
  MaxThreads = 4
  Trials = 2
  OpsChoices = {2, 3}
  PairSetup = 1
  Slack = 2
CHECK_DEADLOCK FALSE
INVARIANTS
  TypeOK
  MeasuredApart
  PairsNeverMiss
  DeficitCovered
  RecordsComplete
PROPERTIES
  BenchmarkEnds
