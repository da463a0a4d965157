SPECIFICATION MetricsSpec
CONSTANTS
  Workers = {w1, w2}
  Warmup = 1
  Logs <- MCLogs
CHECK_DEADLOCK FALSE
INVARIANTS
  TreeHoldsLaterElements
  MetricsCorrect
