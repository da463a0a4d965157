SPECIFICATION Spec
CONSTANTS
  Threads = {t1, t2, t3}
  Running = {t1, t2, t3}
  NumNodes = 3
  Values = {a}
  NoValue = NoValue
  CountMod = 8
  Reuse = TRUE
PROPERTIES
  LinkIsLinearizationPoint
