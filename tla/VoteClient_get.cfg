\* Four servers: enough for two values of an old version before two of a new one.
CONSTANTS
  Commands = {"GET"}
  N = 4  Nr = 2  Nw = 3
  Vnos = {1, 2}
  val1 = val1  val2 = val2
  Vals = {val1, val2}
  NoVal = NoVal
SPECIFICATION Spec
INVARIANTS EveryResponseCounts SelectsAsVoted
CHECK_DEADLOCK FALSE
