\* Three servers and three versions: a majority, ties, and three ways split.
CONSTANTS
  Commands = {"GET", "PUT"}
  N = 3  Nr = 2  Nw = 2
  Vnos = {0, 1, 2}
  val1 = val1
  Vals = {val1}
  NoVal = NoVal
SPECIFICATION FairSpec
INVARIANTS TypeOK PutProtocol SelectsAsVoted
PROPERTY ClientEnds
CHECK_DEADLOCK FALSE
