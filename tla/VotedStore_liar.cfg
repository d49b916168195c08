\* The servers and write quorum of putScript.sh, the smallest sound read
\* quorum; one server lies.
CONSTANTS
  N = 6  Nr = 4  Nw = 5
  Liars = {0}
  val1 = val1  val2 = val2
  Vals = {val1, val2}
  NoVal = NoVal
  MaxVno = 4
SPECIFICATION Spec
INVARIANTS TypeOK LatestIsReplicated AccusationsJust
PROPERTY ActsAsRegister
