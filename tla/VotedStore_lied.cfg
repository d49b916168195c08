\* Three honest servers, quorums that main() accepts.
CONSTANTS
  N = 3  Nr = 2  Nw = 2
  Liars = {}
  val1 = val1  val2 = val2
  Vals = {val1, val2}
  NoVal = NoVal
  MaxVno = 5
SPECIFICATION Spec
INVARIANT AccusationsJust
