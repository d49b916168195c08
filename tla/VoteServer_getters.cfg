\* Three connections, one key that exists and one that does not.
CONSTANTS
  t1 = t1  t2 = t2  t3 = t3
  Threads = {t1, t2, t3}
  k1 = k1  k2 = k2
  Keys = {k1, k2}
  InitKey = k1
  v1 = v1
  Vals = {v1}
  InitVal = v1
  Vnos = {2}
  MaxKeys = 4
  Lier = FALSE
  NoKey = NoKey
  NoVal = NoVal
SPECIFICATION Spec
SYMMETRY Symmetry
INVARIANT GettersNonNegative
CHECK_DEADLOCK FALSE
