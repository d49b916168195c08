\* Two connections, one key that exists and two that do not, a lying server.
CONSTANTS
  t1 = t1  t2 = t2
  Threads = {t1, t2}
  k1 = k1  k2 = k2  k3 = k3
  Keys = {k1, k2, k3}
  InitKey = k1
  val1 = val1  val2 = val2
  Vals = {val1, val2}
  InitVal = val1
  Vnos = {1, 2}
  MaxKeys = 3
  Lier = TRUE
  NoKey = NoKey
  NoVal = NoVal
SPECIFICATION FairSpec
INVARIANTS TypeOK NewEntriesPrivate  
PROPERTIES   ConnectionsEnd
CHECK_DEADLOCK FALSE
