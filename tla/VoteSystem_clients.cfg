\* Four servers with their smallest sound quorums, three clients.
CONSTANTS
  NumClients = 3
  N = 4  Nr = 2  Nw = 3
  InitVal = 0  MaxRunning = 2
SPECIFICATION Spec
INVARIANTS TypeOK  
 
CHECK_DEADLOCK FALSE
