SPECIFICATION ThreadsSpec
CONSTANTS
  th1 = th1
  th2 = th2
  th3 = th3
  Threads = {th1, th2, th3}
  Locking = TRUE
  CloseFails = TRUE
  MaxCalls = 2
INVARIANTS NoTornUse CloseReleases
PROPERTY CallsReturn
CHECK_DEADLOCK FALSE
