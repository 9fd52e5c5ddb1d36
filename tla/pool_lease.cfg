SPECIFICATION FairSpec
CONSTANTS
  t1 = t1
  t2 = t2
  t3 = t3
  c1 = c1
  c2 = c2
  c3 = c3
  c4 = c4
  NULL = NULL
  Threads <- MCThreads2
  Conns <- MCConns4
  InitSize = 1
  MaxSize = 3
  MaxCalls = 4
  MaxSelectErrors = 1
  Faults <- MCAllFaults
PROPERTIES
  EveryCallReturns
  LeaseSpec
  RefusedOnlyAfterFailure
CHECK_DEADLOCK FALSE
