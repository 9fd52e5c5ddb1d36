SPECIFICATION Spec
CONSTANTS
  t1 = t1
  t2 = t2
  t3 = t3
  c1 = c1
  c2 = c2
  c3 = c3
  c4 = c4
  NULL = NULL
  Threads <- MCThreads2
  Conns <- MCConns2
  InitSize = 1
  MaxSize = 1
  MaxCalls = 4
  MaxSelectErrors = 0
  Faults = {}
PROPERTY
  RefusedOnlyWithoutIdle
CHECK_DEADLOCK FALSE
