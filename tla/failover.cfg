SPECIFICATION FairSpec
CONSTANTS
  t1 = t1
  t2 = t2
  m1 = m1
  m2 = m2
  NULL = NULL
  Threads <- MCThreads
  Masters <- MCMasters
  InitSize = 1
  MaxSize = 2
  MaxPools = 3
  MaxCalls = 4
INVARIANTS
  TypeOK
  DangerEndsWithConnect
  OvershootCounted
PROPERTIES
  CallsEnd
  ServiceSpec
CHECK_DEADLOCK FALSE
