SPECIFICATION Spec
CONSTANTS
  t1 = t1
  t2 = t2
  t3 = t3
  c1 = c1
  c2 = c2
  c3 = c3
  c4 = c4
  NULL = NULL
  Threads <- MCThreads3
  Conns <- MCConns3
  InitSize = 1
  MaxSize = 2
  MaxCalls = 6
  MaxSelectErrors = 1
  Faults <- MCAllFaults
SYMMETRY MCSymmetry
INVARIANTS
  TypeOK
  ExclusiveUse
  PoolBound
  Accounting
  AnsweredInDb
  TokenBound
  OnlyThrownSelectsLeak
CHECK_DEADLOCK FALSE
