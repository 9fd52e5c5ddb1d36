SPECIFICATION FairSpec
CONSTANTS
  l1 = l1
  l2 = l2
  l3 = l3
  NULL = NULL
  Links = {l1, l2, l3}
  MaxStops = 2
  MaxStarts = 2
  MaxSends = 2
  MaxDisconnects = 1
  MaxOverlaps = 1
INVARIANTS
  TypeOK
  StatusTruthful
  AbortsOnPendingOnly
  QuietAfterStop
  OverlapsPaid
PROPERTIES
  CallbacksRun
  Recovers
CHECK_DEADLOCK FALSE
