SPECIFICATION Spec
CONSTANTS
  l1 = l1
  l2 = l2
  l3 = l3
  NULL = NULL
  Links = {l1, l2}
  MaxStops = 1
  MaxStarts = 2
  MaxSends = 2
  MaxDisconnects = 1
  MaxOverlaps = 1
INVARIANT
  CleanDisconnect
CHECK_DEADLOCK FALSE
