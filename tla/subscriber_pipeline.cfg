SPECIFICATION Spec
CONSTANTS
  l1 = l1
  a = a
  b = b
  p = p
  NULL = NULL
  Links <- MCLinks
  Channels <- MCChannels1
  Patterns <- MCPatterns
  MaxStops = 0
  MaxCommands = 3
  MaxMessages = 0
INVARIANTS
  ContextSubscribed
CHECK_DEADLOCK FALSE
