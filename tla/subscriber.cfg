SPECIFICATION FairSpec
CONSTANTS
  l1 = l1
  a = a
  b = b
  p = p
  NULL = NULL
  Links <- MCLinks
  Channels <- MCChannels2
  Patterns <- MCPatterns
  MaxStops = 2
  MaxCommands = 4
  MaxMessages = 1
INVARIANTS
  TypeOK
  InStep
  IntentKept
  NothingMissed
  AbortsOnPipeliningOnly
PROPERTIES
  Restored
CHECK_DEADLOCK FALSE
