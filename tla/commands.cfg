SPECIFICATION Spec
CONSTANTS
  k1 = k1
  k2 = k2
  v1 = v1
  v2 = v2
  NULL = NULL
  IntBits = 3
  Keys <- MCKeys
  Values <- MCValues
  Answers <- MCAnswers
  Tokens <- MCTokens
  Urls <- MCUrls
  Redis <- MCRedis
  Numerals <- MCNumerals
  MaxArgs = 4
INVARIANTS
  TypeOK
  AcceptedByRedis
  DecoderFits
  ErrorsSurface
  MapsByPosition
  ConnectsWhereUrlSays
CHECK_DEADLOCK FALSE
