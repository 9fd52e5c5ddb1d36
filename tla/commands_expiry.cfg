SPECIFICATION Spec
CONSTANTS
  k1 = k1
  k2 = k2
  v1 = v1
  v2 = v2
  NULL = NULL
  IntBits = 3
  Keys <- MCKeys
  Values <- MCValues
  Answers <- MCAnswers
  Tokens <- MCTokens
  Urls <- MCUrls
  Redis <- MCRedis
  Numerals <- MCNumerals
  MaxArgs = 2
INVARIANT
  ExpiryUnitKept
CHECK_DEADLOCK FALSE
