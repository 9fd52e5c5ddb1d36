SPECIFICATION FairSpec
CONSTANTS
  s1 = s1
  s2 = s2
  s3 = s3
  m1 = m1
  m2 = m2
  NULL = NULL
  Sentinels <- MCSentinels3
  InitialUrls <- MCUrls3
  Masters <- MCMasters
  MaxChanges = 4
PROPERTIES
  FollowsFailover
  ChecksEnd
INVARIANTS
  TypeOK
  UrlsKept
  AsksInOrder
  ReplierFirst
CHECK_DEADLOCK FALSE
