SPECIFICATION Spec
CONSTANTS
  s1 = s1
  s2 = s2
  s3 = s3
  m1 = m1
  m2 = m2
  NULL = NULL
  Sentinels <- MCSentinels2
  InitialUrls <- MCUrls2
  Masters <- MCMasters
  MaxChanges = 3
PROPERTY
  CheckedPoolOnMaster
CHECK_DEADLOCK FALSE
