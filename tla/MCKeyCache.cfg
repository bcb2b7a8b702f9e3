CONSTANTS
  Threads = {t1, t2}
  Locations <- MCLocations
  MaxTime = 4
  KEY_SEGS = 2
  NAME_MAX = 8
  Names <- MCNames
  NameInfo <- MCNameInfo
  Mib <- MCMib
  Status <- MCStatus
  EINVAL = 22
  MaxCalls = 2
  Suspended = {t2}
SPECIFICATION FairSpec
INVARIANT NoPartialKey
PROPERTIES
  ImplementsKeyService
  CallsReturn
CHECK_DEADLOCK FALSE
