SPECIFICATION FairSpec
CONSTANTS
  Ids = {i1, i2}
  Kinds = {id, ram}
  Ttls = {3}
  Capacity = 2
  MaxDistinct = 1
  MaxRecords = 2
  MaxSeen = 2
  Keep = 4
  Backoff = 1
  Interval = 2
  MaxAge = 3
  MaxWait = 2
  MaxWindow = 3
INVARIANTS
  DemandInv
PROPERTIES
  ImplementsContract
  RequestsMakeProgress
CHECK_DEADLOCK FALSE
