SPECIFICATION FairSpec
CONSTANTS
  Datapoints = {"0x5721", "0x5724", "0x7570"}
  Values = {0, 1, 2}
  MaxFaults = 1
  Ids = {"a", "b"}
  Jobs <- MCJobs
  Staged = {1}
  CacheSize = 1
  QueueSize = 1
  MaxRequests = 2
  MaxCalls = 1
INVARIANTS
  MaintenanceInv
  OutcomeIsTrue
PROPERTIES
  RequestsAreServed
CHECK_DEADLOCK FALSE
