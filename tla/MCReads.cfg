SPECIFICATION FairSpec
CONSTANTS
  Profiles <- MCProfiles
  Groups = {"fast", "mid", "slow"}
  Period <- MCPeriod
  Wrap = 6
  MaxCommands = 3
  QueueCapacity = 2
  MaxSameMode = 1
  Ttl = 1
  Threads = {"owner", "other"}
  MaxTickets = 4
  EnterTime = 2
  ReturnTime = 2
  MaxAbsence = 7
  MaxAge = 8
  MaxWait = 9
  JobLists <- MCJobLists
  Ages <- MCAges
  MaxManagers = 2
  MaxLegacy = 2
INVARIANTS
  PollInv
  QueueInv
  PlanInv
  OrderInv
  BridgeInv
PROPERTIES
  CyclesAreWhole
  ReadsEnd
CHECK_DEADLOCK FALSE
