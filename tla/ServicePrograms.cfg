SPECIFICATION FairSpec
CONSTANTS
  Datapoints = {"0x572F"}
  Values = {0, 1, 2}
  MaxFaults = 2
  QueueSize = 1
  MaxCommands = 2
  MaxMoves = 1
INVARIANTS
  ServiceInv
PROPERTIES
  OffEndsOnlyItsOwn
  SwitchesConverge
