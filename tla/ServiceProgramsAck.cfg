SPECIFICATION Spec
CONSTANTS
  Datapoints = {"0x572F"}
  Values = {0, 1, 2}
  MaxFaults = 1
  QueueSize = 1
  MaxCommands = 1
  MaxMoves = 0
PROPERTIES
  ReadbackIsARead
