SPECIFICATION FairSpec
CONSTANTS
  Datapoints = {"mo", "di"}
  Values = {0, 1, 2, 3}
  MaxFaults = 2
  Present = {1, 2}
  MaxCommands = 1
  Grid = {0, 360, 1140, 1430, 1440}
PROPERTY MismatchIsRestored
CHECK_DEADLOCK FALSE
