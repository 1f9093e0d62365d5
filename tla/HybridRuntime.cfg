SPECIFICATION FairSpec
CONSTANTS
  Values = {on, off}
  Readbacks = 2
  MaxTcp = 1
  MaxSets = 1
  MaxCommands = 1
INVARIANTS
  WindowQuiet
  WindowNeedsReadback
  LedgerInv
PROPERTIES
  FencesLift
CHECK_DEADLOCK FALSE
