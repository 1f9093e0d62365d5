SPECIFICATION Spec
CONSTANTS
  Values = {on, off}
  Readbacks = 1
  MaxTcp = 1
  MaxSets = 1
  MaxCommands = 0
INVARIANT FailedReadbackDisablesOnlySwitching
CHECK_DEADLOCK FALSE
