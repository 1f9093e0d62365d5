SPECIFICATION Spec
CONSTANTS
  w1 = w1
  w2 = w2
  Writers = {w1, w2}
  Dispatcher = dispatcher
  NoOne = noone
  MaxFaults = 1
SYMMETRY WriterSymmetry
INVARIANTS
  CrashLeavesP300Blocked
