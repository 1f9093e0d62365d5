SPECIFICATION FairSpec
CONSTANTS
  w1 = w1
  w2 = w2
  Writers = {w1, w2}
  Dispatcher = dispatcher
  NoOne = noone
  MaxFaults = 2
INVARIANTS
  LeaseInv
  WriterNeedsVs1
  WindowNeedsVerifiedWrites
  LatchHasCause
  P300MarkerHidesNoLatch
PROPERTIES
  ImplementsContract
  BlocksEnd
