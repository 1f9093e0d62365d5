SPECIFICATION SessionFairSpec
CONSTANTS
  Writers <- MCWriters
  MaxSessions = 2
  MaxMishaps = 5
INVARIANTS
  CanaryInv
  RecoveryIsRight
PROPERTIES
  SessionsAreWhole
CHECK_DEADLOCK FALSE
