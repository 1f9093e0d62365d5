SPECIFICATION CoordinatorFairSpec
INVARIANTS
  VerifiedIsTrue
  CleanExitInVs1
  CoordinatorInv
PROPERTIES
  SessionsReturn
