SPECIFICATION FairSpec
CONSTANTS
  Temps = {t1, t2}
  Modes = {auto, four}
  Four = four
  MaxFaults = 2
  MaxChanges = 1
  MaxCommands = 2
INVARIANTS
  PartyInv
  RestoreTargetIsUsers
PROPERTIES
  PartyEnds
