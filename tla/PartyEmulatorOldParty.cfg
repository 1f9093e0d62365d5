SPECIFICATION Spec
CONSTANTS
  Temps = {t1, t2, t3}
  Modes = {auto, four}
  Four = four
  MaxFaults = 1
  MaxChanges = 2
  MaxCommands = 1
INVARIANT PartyValueIsNoUserChange
