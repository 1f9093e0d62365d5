SPECIFICATION Spec
CONSTANTS
  Temps = {t1, t2, t3}
  Modes = {auto, four}
  Four = four
  MaxFaults = 1
  MaxChanges = 1
  MaxCommands = 1
INVARIANT RestartCanAlwaysLeave
