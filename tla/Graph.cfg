\* Five commands, two changes by hand and a broken update.
SPECIFICATION Spec
CONSTANTS
  Records = {d0, d1}
  MaxCommands = 5
  MaxMeddles = 2
  MaxBreaks = 1
INVARIANTS GraphInv RefusesOnlyTheDisturbed 
CHECK_DEADLOCK FALSE
