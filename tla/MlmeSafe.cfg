SPECIFICATION Spec
CONSTANTS
  MaxRoam = 2
  MaxCmds = 2
INVARIANTS BusyGuarded LinkedNotRoaming
CHECK_DEADLOCK FALSE
