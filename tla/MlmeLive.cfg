SPECIFICATION FairSpec
CONSTANTS
  MaxRoam = 1
  MaxCmds = 1
PROPERTIES BusyEnds
CHECK_DEADLOCK FALSE
