CONSTANTS
  Users = {u1, u2}
  None = None
  MaxQueue = 2
SPECIFICATION FairSpec
INVARIANTS
  RfTruthful
  AwakeWorks
PROPERTIES
  WakeReturns
  
CHECK_DEADLOCK FALSE
