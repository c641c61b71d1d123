SPECIFICATION FairSpec
CONSTANTS
  Callers <- MCCallers
  Kinds <- AllKinds
  MaxSema = 2
INVARIANTS
  NoLostWakeup
  OneOwner
  Handshake
PROPERTIES
  Served
  StopReturns
CHECK_DEADLOCK FALSE
