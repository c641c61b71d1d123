CONSTANTS
  Peers = {p1, p2}
  NoPeer = NoPeer
  NUM_STA = 2
  MaxNumSta = {1, 2}
  PoolSize = 2
  Leaving = {p1}
  NonErp = {p2}
  MaxExcess = 0
SPECIFICATION FairSpec
CONSTRAINTS
  NotRaced
  Drift
INVARIANTS
  NoOrphanSta
  AidsUnique
  PoolExact
  ProtectionKept
PROPERTIES
  SilentLeaves
CHECK_DEADLOCK FALSE
