SPECIFICATION FairSpec
CONSTANTS
  NR_RECVBUFF = 1
  NR_RECVFRAME = 2
  MAX_CONTINUAL_URB_ERR = 1
  MaxFrag = 1
  MaxPkts = 1
  MaxRxq = 2
INVARIANTS FramesAccounted TaskletAwake BusFed
PROPERTIES PendingLeaves
CHECK_DEADLOCK FALSE
