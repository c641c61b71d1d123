SPECIFICATION FairSpec
CONSTANTS
  NQueues = 2
  NR_XMITFRAME = 2
  NR_XMITBUFF = 2
  LowMark = 1
INVARIANTS PoolsConserved StoppedRestarts
PROPERTIES QueuesDrain
CHECK_DEADLOCK FALSE
