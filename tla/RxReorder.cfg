SPECIFICATION FairSpec
CONSTANTS
  Seqs <- EdgeSeqs
  NR_RECVFRAME = 3
  ApMode = TRUE
  Relayed = {1}
INVARIANTS
  TypeOK
  WindowSorted
  TimerCoversPending
PROPERTIES
  DeliversInOrder
  EveryFrameLeaves
CHECK_DEADLOCK FALSE
