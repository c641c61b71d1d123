SPECIFICATION MCSpec
CONSTANTS
  Senders = {s1, s2}
  Ackers = {a1, a2}
  Bufs = {b1, b2}
  NONE = NONE
  MaxFrames = 3
INVARIANTS NoDanglingSctx ExtBufsConserved WriteTruthful AckTruthful
CHECK_DEADLOCK FALSE
