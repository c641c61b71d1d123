SPECIFICATION SleepFairSpec
CONSTANTS
  Stas = {1, 2}
  Aids = {1}
  Mixed = {2}
  AllUapsd = {1}
  NFrames = 2
  ForceLen = 1
INVARIANTS DozeConsistent HeldAdvertised PlainListed
PROPERTIES BmcDelivered
CONSTRAINTS NotTorn OneUnlocked MixedStay
CHECK_DEADLOCK FALSE
