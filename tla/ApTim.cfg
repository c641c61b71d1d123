SPECIFICATION SleepSpec
CONSTANTS
  Stas = {1, 2}
  Aids = {1, 9}
  Mixed = {}
  AllUapsd = {}
  NFrames = 1
  ForceLen = 1
INVARIANT TimCarriesAid
CHECK_DEADLOCK FALSE
