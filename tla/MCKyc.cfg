SPECIFICATION Spec
CONSTANTS
  Curve <- P256
  SharedLen <- FullAndShort
  PerSecond = 2
  Skews <- NearAndBehind
  Limits <- ThreeLimits
  MaxClock = 11
  MaxRows = 25
INVARIANTS TypeOK OnlyTimelyAreServed ListIsWhole
CHECK_DEADLOCK FALSE
