CONSTANTS
  N = 2
  Vpss = {0}
  Size = 2
  Sizes = {1, 3}
SPECIFICATION FairSpec
INVARIANTS FrameMisuseNeedsRace FrameConfigured
PROPERTIES ThreadReturns
CHECK_DEADLOCK FALSE
