SPECIFICATION FairSpec
CONSTANTS
  QueDepth = 2
  MaxEnables = 2
INVARIANTS FaultOnlyWhileStopping StoppedIsQuiet 
PROPERTIES StopEnds
CHECK_DEADLOCK FALSE
