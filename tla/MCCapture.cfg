CONSTANTS
  SysNum = 1
  MaxVis = 2
  Encoders = 2
  Layers = 2
  MaxStarts = 3
  MaxRefusals = 2
SPECIFICATION Spec
INVARIANTS
  ChainStands
  StartsClean
  ExitStopsAll
  PumpEndsForCause
  SetUpForOnePicture
  EncodersSetUp
CHECK_DEADLOCK FALSE
