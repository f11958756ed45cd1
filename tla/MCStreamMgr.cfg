CONSTANTS
  N = 2
  Encode <- MCMixed
  Encoders <- MCBoth
  Size = 4
  KeySize = 2
  DeltaSize = 1
SPECIFICATION FairSpec
INVARIANTS OnlyDisableRaces ConfiguredIsServed DeltaNeverWaits
PROPERTIES PumpReturns
CHECK_DEADLOCK FALSE
