CONSTANTS
  Addresses = {a, b}
SPECIFICATION FairSpec
INVARIANTS SessionsLinked RepliesAddUp MisuseHasCause TroubleHasCause
PROPERTIES SessionsAndStopsEnd
CHECK_DEADLOCK FALSE
