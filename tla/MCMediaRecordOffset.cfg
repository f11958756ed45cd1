CONSTANTS
  Size = 16
  Streams <- MCOffset
  Images <- MCImages
SPECIFICATION Spec
INVARIANT PayloadKept
