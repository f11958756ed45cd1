CONSTANTS
  Size = 16
  Streams <- MCStreams
  Images <- MCImages
SPECIFICATION Spec
INVARIANTS HeadersFound PayloadKept
PROPERTY StartsReadable
