SPECIFICATION RecordedSpec
CONSTANTS
  MaxResponseBodySize = 3
  DefaultMaxResponseBodySize = 2
  Byte <- Bytes2
  Writes <- Chunks
  StatusCode = {200, 404}
  Inspect = TRUE
  MaxBody = 6
INVARIANTS
  BufferBounded
  HeldBodyIsWhole
PROPERTIES
  ImplementsPipe
CHECK_DEADLOCK FALSE
