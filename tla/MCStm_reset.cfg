CONSTANTS
  Streams <- FirstStream
  NextStreams <- NextStream
  ChunkSizes <- Chunks
  MaxResets = 1
  MaxFaults = 2
SPECIFICATION Spec
INVARIANTS ResetIsFresh
CHECK_DEADLOCK FALSE
