CONSTANTS
  Streams <- AllStreams
  NextStreams <- NextStream
  ChunkSizes <- Chunks
  MaxResets = 1
  MaxFaults = 2
SPECIFICATION Spec
INVARIANTS TypeOK ElementsOfStream ResyncedBehindFault ShownAsRead
CHECK_DEADLOCK FALSE
