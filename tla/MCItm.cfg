CONSTANTS
  Streams <- AllStreams
  NextStreams <- ShortStreams
  ChunkSizes = {1, 3, 8}
  Inline = 8
  Prescale = 4
  MaxResets = 1
SPECIFICATION FairSpec
INVARIANTS TypeOK ElementsOfStream BytesAccounted IndexedAtStart InStep
PROPERTY WriteReturns
CHECK_DEADLOCK FALSE
