SPECIFICATION FairSpec
CONSTANTS
  FrameSize = 8
  Sinks = {1, 2}
  Options <- AllOptions
  Layouts <- AllLayouts
  Traces <- AllTraces
  ChunkSizes <- AllChunks
INVARIANTS TypeOK DeliveredInOrder DeliveredInFull HeldBack PendingBounded IndexGrows NoSpuriousError
PROPERTIES ResumesAtStop WriteReturns
