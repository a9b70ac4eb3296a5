SPECIFICATION Spec
CONSTANTS
  FrameSize = 8
  Sinks = {1, 2}
  Options <- ResetOptions
  Layouts <- CutLayouts
  Traces <- CutTraces
  ChunkSizes <- CutChunks
INVARIANT NoSpuriousError
