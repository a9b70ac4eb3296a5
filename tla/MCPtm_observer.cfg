CONSTANTS
  Sessions <- ZeroSessions
  NextStreams <- NextStream
  ChunkSizes <- Chunks
  Memory <- Mapped
  Program <- Code
  RetStackCap = 2
  Inline = 24
  MaxResets = 1
SPECIFICATION Spec
INVARIANTS ObserverOffPath
CHECK_DEADLOCK FALSE
