CONSTANTS
  Sessions <- AllSessions
  NextStreams <- NextStream
  ChunkSizes <- Chunks
  Memory <- Mapped
  Program <- Code
  RetStackCap = 2
  Inline = 24
  MaxResets = 1
SPECIFICATION Spec
INVARIANTS TypeOK PacketsOfStream FollowsProgram ResyncedBehindBad
CHECK_DEADLOCK FALSE
