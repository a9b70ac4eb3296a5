CONSTANTS
  Sessions <- AllSessions
  MaxErrors = 1
  MaxResets = 1
SPECIFICATION Spec
INVARIANTS TypeOK PacketsOfStream BytesAccounted
CHECK_DEADLOCK FALSE
