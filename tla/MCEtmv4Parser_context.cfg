CONSTANTS
  Sessions <- TwoContexts
  MaxErrors = 0
  MaxResets = 0
SPECIFICATION Spec
INVARIANT ContextOfProcessor
CHECK_DEADLOCK FALSE
