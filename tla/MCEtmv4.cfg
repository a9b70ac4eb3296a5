CONSTANTS
  Program <- Code
  Scenarios <- Runs
  DepthMod = 64
  RetStackCap = 2
  MaxRestarts = 1
SPECIFICATION DecoderSpec
INVARIANTS DecoderTypeOK DepthAccounted StackBounded LossDropsDoubt RangesOfCommitted
PROPERTY ResolvesInOrder
CHECK_DEADLOCK FALSE
