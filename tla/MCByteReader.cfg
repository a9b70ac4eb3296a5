CONSTANTS
  Inline = 2
  Bytes = {0, 1, 2}
  Blocks <- MCBlocks
  MaxScratch = 5
SPECIFICATION Spec
INVARIANTS TypeOK BuffersAgree
PROPERTY ImplementsLog
