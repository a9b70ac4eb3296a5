SPECIFICATION Spec
CONSTANTS
  MaxAddr = 7
  CountMod = 16
  Accessors <- MCAccessors
  Spaces <- MCSpaces
  Requests = {4}
INVARIANTS TypeOK Unambiguous CacheTransparent ReadInFull
PROPERTY ImplementsMap
