SPECIFICATION Spec
CONSTANTS
  Buffers = {b1, b2, b3}
  NULL = NULL
  Garbage = Garbage
  FaultSets <- MCNoMemory
  MaxFree = 3
  MaxOwners = 2
INVARIANTS
  NewBufferIsExclusive
