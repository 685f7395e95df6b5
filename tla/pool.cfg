SPECIFICATION Spec
CONSTANTS
  Buffers = {b1, b2, b3}
  NULL = NULL
  Garbage = Garbage
  FaultSets <- MCFaultSets
  MaxFree = 2
  MaxOwners = 2
INVARIANTS
  TypeOK
  Linked
  NoFalseAlarm
  ExclusiveOwnership
PROPERTIES
  ImplementsFreeStack
  OverwritesAreNoticed
SYMMETRY Symmetry
