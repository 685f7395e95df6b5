SPECIFICATION Spec
CONSTANTS
  DimArgs <- MCDimArgs
  SM = 2
  UIntSize = 128
  CallocFails = TRUE
INVARIANTS
  TypeOK
  PartialProducts
  SanityCheckPasses
  StaysInside
