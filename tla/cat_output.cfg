SPECIFICATION Spec
CONSTANTS
  Bytes = {1, 2, 3, 4}
  BufSize = 2
  Files <- MCAllFiles
  MaxArgs = 2
  StdioSets <- MCAllStdio
  ReadTrouble = TRUE
  WriteTrouble = TRUE
  CloseFails = TRUE
INVARIANTS
  TypeOK
  SilentMeansComplete
  OutputIsInOrder
PROPERTIES
  EndsUnlessReadsKeepFailing
