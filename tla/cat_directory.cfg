SPECIFICATION Spec
CONSTANTS
  Bytes = {1, 2, 3, 4}
  BufSize = 2
  Files <- MCSmallOrDirectory
  MaxArgs = 2
  StdioSets <- MCStdio
  ReadTrouble = FALSE
  WriteTrouble = FALSE
  CloseFails = FALSE
PROPERTIES
  EveryArgumentIsReached
