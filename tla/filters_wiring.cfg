SPECIFICATION Spec
CONSTANTS
  Counts = {0, 1, 3}
  MaxFd = 9
  StdioSets <- MCAllStdio
  CallsFail = TRUE
INVARIANTS
  TypeOK
  NoDescriptorLeaks
  FiltersAreWired
  EndOfFilterIsVisible
PROPERTIES
  EveryFilterEnds
