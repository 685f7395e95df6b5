SPECIFICATION Spec
CONSTANTS
  WordBytes = 2
  ByteSize = 3
  IntBytes = 2
  Bases <- MCBases
  Memories <- MCMemories
  MaxLen = 4
  SecondTicks = 2
  Calls <- MCCalls
  Benchmarks <- MCBenchmarks
  Clocks <- MCClocks
  Links <- MCLinks
  NameBuffers <- MCNameBuffers
  Programs <- MCPrograms
INVARIANTS
  WholeWordsAreSummed
  PrintsTheNumber
  TextsFitTheirBuffers
  LinesAccountForAllBytes
  CopiesSeeTheWholeInput
  SecondsHaveOneLine
  DispatchIsOneShot
