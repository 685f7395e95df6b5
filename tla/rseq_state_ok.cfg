SPECIFICATION Spec
CONSTANTS
  NTHREADS = 2
  CPUS = 1
  CpuIds <- MCOneCpu
  ModeArgs = {"regular"}
  RoundArgs = {1}
  BaseRounds = 2
  IntHalf = 8
  WordSize = 16
  HeapWords = {0}
  CreateMayFail = FALSE
  RegisterMayFail = FALSE
INVARIANT OkMeansCountedCorrectly
