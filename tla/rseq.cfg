SPECIFICATION Spec
CONSTANTS
  NTHREADS = 2
  CPUS = 3
  CpuIds <- MCSparseCpus
  ModeArgs = {"lock", "regular", "getcpu-atomic", "rseq-atomic", "rseq", "bogus"}
  RoundArgs = {1, 4, 8}
  BaseRounds = 3
  IntHalf = 4
  WordSize = 8
  HeapWords = {7}
  CreateMayFail = TRUE
  RegisterMayFail = TRUE
INVARIANTS
  TypeOK
  LockDiscipline
  NoLostUpdate
  JoinedBeforeSum
  LockedSumIsExact
  RegularLossBounds
PROPERTIES
  ImplementsAtomicCounters
  Termination
