------------------------- MODULE PerCpuCounterProofs -------------------------
(***************************************************************************)
(* Theorems about PerCpuCounter, for every number of threads, CPUs and     *)
(* rounds: type correctness, the discipline of the lock variant, that it   *)
(* implements the atomic counters, loses no update and adds up exactly,    *)
(* and how much the regular variant can lose.                              *)
(***************************************************************************)
EXTENDS PerCpuCounter, FoldTheorems, TLAPS

\* Conversion to uint64_t yields a word and leaves a word alone.
LEMMA AsWordIsWord ==
    \A x \in Int : AsWord(x) \in 0..(WordSize - 1)
BY ConstantsAssumption DEF AsWord

\* A wrapped int is an int.
LEMMA AsIntIsInt ==
    \A x \in Int : AsInt(x) \in Int
BY ConstantsAssumption DEF AsInt

\* Every variable keeps its type: counters and loop indices stay words, also
\* when an increment wraps, and a mutex is owned by a thread or by nobody.
THEOREM TypeCorrect == Spec => []TypeOK
<1>1. Init => TypeOK
  <2> SUFFICES ASSUME Init PROVE TypeOK
    OBVIOUS
  <2>1. counter \in [Slots -> 0..(WordSize - 1)] /\ initial = counter
    BY ConstantsAssumption DEF Init
  <2>2. 0 \in 0..(WordSize - 1) /\ rounds \in Int
    BY ConstantsAssumption DEF Init
  <2>3. QED
    BY <2>1, <2>2 DEF Init, TypeOK
<1>2. TypeOK /\ [Next]_vars => TypeOK'
  <2> SUFFICES ASSUME TypeOK, [Next]_vars PROVE TypeOK'
    OBVIOUS
  <2> USE DEF TypeOK, Ended, vars, mainVars, threadVars
  <2>1. CASE ParseArgs
    <3>1. args.rounds \in Int
      BY ConstantsAssumption DEF Invocations
    <3>2. rounds * args.rounds \in Int
      BY <3>1
    <3>3. rounds' \in Int
      BY <2>1, <3>2, AsIntIsInt DEF ParseArgs
    <3>4. QED
      BY <2>1, <3>3 DEF ParseArgs
  <2>2. CASE AllocCounters
    BY <2>2 DEF AllocCounters
  <2>3. CASE CreateThread
    BY <2>3 DEF CreateThread
  <2>4. CASE StartJoining
    BY <2>4 DEF StartJoining
  <2>5. CASE JoinThread
    BY <2>5 DEF JoinThread, Finished
  <2>6. CASE JoinGarbage
    BY <2>6 DEF JoinGarbage
  <2>7. CASE StartSumming
    BY <2>7 DEF StartSumming, FirstSlot
  <2>8. CASE AddCounter
    <3>1. counter[n] \in Int
      BY <2>8, ConstantsAssumption DEF AddCounter, Slots
    <3>2. sum' \in 0..(WordSize - 1)
      BY <2>8, <3>1, AsWordIsWord DEF AddCounter
    <3>3. QED
      BY <2>8, <3>2 DEF AddCounter
  <2>9. CASE Report
    BY <2>9 DEF Report
  <2>10. ASSUME NEW t \in Threads, ThreadNext(t) PROVE TypeOK'
    <3>1. CASE Register(t)
      BY <3>1 DEF Register
    <3>2. CASE CallStub(t)
      BY <3>2 DEF CallStub
    <3>3. CASE GetCpu(t)
      <4>1. cpu' \in [Threads -> Nat]
        BY <3>3, ConstantsAssumption DEF GetCpu, FirstStep
      <4>2. pc' = [pc EXCEPT ![t] = "lock"] \/ pc' = [pc EXCEPT ![t] = "load"]
        BY <3>3 DEF GetCpu, FirstStep
      <4>3. QED
        BY <3>3, <4>1, <4>2 DEF GetCpu, FirstStep
    <3>4. CASE Lock(t)
      BY <3>4 DEF Lock, IsFree
    <3>5. CASE Load(t)
      BY <3>5 DEF Load
    <3>6. CASE Store(t)
      <4>1. reg[t] + 1 \in Int
        BY ConstantsAssumption
      <4>2. AsWord(reg[t] + 1) \in 0..(WordSize - 1)
        BY <4>1, AsWordIsWord
      <4>3. counter' \in [Slots -> 0..(WordSize - 1)]
        BY <3>6, <4>2 DEF Store
      <4>4. pc' = [pc EXCEPT ![t] = "unlock"] \/ pc' = [pc EXCEPT ![t] = "test"]
        BY <3>6 DEF Store
      <4>5. i' = i \/ i' = [i EXCEPT ![t] = @ + 1]
        BY <3>6 DEF Store
      <4>6. pc' \in [Threads -> {"unborn", "starting", "test", "lock", "load",
                                "store", "unlock", "done"}] /\ i' \in [Threads -> Nat]
        BY <4>4, <4>5
      <4>7. QED
        BY <3>6, <4>3, <4>6 DEF Store
    <3>7. CASE Unlock(t)
      <4>1. mutex' \in [Slots -> Threads \union {Nobody}]
        BY <3>7 DEF Unlock
      <4>2. i' \in [Threads -> Nat] /\ pc' = [pc EXCEPT ![t] = "test"]
        BY <3>7 DEF Unlock
      <4>3. QED
        BY <3>7, <4>1, <4>2 DEF Unlock
    <3>8. CASE OutOfBounds(t)
      BY <3>8 DEF OutOfBounds
    <3>9. CASE Return(t)
      BY <3>9 DEF Return
    <3>10. QED
      BY <2>10, <3>1, <3>2, <3>3, <3>4, <3>5, <3>6, <3>7, <3>8, <3>9 DEF ThreadNext
  <2>11. CASE Terminated
    BY <2>11 DEF Terminated
  <2>12. CASE UNCHANGED vars
    BY <2>12
  <2>13. QED
    BY <2>1, <2>2, <2>3, <2>4, <2>5, <2>6, <2>7, <2>8, <2>9, <2>10, <2>11, <2>12
       DEF Next, MainNext
<1>3. QED
  BY <1>1, <1>2, PTL DEF Spec

-----------------------------------------------------------------------------
(* The phases of main() *)

\* A step of a thread that is not done leaves every other thread where it is.
LEMMA OtherThreadsStay ==
    ASSUME TypeOK, NEW t \in Threads, ThreadNext(t), NEW u \in Threads, u # t
    PROVE  pc'[u] = pc[u]
BY DEF TypeOK, ThreadNext, Register, CallStub, GetCpu, FirstStep, Lock, IsFree, Load, Store, Unlock,
       OutOfBounds, Return, threadVars

\* A thread that steps has been created and has not returned.
LEMMA OnlyRunningThreadsStep ==
    ASSUME NEW t \in Threads, ThreadNext(t)
    PROVE  /\ pc[t] \notin {"unborn", "done"}
           /\ Alive
           /\ main' \in {main, "failed", "crashed", "undefined"}
           /\ n' = n
BY DEF ThreadNext, Register, CallStub, GetCpu, FirstStep, Lock, IsFree, Load, Store, Unlock,
       OutOfBounds, Return, MoreRounds, mainVars

\* Every step keeps the phases.
LEMMA PhasesStep == TypeOK /\ Phases /\ [Next]_vars => Phases'
<1> SUFFICES ASSUME TypeOK, Phases, [Next]_vars PROVE Phases'
  OBVIOUS
<1>1. CASE ParseArgs
  BY <1>1 DEF ParseArgs, Phases, JoinedBeforeSum, threadVars
<1>2. CASE AllocCounters
  BY <1>2, ConstantsAssumption DEF AllocCounters, Phases, JoinedBeforeSum, threadVars
<1>3. CASE CreateThread
  <2>1. \A t \in Threads : t # n => pc'[t] = pc[t]
    BY <1>3 DEF CreateThread, TypeOK
  <2>2. n' <= NTHREADS /\ \A t \in Threads : t >= n' => pc'[t] = "unborn"
    BY <1>3, <2>1, ConstantsAssumption DEF CreateThread, Phases, TypeOK, Threads
  <2>3. QED
    BY <1>3, <2>2 DEF CreateThread, Phases, JoinedBeforeSum
<1>4. CASE StartJoining
  BY <1>4, ConstantsAssumption
     DEF StartJoining, Phases, JoinedBeforeSum, threadVars, Threads
<1>5. CASE JoinThread
  BY <1>5, ConstantsAssumption
     DEF JoinThread, Finished, Phases, JoinedBeforeSum, threadVars, Threads, TypeOK
<1>6. CASE JoinGarbage
  <2>1. n \in Nat /\ n < NTHREADS /\ pc[n] = "unborn" /\ pc' = pc /\ main = "join"
    BY <1>6 DEF JoinGarbage, TypeOK, threadVars
  <2>2. CASE main' = "crashed"
    BY <2>2 DEF Phases, JoinedBeforeSum
  <2>3. CASE n' = n + 1 /\ main' = main
    BY <2>1, <2>3, ConstantsAssumption DEF Phases, JoinedBeforeSum, Threads
  <2>4. QED
    BY <1>6, <2>2, <2>3 DEF JoinGarbage
<1>7. CASE StartSumming
  BY <1>7, ConstantsAssumption
     DEF StartSumming, FirstSlot, Phases, JoinedBeforeSum, threadVars, Threads
<1>8. CASE AddCounter
  BY <1>8 DEF AddCounter, Phases, JoinedBeforeSum, threadVars
<1>9. CASE Report
  BY <1>9 DEF Report, Phases, JoinedBeforeSum, threadVars
<1>10. ASSUME NEW t \in Threads, ThreadNext(t) PROVE Phases'
  <2>1. \A u \in Threads : pc[u] \in {"unborn", "done"} => pc'[u] = pc[u]
    BY <1>10, OtherThreadsStay, OnlyRunningThreadsStep
  <2>2. Alive /\ main' \in {main, "failed", "crashed", "undefined"} /\ n' = n
    BY <1>10, OnlyRunningThreadsStep
  <2>3. QED
    BY <2>1, <2>2 DEF Phases, JoinedBeforeSum, Alive
<1>11. CASE Terminated
  BY <1>11 DEF Terminated, Phases, JoinedBeforeSum, vars, mainVars, threadVars
<1>12. CASE UNCHANGED vars
  BY <1>12 DEF Phases, JoinedBeforeSum, vars, mainVars, threadVars
<1>13. QED
  BY <1>1, <1>2, <1>3, <1>4, <1>5, <1>6, <1>7, <1>8, <1>9, <1>10, <1>11, <1>12
     DEF Next, MainNext

\* The phases of main() as an invariant; JoinedBeforeSum is its last conjunct.
LEMMA PhasesInvariant == Spec => []Phases
<1>1. Init => Phases
  BY DEF Init, Phases, JoinedBeforeSum
<1>2. QED
  BY <1>1, PhasesStep, TypeCorrect, PTL DEF Spec

\* main() reads the counters only after every thread it started has returned:
\* the create and join loops cover the same indices in the same order.
THEOREM SumAfterJoin == Spec => []JoinedBeforeSum
<1>1. Phases => JoinedBeforeSum
  BY DEF Phases
<1>2. QED
  BY <1>1, PhasesInvariant, PTL

-----------------------------------------------------------------------------
(* The lock variant *)

\* The two conjuncts of LockDiscipline for one thread.
Disciplined(t) ==
    /\ InCriticalSection(t) => cpu[t] \in Slots /\ mutex[cpu[t]] = t
    /\ pc[t] = "store" => reg[t] = counter[cpu[t]]

\* A step of thread t in lock mode keeps the discipline of every thread u: when
\* u owns a mutex, t owns another one or none, so it touches another slot.
LEMMA ThreadStepKeepsDiscipline ==
    ASSUME TypeOK, LockDiscipline, args.mode = "lock",
           NEW t \in Threads, ThreadNext(t), NEW u \in Threads
    PROVE  Disciplined(u)'
<1>1. Disciplined(t) /\ Disciplined(u)
  BY DEF LockDiscipline, Disciplined
<1>2. t # Nobody /\ u # Nobody
  BY DEF Threads, Nobody
<1> USE <1>1, <1>2 DEF Disciplined, InCriticalSection, TypeOK
<1>3. CASE Register(t)
  BY <1>3 DEF Register
<1>4. CASE CallStub(t)
  BY <1>4 DEF CallStub
<1>5. CASE GetCpu(t)
  <2>1. pc'[t] = "lock" /\ mutex' = mutex /\ counter' = counter /\ reg' = reg
    BY <1>5 DEF GetCpu, FirstStep
  <2>2. u # t => pc'[u] = pc[u] /\ cpu'[u] = cpu[u]
    BY <1>5 DEF GetCpu, FirstStep
  <2>3. QED
    BY <2>1, <2>2
<1>6. CASE Lock(t)
  <2>1. /\ cpu[t] \in Slots /\ mutex[cpu[t]] = Nobody
        /\ mutex' = [mutex EXCEPT ![cpu[t]] = t]
        /\ pc' = [pc EXCEPT ![t] = "load"]
        /\ cpu' = cpu /\ counter' = counter /\ reg' = reg
    BY <1>6 DEF Lock, IsFree
  <2>2. CASE u = t
    BY <2>1, <2>2
  <2>3. CASE u # t
    BY <2>1, <2>3
  <2>4. QED
    BY <2>2, <2>3
<1>7. CASE Load(t)
  BY <1>7 DEF Load
<1>8. CASE Store(t)
  <2>1. /\ cpu[t] \in Slots /\ mutex[cpu[t]] = t
        /\ pc' = [pc EXCEPT ![t] = "unlock"]
        /\ counter' = [counter EXCEPT ![cpu[t]] = AsWord(reg[t] + 1)]
        /\ mutex' = mutex /\ cpu' = cpu /\ reg' = reg
    BY <1>8 DEF Store
  <2>2. CASE u = t
    BY <2>1, <2>2
  <2>3. CASE u # t
    <3>1. InCriticalSection(u) => cpu[u] # cpu[t]
      BY <2>1, <2>3
    <3>2. pc'[u] = pc[u]
      BY <2>1, <2>3
    <3>3. InCriticalSection(u) => counter'[cpu[u]] = counter[cpu[u]]
      BY <2>1, <3>1
    <3>4. QED
      BY <2>1, <3>2, <3>3
  <2>4. QED
    BY <2>2, <2>3
<1>9. CASE Unlock(t)
  <2>1. /\ cpu[t] \in Slots /\ mutex[cpu[t]] = t
        /\ pc' = [pc EXCEPT ![t] = "test"]
        /\ mutex' = [mutex EXCEPT ![cpu[t]] = Nobody]
        /\ counter' = counter /\ cpu' = cpu /\ reg' = reg
    BY <1>9 DEF Unlock
  <2>2. CASE u = t
    BY <2>1, <2>2
  <2>3. CASE u # t
    BY <2>1, <2>3
  <2>4. QED
    BY <2>2, <2>3
<1>10. CASE OutOfBounds(t)
  BY <1>10 DEF OutOfBounds, threadVars
<1>11. CASE Return(t)
  BY <1>11 DEF Return
<1>12. QED
  BY <1>3, <1>4, <1>5, <1>6, <1>7, <1>8, <1>9, <1>10, <1>11 DEF ThreadNext

\* The command line never changes.
LEMMA ArgsAreConstant ==
    ASSUME [Next]_vars
    PROVE  args' = args
BY DEF Next, MainNext, ThreadNext, ParseArgs, AllocCounters, CreateThread, StartJoining,
       JoinThread, Finished, JoinGarbage, StartSumming, FirstSlot, AddCounter, Report, Terminated,
       Register, CallStub, GetCpu, FirstStep, Lock, IsFree, Load, Store, Unlock, OutOfBounds, Return,
       vars, mainVars

\* main() changes mutexes only while no thread exists, and threads only before
\* they have run.
LEMMA MainStepKeepsDiscipline ==
    ASSUME TypeOK, Phases, LockDiscipline, args.mode = "lock", MainNext,
           NEW u \in Threads
    PROVE  Disciplined(u)'
<1>1. Disciplined(u)
  BY DEF LockDiscipline, Disciplined
<1>2. counter' = counter /\ reg' = reg /\ cpu' = cpu
  BY DEF MainNext, ParseArgs, AllocCounters, CreateThread, StartJoining, JoinThread, Finished,
         JoinGarbage, StartSumming, FirstSlot, AddCounter, Report, threadVars
<1>3. CASE AllocCounters
  BY <1>3 DEF AllocCounters, Phases, Disciplined, InCriticalSection, threadVars
<1>4. CASE CreateThread
  <2>1. pc'[u] = pc[u] \/ pc'[u] = "starting"
    BY <1>4 DEF CreateThread, TypeOK
  <2>2. mutex' = mutex
    BY <1>4 DEF CreateThread
  <2>3. QED
    BY <1>1, <1>2, <2>1, <2>2 DEF Disciplined, InCriticalSection
<1>5. CASE ~AllocCounters /\ ~CreateThread
  <2>1. pc' = pc /\ mutex' = mutex
    BY <1>5 DEF MainNext, ParseArgs, StartJoining, JoinThread, Finished, JoinGarbage,
                StartSumming, FirstSlot, AddCounter, Report, threadVars
  <2>2. QED
    BY <1>1, <1>2, <2>1 DEF Disciplined, InCriticalSection
<1>6. QED
  BY <1>3, <1>4, <1>5

\* The locked read-modify-write is exclusive per slot: between lock and unlock
\* a thread owns the mutex of the slot it works on, and no other thread changes
\* the counter between its load and its store.
THEOREM LockIsDisciplined == Spec => []LockDiscipline
<1>1. Init => LockDiscipline
  BY DEF Init, LockDiscipline, InCriticalSection
<1>2. TypeOK /\ Phases /\ LockDiscipline /\ [Next]_vars => LockDiscipline'
  <2> SUFFICES ASSUME TypeOK, Phases, LockDiscipline, [Next]_vars, args.mode = "lock",
                      NEW u \in Threads
               PROVE  Disciplined(u)'
    BY ArgsAreConstant DEF LockDiscipline, Disciplined
  <2>1. CASE MainNext
    BY <2>1, MainStepKeepsDiscipline
  <2>2. ASSUME NEW t \in Threads, ThreadNext(t) PROVE Disciplined(u)'
    BY <2>2, ThreadStepKeepsDiscipline
  <2>3. CASE Terminated \/ UNCHANGED vars
    BY <2>3 DEF Terminated, LockDiscipline, Disciplined, InCriticalSection, vars, threadVars
  <2>4. QED
    BY <2>1, <2>2, <2>3 DEF Next
<1>3. QED
  BY <1>1, <1>2, TypeCorrect, PhasesInvariant, PTL DEF Spec

-----------------------------------------------------------------------------
(* The lock variant implements AtomicCounters *)

\* In lock mode the store is the step that increments; nothing else is visible.
LEMMA ThreadStepRefines ==
    ASSUME TypeOK, LockDiscipline, NEW t \in Threads, ThreadNext(t)
    PROVE  [Atomic!Next]_(Atomic!vars)
<1> USE DEF Atomic!vars
<1>1. args' = args /\ initial' = initial
  BY DEF ThreadNext, Register, CallStub, GetCpu, FirstStep, Lock, IsFree, Load, Store, Unlock,
         OutOfBounds, Return, mainVars
<1>2. CASE args.mode # "lock"
  BY <1>1, <1>2
<1>3. CASE args.mode = "lock" /\ Store(t)
  <2>1. cpu[t] \in Slots /\ reg[t] = counter[cpu[t]]
    BY <1>3 DEF LockDiscipline, InCriticalSection, Store
  <2>2. counter' = [counter EXCEPT ![cpu[t]] = (@ + 1) % WordSize]
    BY <1>3, <2>1 DEF Store, AsWord, TypeOK
  <2>3. i' = i /\ pc' = [pc EXCEPT ![t] = "unlock"] /\ pc[t] = "store"
    BY <1>3 DEF Store
  <2>4. /\ \A u \in Threads : Completed(u)' = IF u = t THEN Completed(u) + 1 ELSE Completed(u)
    BY <2>3 DEF Completed, TypeOK
  <2>5. [u \in Threads |-> Completed(u)]' =
          [[u \in Threads |-> Completed(u)] EXCEPT ![t] = @ + 1]
    BY <2>4
  <2>6. Atomic!Increment(t, cpu[t])
    BY <1>1, <1>3, <2>2, <2>5 DEF Atomic!Increment
  <2>7. QED
    BY <2>1, <2>6 DEF Atomic!Next
<1>4. CASE args.mode = "lock" /\ ~Store(t)
  <2>1. counter' = counter
    BY <1>4 DEF ThreadNext, Register, CallStub, GetCpu, FirstStep, Lock, IsFree, Load, Unlock,
                OutOfBounds, Return
  <2>2. \A u \in Threads : Completed(u)' = Completed(u)
    <3>1. CASE Unlock(t)
      BY <3>1 DEF Unlock, Completed, TypeOK
    <3>2. CASE ~Unlock(t)
      <4>1. i' = i
        BY <1>4, <3>2 DEF ThreadNext, Register, CallStub, GetCpu, FirstStep, Lock, IsFree, Load,
             OutOfBounds, Return, threadVars, StubModes
      <4>2. \A u \in Threads : pc'[u] = "unlock" <=> pc[u] = "unlock"
        <5>1. pc[t] # "unlock"
          BY <1>4, <3>2 DEF ThreadNext, Register, CallStub, GetCpu, FirstStep, Lock, IsFree, Load,
               OutOfBounds, Return, MoreRounds
        <5>2. pc' = pc \/ \E where \in {"test", "lock", "load", "store", "done"} :
                             pc' = [pc EXCEPT ![t] = where]
          BY <1>4, <3>2 DEF ThreadNext, Register, CallStub, GetCpu, FirstStep, Lock, IsFree, Load,
               OutOfBounds, Return, threadVars
        <5>3. QED
          BY <5>1, <5>2 DEF TypeOK
      <4>3. QED
        BY <4>1, <4>2 DEF Completed
    <3>3. QED
      BY <3>1, <3>2
  <2>3. QED
    BY <1>1, <1>4, <2>1, <2>2
<1>5. QED
  BY <1>2, <1>3, <1>4

\* No step of main() changes a counter or the number of completed increments.
LEMMA MainStepStutters ==
    ASSUME TypeOK, Phases, MainNext
    PROVE  UNCHANGED Atomic!vars
<1>1. args' = args /\ initial' = initial /\ counter' = counter /\ i' = i
  BY DEF MainNext, ParseArgs, AllocCounters, CreateThread, StartJoining, JoinThread, Finished,
         JoinGarbage, StartSumming, FirstSlot, AddCounter, Report, threadVars
<1>2. \A u \in Threads : Completed(u)' = Completed(u)
  <2>1. CASE CreateThread
    <3>1. pc[n] = "unborn"
      BY <2>1, ConstantsAssumption DEF CreateThread, Phases, Threads, TypeOK
    <3>2. \A u \in Threads : pc'[u] = "unlock" <=> pc[u] = "unlock"
      BY <2>1, <3>1 DEF CreateThread, TypeOK
    <3>3. QED
      BY <1>1, <3>2 DEF Completed
  <2>2. CASE ~CreateThread
    BY <1>1, <2>2 DEF MainNext, ParseArgs, AllocCounters, StartJoining, JoinThread, Finished,
         JoinGarbage, StartSumming, FirstSlot, AddCounter, Report, threadVars, Completed
  <2>3. QED
    BY <2>1, <2>2
<1>3. QED
  BY <1>1, <1>2 DEF Atomic!vars

\* Every step maps to one of the atomic counters, or leaves them alone.
LEMMA StepRefines ==
    TypeOK /\ Phases /\ LockDiscipline /\ [Next]_vars => [Atomic!Next]_(Atomic!vars)
<1> SUFFICES ASSUME TypeOK, Phases, LockDiscipline, [Next]_vars
             PROVE  [Atomic!Next]_(Atomic!vars)
  OBVIOUS
<1>1. CASE MainNext
  BY <1>1, MainStepStutters
<1>2. CASE \E t \in Threads : ThreadNext(t)
  BY <1>2, ThreadStepRefines
<1>3. CASE Terminated \/ UNCHANGED vars
  BY <1>3 DEF Terminated, Atomic!vars, Completed, vars, mainVars, threadVars
<1>4. QED
  BY <1>1, <1>2, <1>3 DEF Next

\* Whatever the number of threads, CPUs and rounds, and wherever the threads
\* migrate, incrementing under the mutex of the slot is an atomic increment.
THEOREM LockVariantIsAtomic == Spec => ImplementsAtomicCounters
<1>1. Init => Atomic!Init
  <2> SUFFICES ASSUME Init PROVE Atomic!Init
    OBVIOUS
  <2>1. counter \in [Slots -> 0..(WordSize - 1)] /\ initial = counter
    BY ConstantsAssumption DEF Init
  <2>2. \A t \in Threads : Completed(t) = 0
    BY DEF Init, Completed
  <2>3. QED
    BY <2>1, <2>2 DEF Atomic!Init
<1>2. QED
  BY <1>1, StepRefines, TypeCorrect, PhasesInvariant, LockIsDisciplined, PTL
     DEF Spec, ImplementsAtomicCounters, Atomic!Spec

-----------------------------------------------------------------------------
(* What the counters add up to *)

\* Sums and cardinalities over threads and slots are defined.
LEMMA ThreadsAndSlotsAreFinite == IsFiniteSet(Threads) /\ IsFiniteSet(Slots)
  BY FS_Interval, ConstantsAssumption DEF Threads, Slots

\* What the heap held is not forgotten.
LEMMA InitialIsConstant ==
    ASSUME [Next]_vars
    PROVE  initial' = initial
BY DEF Next, MainNext, ThreadNext, ParseArgs, AllocCounters, CreateThread, StartJoining,
       JoinThread, Finished, JoinGarbage, StartSumming, FirstSlot, AddCounter, Report, Terminated,
       Register, CallStub, GetCpu, FirstStep, Lock, IsFree, Load, Store, Unlock, OutOfBounds, Return,
       vars

\* An increment of one slot, also one that wraps around, adds one to the sum of
\* all as a word.
LEMMA IncrementedSum ==
    ASSUME NEW f \in [Slots -> 0..(WordSize - 1)], NEW s \in Slots
    PROVE  SumFunction([f EXCEPT ![s] = (@ + 1) % WordSize]) % WordSize
              = (SumFunction(f) + 1) % WordSize
<1> DEFINE v == (f[s] + 1) % WordSize
<1>1. f \in [Slots -> Int] /\ f[s] \in 0..(WordSize - 1) /\ WordSize \in Nat \ {0}
  BY ConstantsAssumption DEF Slots
<1>2. v \in Int /\ \E k \in Int : v = f[s] + 1 + WordSize * k
  <2>1. CASE f[s] + 1 < WordSize
    <3> DEFINE none == 0
    <3>1. v \in Int /\ none \in Int /\ v = f[s] + 1 + WordSize * none
      BY <1>1, <2>1
    <3> HIDE DEF none, v
    <3> QED
      BY <3>1
  <2>2. CASE f[s] + 1 = WordSize
    <3>1. v = 0
      BY <1>1, <2>2
    <3> DEFINE back == -1
    <3>2. back \in Int /\ v = f[s] + 1 + WordSize * back
      BY <1>1, <2>2, <3>1
    <3> HIDE DEF back, v
    <3> QED
      BY <3>1, <3>2
  <2> QED
    BY <1>1, <2>1, <2>2
<1>3. PICK k \in Int : v = f[s] + 1 + WordSize * k
  BY <1>2
<1> HIDE DEF v
<1>4. SumFunction([f EXCEPT ![s] = v]) = SumFunction(f) + (v - f[s])
  BY <1>1, <1>2, ThreadsAndSlotsAreFinite, SumOfChanged
<1>5. SumFunction(f) \in Int
  BY <1>1, ThreadsAndSlotsAreFinite, SumIsInt
<1> DEFINE c == SumFunction(f) + 1
<1>6. c \in Int /\ SumFunction([f EXCEPT ![s] = v]) = c + WordSize * k
  BY <1>1, <1>3, <1>4, <1>5
<1> HIDE DEF c
<1>7. (c + WordSize * k) % WordSize = c % WordSize
  BY <1>1, <1>6, RemainderShifted
<1> QED
  BY <1>6, <1>7 DEF v, c

\* No increment of the lock variant is lost: the counters together exceed what
\* they held at allocation by the increments performed.  The invariant is carried
\* by the steps of the atomic counters, which lock variant takes.
THEOREM LockLosesNoUpdate == Spec => []NoLostUpdate
<1> DEFINE Done == [t \in Threads |-> Completed(t)]
<1>1. Init => NoLostUpdate
  <2> SUFFICES ASSUME Init PROVE NoLostUpdate
    OBVIOUS
  <2>1. \A t \in Threads : Completed(t) = 0
    BY DEF Init, Completed
  <2>2. SumFunction(Done) = 0
    <3>1. Done = [t \in Threads |-> IF t \in {} THEN 0 ELSE 0]
      BY <2>1
    <3>2. SumFunction([t \in Threads |-> IF t \in {} THEN 0 ELSE 0]) = Cardinality({}) * 0
      BY ThreadsAndSlotsAreFinite, SumOfConstant
    <3> QED
      BY <3>1, <3>2, FS_EmptySet
  <2>3. initial = counter /\ initial \in [Slots -> Int]
    <3>1. counter \in [Slots -> 0..(WordSize - 1)] /\ initial = counter
      BY ConstantsAssumption DEF Init
    <3> QED
      BY <3>1
  <2>4. SumFunction(initial) \in Int
    BY <2>3, ThreadsAndSlotsAreFinite, SumIsInt
  <2>5. Total(initial) \in 0..(WordSize - 1)
    BY <2>4, ConstantsAssumption DEF Total
  <2>6. (Total(initial) + 0) % WordSize = Total(initial)
    BY <2>5, ConstantsAssumption
  <2> QED
    BY <2>2, <2>3, <2>6 DEF NoLostUpdate
<1>2. TypeOK /\ Phases /\ LockDiscipline /\ NoLostUpdate /\ [Next]_vars => NoLostUpdate'
  <2> SUFFICES ASSUME TypeOK, Phases, LockDiscipline, NoLostUpdate, [Next]_vars,
                      args.mode = "lock"
               PROVE  Total(counter)' = (Total(initial)' + SumFunction(Done')) % WordSize
    BY ArgsAreConstant DEF NoLostUpdate
  <2>1. Total(counter) = (Total(initial) + SumFunction(Done)) % WordSize
    BY DEF NoLostUpdate
  <2>2. initial' = initial /\ args' = args
    BY InitialIsConstant, ArgsAreConstant
  <2>3. CASE counter' = counter /\ Done' = Done
    BY <2>1, <2>2, <2>3 DEF Total
  <2>4. ASSUME NEW t \in Threads, NEW s \in Slots,
               counter' = [counter EXCEPT ![s] = (@ + 1) % WordSize],
               Done' = [Done EXCEPT ![t] = @ + 1]
        PROVE  Total(counter)' = (Total(initial)' + SumFunction(Done')) % WordSize
    <3>1. counter \in [Slots -> 0..(WordSize - 1)] /\ Done \in [Threads -> Int]
      BY DEF TypeOK, Completed
    <3>2. SumFunction(counter') % WordSize = (SumFunction(counter) + 1) % WordSize
      BY <2>4, <3>1, IncrementedSum
    <3> DEFINE a == SumFunction(counter)
               d == SumFunction(Done)
               b == Total(initial) + d
    <3>3. SumFunction(Done') = d + 1
      <4> DEFINE v == Done[t] + 1
      <4>1. SumFunction([Done EXCEPT ![t] = v]) = d + (v - Done[t])
        <5>1. v \in Int /\ IsFiniteSet(Threads)
          BY <3>1, ThreadsAndSlotsAreFinite
        <5> HIDE DEF Done, v
        <5> QED
          BY <3>1, <5>1, SumOfChanged
      <4>2. Done[t] \in Int /\ d \in Int
        <5> HIDE DEF Done
        <5> QED
          BY <3>1, ThreadsAndSlotsAreFinite, SumIsInt
      <4> HIDE DEF Done, d
      <4> QED
        BY <2>4, <4>1, <4>2
    <3>4. /\ a \in Int /\ SumFunction(initial) \in Int /\ d \in Int
      <4>1. counter \in [Slots -> Int] /\ initial \in [Slots -> Int]
        BY DEF TypeOK
      <4> HIDE DEF Done
      <4> QED
        BY <3>1, <4>1, ThreadsAndSlotsAreFinite, SumIsInt
    <3>5. b \in Int /\ WordSize \in Nat \ {0} /\ 1 \in Int
      BY <3>4, ConstantsAssumption DEF Total
    <3>6. a % WordSize = b % WordSize
      BY <2>1 DEF Total
    <3>7. Total(initial)' + SumFunction(Done') = b + 1
      BY <2>2, <3>3, <3>4, ConstantsAssumption DEF Total
    <3> HIDE DEF a, b
    <3>8. (a + 1) % WordSize = (b + 1) % WordSize
      BY <3>4, <3>5, <3>6, RemaindersStayEqual
    <3> QED
      BY <3>2, <3>7, <3>8 DEF Total, a
  <2>5. CASE [Atomic!Next]_(Atomic!vars)
    <3>1. CASE UNCHANGED Atomic!vars
      BY <2>2, <2>3, <3>1 DEF Atomic!vars
    <3>2. CASE Atomic!Next
      <4>1. PICK t \in Threads, s \in Slots : Atomic!Increment(t, s)
        BY <3>2 DEF Atomic!Next
      <4> QED
        BY <2>2, <2>4, <4>1 DEF Atomic!Increment
    <3> QED
      BY <2>5, <3>1, <3>2
  <2> QED
    BY <2>5, StepRefines
<1> QED
  BY <1>1, <1>2, TypeCorrect, PhasesInvariant, LockIsDisciplined, PTL DEF Spec

\* How far a thread has come: it makes as many calls as there are rounds.
RoundsOf(t) ==
    /\ pc[t] \in {"unborn", "starting"} => i[t] = 0
    /\ pc[t] = "test" => i[t] <= AsWord(rounds)
    /\ pc[t] \in {"lock", "load", "store", "unlock"} => i[t] < AsWord(rounds)
    /\ pc[t] = "done" => i[t] = AsWord(rounds)

RoundsAreCounted == \A t \in Threads : RoundsOf(t)

\* A step keeps the account of rounds.
LEMMA RoundsStep ==
    TypeOK /\ Phases /\ RoundsAreCounted /\ [Next]_vars => RoundsAreCounted'
<1> SUFFICES ASSUME TypeOK, Phases, RoundsAreCounted, [Next]_vars, NEW u \in Threads
             PROVE  RoundsOf(u)'
  BY DEF RoundsAreCounted
<1>1. RoundsOf(u)
  BY DEF RoundsAreCounted
<1>2. AsWord(rounds) \in Nat
  BY AsWordIsWord, ConstantsAssumption DEF TypeOK
<1>3. CASE MainNext
  <2>1. CASE ParseArgs
    <3>1. pc' = pc /\ i' = i /\ pc[u] = "unborn"
      BY <2>1 DEF ParseArgs, threadVars, Phases
    <3> QED
      BY <1>1, <3>1 DEF RoundsOf
  <2>2. CASE CreateThread
    <3>1. i' = i /\ rounds' = rounds /\ (pc' = pc \/ pc' = [pc EXCEPT ![n] = "starting"])
      BY <2>2 DEF CreateThread
    <3>2. n \in Threads /\ pc[n] = "unborn"
      BY <2>2, ConstantsAssumption DEF CreateThread, Phases, Threads, TypeOK
    <3>3. pc'[u] = pc[u] \/ (pc[u] = "unborn" /\ pc'[u] = "starting")
      BY <3>1, <3>2 DEF TypeOK
    <3> QED
      BY <1>1, <3>1, <3>3 DEF RoundsOf
  <2>3. CASE ~ParseArgs /\ ~CreateThread
    <3>1. pc' = pc /\ i' = i /\ rounds' = rounds
      BY <1>3, <2>3 DEF MainNext, AllocCounters, StartJoining, JoinThread, Finished,
           JoinGarbage, StartSumming, FirstSlot, AddCounter, Report, threadVars
    <3> QED
      BY <1>1, <3>1 DEF RoundsOf
  <2> QED
    BY <2>1, <2>2, <2>3
<1>4. ASSUME NEW t \in Threads, ThreadNext(t) PROVE RoundsOf(u)'
  <2>1. rounds' = rounds
    BY <1>4 DEF ThreadNext, Register, CallStub, GetCpu, FirstStep, Lock, IsFree, Load,
         Store, Unlock, OutOfBounds, Return, mainVars
  <2>2. CASE u # t
    <3>1. pc'[u] = pc[u]
      BY <1>4, <2>2, OtherThreadsStay
    <3>2. i'[u] = i[u]
      BY <1>4, <2>2 DEF TypeOK, ThreadNext, Register, CallStub, GetCpu, FirstStep, Lock,
           IsFree, Load, Store, Unlock, OutOfBounds, Return, threadVars
    <3> QED
      BY <1>1, <2>1, <3>1, <3>2 DEF RoundsOf
  <2>3. CASE u = t
    <3> USE <1>1, <1>2, <1>4, <2>1, <2>3 DEF RoundsOf, TypeOK
    <3>1. CASE Register(t)
      BY <3>1 DEF Register, threadVars
    <3>2. CASE CallStub(t)
      BY <3>2 DEF CallStub, MoreRounds
    <3>3. CASE GetCpu(t)
      BY <3>3 DEF GetCpu, FirstStep, MoreRounds
    <3>4. CASE Lock(t)
      BY <3>4 DEF Lock, IsFree
    <3>5. CASE Load(t)
      BY <3>5 DEF Load
    <3>6. CASE Store(t)
      BY <3>6 DEF Store
    <3>7. CASE Unlock(t)
      BY <3>7 DEF Unlock
    <3>8. CASE OutOfBounds(t)
      BY <3>8 DEF OutOfBounds, threadVars
    <3>9. CASE Return(t)
      BY <3>9 DEF Return
    <3> QED
      BY <3>1, <3>2, <3>3, <3>4, <3>5, <3>6, <3>7, <3>8, <3>9 DEF ThreadNext
  <2> QED
    BY <2>2, <2>3
<1>5. CASE Terminated \/ UNCHANGED vars
  BY <1>1, <1>5 DEF Terminated, RoundsOf, vars, mainVars, threadVars
<1> QED
  BY <1>3, <1>4, <1>5 DEF Next

\* Completed rounds are counted at every time.
LEMMA RoundsInvariant == Spec => []RoundsAreCounted
<1>1. Init => RoundsAreCounted
  BY DEF Init, RoundsAreCounted, RoundsOf
<1> QED
  BY <1>1, RoundsStep, TypeCorrect, PhasesInvariant, PTL DEF Spec

\* What main() has added up: the counters below its loop index, which no thread
\* works on any more, and in the end all of them.
Below(k) == [s \in Slots |-> IF s < k THEN counter[s] ELSE 0]

SummedSoFar ==
    /\ main \in {"parse", "alloc", "create", "join"} => sum = 0
    /\ main = "sum" => n <= CPUS /\ sum = SumFunction(Below(n)) % WordSize
    /\ main = "exited" => sum = Total(counter)

\* Before its first slot main() has added up nothing.
LEMMA SumOfNone == SumFunction(Below(0)) = 0
<1>1. Below(0) = [s \in Slots |-> IF s \in {} THEN 0 ELSE 0]
  BY ConstantsAssumption DEF Below, Slots
<1>2. SumFunction([s \in Slots |-> IF s \in {} THEN 0 ELSE 0]) = Cardinality({}) * 0
  BY ThreadsAndSlotsAreFinite, SumOfConstant
<1> QED
  BY <1>1, <1>2, FS_EmptySet

\* A slot more adds its counter.
LEMMA SumOfOneMore ==
    ASSUME TypeOK, n < CPUS
    PROVE  /\ SumFunction(Below(n)) \in Int
           /\ SumFunction(Below(n + 1)) = SumFunction(Below(n)) + counter[n]
<1> DEFINE f == Below(n)
           v == counter[n]
<1>1. n \in Slots /\ n \in Nat
  BY ConstantsAssumption DEF TypeOK, Slots
<1>2. \A s \in Slots : counter[s] \in Int /\ s \in Int
  BY ConstantsAssumption DEF TypeOK, Slots
<1>3. f \in [Slots -> Int] /\ v \in Int /\ f[n] = 0
  BY <1>1, <1>2 DEF Below
<1>4. Below(n + 1) = [f EXCEPT ![n] = v]
  <2>1. \A s \in Slots : (s < n + 1) = (s < n \/ s = n)
    BY <1>1, <1>2
  <2>2. \A s \in Slots : (IF s < n + 1 THEN counter[s] ELSE 0) = (IF s = n THEN v ELSE f[s])
    BY <2>1 DEF Below
  <2> QED
    BY <2>2 DEF Below
<1> HIDE DEF f, v
<1>5. SumFunction([f EXCEPT ![n] = v]) = SumFunction(f) + (v - f[n])
  BY <1>1, <1>3, ThreadsAndSlotsAreFinite, SumOfChanged
<1>6. SumFunction(f) \in Int
  BY <1>3, ThreadsAndSlotsAreFinite, SumIsInt
<1>7. SumFunction(Below(n + 1)) = SumFunction(f) + v
  BY <1>3, <1>4, <1>5, <1>6
<1> QED
  BY <1>6, <1>7 DEF f, v

\* A step keeps what main() has added up: no thread writes any more.
LEMMA SummedStep ==
    TypeOK /\ Phases /\ SummedSoFar /\ [Next]_vars => SummedSoFar'
<1> SUFFICES ASSUME TypeOK, Phases, SummedSoFar, [Next]_vars PROVE SummedSoFar'
  OBVIOUS
<1>1. CASE ParseArgs \/ AllocCounters \/ CreateThread \/ StartJoining
  BY <1>1 DEF ParseArgs, AllocCounters, CreateThread, StartJoining, SummedSoFar
<1>2. CASE JoinThread \/ JoinGarbage
  BY <1>2 DEF JoinThread, Finished, JoinGarbage, SummedSoFar
<1>3. CASE StartSumming
  <2>1. counter' = counter /\ n' = 0 /\ sum = 0 /\ sum' = 0 /\ main' \in {"sum", "failed"}
    BY <1>3 DEF StartSumming, FirstSlot, SummedSoFar
  <2>2. SumFunction(Below(0))' = 0
    BY <2>1, SumOfNone DEF Below
  <2>3. 0 % WordSize = 0 /\ 0 <= CPUS
    BY ConstantsAssumption
  <2>4. Below(n)' = Below(0)'
    BY <2>1 DEF Below
  <2> QED
    BY <2>1, <2>2, <2>3, <2>4 DEF SummedSoFar
<1>4. CASE AddCounter
  <2>1. /\ main = "sum" /\ main' = "sum" /\ n < CPUS /\ n' = n + 1 /\ counter' = counter
        /\ sum' = (sum + counter[n]) % WordSize
    BY <1>4 DEF AddCounter, AsWord
  <2> DEFINE b == SumFunction(Below(n))
             c == counter[n]
  <2>2. sum = b % WordSize
    BY <2>1 DEF SummedSoFar
  <2>3. b \in Int /\ SumFunction(Below(n + 1)) = b + c
    BY <2>1, SumOfOneMore
  <2>4. c \in Int /\ WordSize \in Nat \ {0} /\ n \in Nat
    BY <2>1, ConstantsAssumption DEF TypeOK, Slots
  <2>5. Below(n)' = Below(n + 1)
    BY <2>1 DEF Below
  <2>6. n' <= CPUS
    BY <2>1, <2>4, ConstantsAssumption
  <2> HIDE DEF b, c
  <2>7. (c + (b % WordSize)) % WordSize = (c + b) % WordSize
    BY <2>3, <2>4, RemainderOfSum
  <2>8. sum' = (b + c) % WordSize
    <3>1. (b % WordSize) + c = c + (b % WordSize) /\ c + b = b + c
      BY <2>3, <2>4
    <3> QED
      BY <2>1, <2>2, <2>7, <3>1 DEF c
  <2> QED
    BY <2>1, <2>3, <2>5, <2>6, <2>8 DEF SummedSoFar
<1>5. CASE Report
  <2>1. main = "sum" /\ n = CPUS /\ main' \in {"crashed", "exited"} /\ sum' = sum /\ counter' = counter
    BY <1>5 DEF Report
  <2>2. Below(CPUS) = counter
    BY ConstantsAssumption DEF Below, Slots, TypeOK
  <2>3. sum = Total(counter)
    BY <2>1, <2>2 DEF SummedSoFar, Total
  <2> QED
    BY <2>1, <2>3 DEF SummedSoFar, Total
<1>6. ASSUME NEW t \in Threads, ThreadNext(t) PROVE SummedSoFar'
  <2>1. main \in {"create", "join"} /\ main' \in {main, "failed", "crashed", "undefined"}
    BY <1>6, OnlyRunningThreadsStep DEF Alive, Phases, JoinedBeforeSum
  <2>2. sum' = sum
    BY <1>6 DEF ThreadNext, Register, CallStub, GetCpu, FirstStep, Lock, IsFree, Load,
         Store, Unlock, OutOfBounds, Return, mainVars
  <2> QED
    BY <2>1, <2>2 DEF SummedSoFar
<1>7. CASE Terminated \/ UNCHANGED vars
  BY <1>7 DEF Terminated, SummedSoFar, Below, Total, vars, mainVars
<1> QED
  BY <1>1, <1>2, <1>3, <1>4, <1>5, <1>6, <1>7 DEF Next, MainNext

\* What main() has added up is right at every time.
LEMMA SummedInvariant == Spec => []SummedSoFar
<1>1. Init => SummedSoFar
  BY DEF Init, SummedSoFar
<1> QED
  BY <1>1, SummedStep, TypeCorrect, PhasesInvariant, PTL DEF Spec

\* What main() reports in lock mode is the sum of what it found in the counters
\* and of the rounds of every thread that was started, as a word.
THEOREM LockedSumCountsEveryRound == Spec => []LockedSumIsExact
<1>1. TypeOK /\ Phases /\ RoundsAreCounted /\ SummedSoFar /\ NoLostUpdate => LockedSumIsExact
  <2> SUFFICES ASSUME TypeOK, Phases, RoundsAreCounted, SummedSoFar, NoLostUpdate,
                      main = "exited", args.mode = "lock"
               PROVE  sum = ( Total(initial)
                                + Cardinality({t \in Threads : pc[t] = "done"}) * AsWord(rounds) )
                              % WordSize
    BY DEF LockedSumIsExact, Reported
  <2> DEFINE A == {t \in Threads : pc[t] = "done"}
             r == AsWord(rounds)
  <2>1. \A t \in Threads : pc[t] \in {"done", "unborn"}
    BY DEF Phases, JoinedBeforeSum
  <2>2. ASSUME NEW t \in Threads PROVE Completed(t) = IF t \in A THEN r ELSE 0
    <3>1. RoundsOf(t) /\ i[t] \in Int /\ pc[t] # "unlock"
      BY <2>1 DEF RoundsAreCounted, TypeOK
    <3>2. Completed(t) = i[t]
      BY <3>1 DEF Completed
    <3> QED
      BY <2>1, <3>1, <3>2 DEF RoundsOf
  <2>3. [t \in Threads |-> Completed(t)] = [t \in Threads |-> IF t \in A THEN r ELSE 0]
    BY <2>2
  <2>4. SumFunction([t \in Threads |-> IF t \in A THEN r ELSE 0]) = Cardinality(A) * r
    <3>1. r \in Int /\ A \in SUBSET Threads
      BY AsWordIsWord, ConstantsAssumption DEF TypeOK
    <3> HIDE DEF A, r
    <3> QED
      BY <3>1, ThreadsAndSlotsAreFinite, SumOfConstant
  <2>5. sum = Total(counter)
    BY DEF SummedSoFar
  <2> QED
    BY <2>3, <2>4, <2>5 DEF NoLostUpdate
<1> QED
  BY <1>1, TypeCorrect, PhasesInvariant, RoundsInvariant, SummedInvariant, LockLosesNoUpdate, PTL

-----------------------------------------------------------------------------
(* What the racy variant loses *)

\* What is counted, in memory and in a register, beyond what the heap held; and
\* how many calls the threads have completed.
Counted == [s \in Slots |-> (counter[s] - initial[s]) % WordSize]
Held(t) == (reg[t] - initial[cpu[t]]) % WordSize
Calls   == SumFunction(i)

Started == {t \in Threads : pc[t] # "unborn"}
Storing == {t \in Threads : pc[t] = "store"}
Fits    == args.mode = "regular" /\ Cardinality(Started) * AsWord(rounds) < WordSize

\* The regular operation takes no mutex and stays inside the array.
NoMutexUsed ==
    args.mode = "regular" =>
        \A t \in Threads : /\ pc[t] \notin {"lock", "unlock"}
                           /\ pc[t] = "store" => cpu[t] \in Slots

\* No increment is invented: the stores can be shared out among the slots so that
\* neither a counter nor a register holds more than the stores to its slot.
Shares(st) ==
    /\ SumFunction(st) = Calls
    /\ \A s \in Slots : Counted[s] <= st[s]
    /\ \A t \in Storing : Held(t) <= st[cpu[t]]

NoneInvented == Fits => \E st \in [Slots -> Nat] : Shares(st)

\* Two increments survive once a thread has completed a second call.  Until then
\* the thread that stored last has completed one, and will not overwrite its own.
\* A register that holds nothing belongs to a thread that has not stored yet, or
\* the slot counted is another one.
TwoCounted ==
    \/ \E s \in Slots : Counted[s] >= 2
    \/ \E r, s \in Slots : r # s /\ Counted[r] >= 1 /\ Counted[s] >= 1

StoredOnce(t) ==
    i[t] = 1 /\ (t \in Storing /\ Counted[cpu[t]] >= 1 => Held(t) >= 1)

TwoSurvive ==
    Fits => \A t \in Threads : i[t] >= 1 =>
        /\ \E s \in Slots : Counted[s] >= 1
        /\ t \in Storing /\ Held(t) = 0 => \E s \in Slots \ {cpu[t]} : Counted[s] >= 1
        /\ TwoCounted \/ \E u \in Threads : StoredOnce(u)

\* A thread that is alone finds what it left behind.
LonelyIsExact ==
    Fits /\ (\A t, u \in Started : t = u) =>
        /\ SumFunction(Counted) = Calls
        /\ \A t \in Storing : Held(t) = Counted[cpu[t]]

\* The regular operation touches no mutex.
LEMMA NoMutexInvariant == Spec => []NoMutexUsed
<1>1. Init => NoMutexUsed
  BY DEF Init, NoMutexUsed
<1>2. TypeOK /\ NoMutexUsed /\ [Next]_vars => NoMutexUsed'
  <2> SUFFICES ASSUME TypeOK, NoMutexUsed, [Next]_vars, args.mode = "regular", NEW u \in Threads
               PROVE  /\ pc'[u] \notin {"lock", "unlock"}
                      /\ pc'[u] = "store" => cpu'[u] \in Slots
    BY ArgsAreConstant DEF NoMutexUsed
  <2>1. pc[u] \notin {"lock", "unlock"} /\ (pc[u] = "store" => cpu[u] \in Slots)
    BY DEF NoMutexUsed
  <2>2. CASE MainNext
    <3>1. cpu' = cpu
      BY <2>2 DEF MainNext, ParseArgs, AllocCounters, CreateThread, StartJoining,
           JoinThread, Finished, JoinGarbage, StartSumming, FirstSlot, AddCounter, Report, threadVars
    <3>2. pc'[u] \in {pc[u], "starting"}
      BY <2>2 DEF MainNext, ParseArgs, AllocCounters, CreateThread, StartJoining,
           JoinThread, Finished, JoinGarbage, StartSumming, FirstSlot, AddCounter, Report, threadVars, TypeOK
    <3> QED
      BY <2>1, <3>1, <3>2
  <2>3. ASSUME NEW t \in Threads, ThreadNext(t)
        PROVE  /\ pc'[u] \notin {"lock", "unlock"}
               /\ pc'[u] = "store" => cpu'[u] \in Slots
    BY <2>1, <2>3 DEF TypeOK, ThreadNext, Register, CallStub, GetCpu, FirstStep, Lock, IsFree,
       Load, Store, Unlock, OutOfBounds, Return, threadVars
  <2>4. CASE Terminated \/ UNCHANGED vars
    BY <2>1, <2>4 DEF Terminated, vars, threadVars
  <2> QED
    BY <2>2, <2>3, <2>4 DEF Next
<1> QED
  BY <1>1, <1>2, TypeCorrect, PTL DEF Spec

\* In regular mode a step loads, stores, or touches neither counter nor register
\* of a thread that is about to store.
Quiet ==
    /\ counter' = counter /\ i' = i
    /\ \A u \in Threads : pc'[u] = "store" =>
          pc[u] = "store" /\ cpu'[u] = cpu[u] /\ reg'[u] = reg[u]

LEMMA RegularSteps ==
    ASSUME TypeOK, NoMutexUsed, [Next]_vars, args.mode = "regular"
    PROVE  Quiet \/ \E t \in Threads : Load(t) \/ Store(t)
<1>1. CASE MainNext
  <2>1. counter' = counter /\ i' = i /\ cpu' = cpu /\ reg' = reg
    BY <1>1 DEF MainNext, ParseArgs, AllocCounters, CreateThread, StartJoining,
         JoinThread, Finished, JoinGarbage, StartSumming, FirstSlot, AddCounter, Report, threadVars
  <2>2. \A u \in Threads : pc'[u] \in {pc[u], "starting"}
    BY <1>1 DEF MainNext, ParseArgs, AllocCounters, CreateThread, StartJoining,
         JoinThread, Finished, JoinGarbage, StartSumming, FirstSlot, AddCounter, Report, threadVars, TypeOK
  <2> QED
    BY <2>1, <2>2 DEF Quiet
<1>2. ASSUME NEW t \in Threads, ThreadNext(t), ~ Load(t), ~ Store(t) PROVE Quiet
  <2>1. ~ Lock(t) /\ ~ Unlock(t) /\ ~ CallStub(t)
    BY DEF NoMutexUsed, Lock, Unlock, CallStub, StubModes
  <2>2. counter' = counter /\ i' = i /\ reg' = reg
    BY <1>2, <2>1 DEF ThreadNext, Register, GetCpu, OutOfBounds, Return, threadVars
  <2>3. pc'[t] # "store" \/ (pc' = pc /\ cpu' = cpu)
    BY <1>2, <2>1 DEF TypeOK, ThreadNext, Register, GetCpu, FirstStep, OutOfBounds, Return, threadVars
  <2>4. \A u \in Threads : u # t => pc'[u] = pc[u] /\ cpu'[u] = cpu[u]
    BY <1>2, <2>1 DEF TypeOK, ThreadNext, Register, GetCpu, FirstStep, OutOfBounds, Return, threadVars
  <2> QED
    BY <2>2, <2>3, <2>4 DEF Quiet
<1>3. CASE Terminated \/ UNCHANGED vars
  BY <1>3 DEF Terminated, vars, threadVars, Quiet
<1> QED
  BY <1>1, <1>2, <1>3 DEF Next

\* Threads are not unborn again.
LEMMA StartedGrows ==
    ASSUME TypeOK, Phases, [Next]_vars
    PROVE  Started \subseteq Started'
<1> SUFFICES ASSUME NEW u \in Threads, pc[u] # "unborn" PROVE pc'[u] # "unborn"
  BY DEF Started
<1>1. CASE MainNext
  BY <1>1 DEF MainNext, ParseArgs, AllocCounters, CreateThread, StartJoining,
     JoinThread, Finished, JoinGarbage, StartSumming, FirstSlot, AddCounter, Report, threadVars, TypeOK
<1>2. ASSUME NEW t \in Threads, ThreadNext(t) PROVE pc'[u] # "unborn"
  BY <1>2 DEF TypeOK, ThreadNext, Register, CallStub, GetCpu, FirstStep, Lock, IsFree,
     Load, Store, Unlock, OutOfBounds, Return, threadVars
<1>3. CASE Terminated \/ UNCHANGED vars
  BY <1>3 DEF Terminated, vars, threadVars
<1> QED
  BY <1>1, <1>2, <1>3 DEF Next

\* If the increments of all threads fit into a word in the end, they always did.
LEMMA FittedBefore ==
    ASSUME TypeOK, Phases, TypeOK', [Next]_vars, Fits'
    PROVE  Fits /\ args.mode = "regular"
<1> DEFINE c == Cardinality(Started)
           r == AsWord(rounds)
<1>1. args' = args
  BY ArgsAreConstant
<1>2. /\ IsFiniteSet(Started) /\ IsFiniteSet(Started') /\ c \in Nat /\ c' \in Nat
      /\ c <= c'
  <2>1. Started \in SUBSET Threads /\ Started' \in SUBSET Threads /\ Started \in SUBSET Started'
    BY StartedGrows DEF Started
  <2>2. IsFiniteSet(Started) /\ IsFiniteSet(Started')
    BY <2>1, ThreadsAndSlotsAreFinite, FS_Subset
  <2> QED
    BY <2>1, <2>2, FS_Subset, FS_CardinalityType
<1>3. r \in Nat /\ r' \in Nat /\ WordSize \in Nat \ {0}
  BY AsWordIsWord, ConstantsAssumption DEF TypeOK
<1>4. CASE ParseArgs
  <2>1. Started = {}
    BY <1>4 DEF ParseArgs, Phases, Started
  <2>2. c = 0
    BY <2>1, FS_EmptySet
  <2>3. c * r = 0
    BY <1>3, <2>2
  <2> QED
    BY <1>1, <1>3, <2>3 DEF Fits
<1>5. CASE rounds' = rounds
  <2>1. r' = r
    BY <1>5 DEF AsWord
  <2> HIDE DEF c, r
  <2>2. c * r <= c' * r
    BY <1>2, <1>3, ProductIsMonotonic
  <2>3. c * r < WordSize
    BY <1>2, <1>3, <2>1, <2>2 DEF Fits, c, r
  <2> QED
    BY <1>1, <2>3 DEF Fits, c, r
<1>6. rounds' = rounds \/ ParseArgs
  BY DEF Next, MainNext, ThreadNext, AllocCounters, CreateThread, StartJoining,
     JoinThread, Finished, JoinGarbage, StartSumming, FirstSlot, AddCounter, Report, Terminated,
     Register, CallStub, GetCpu, FirstStep, Lock, IsFree, Load, Store, Unlock, OutOfBounds, Return,
     vars, mainVars
<1> QED
  BY <1>4, <1>5, <1>6

\* The threads complete at most the calls they were asked for, and while one is
\* inside the operation at least one less.
LEMMA CallsAreBounded ==
    ASSUME TypeOK, RoundsAreCounted
    PROVE  /\ Calls \in Nat
           /\ Calls <= Cardinality(Started) * AsWord(rounds)
           /\ \A t \in Storing : Calls + 1 <= Cardinality(Started) * AsWord(rounds)
<1> DEFINE r == AsWord(rounds)
           asked == [t \in Threads |-> IF t \in Started THEN r ELSE 0]
<1>1. r \in Nat
  BY AsWordIsWord, ConstantsAssumption DEF TypeOK
<1>2. /\ i \in [Threads -> Int] /\ asked \in [Threads -> Int]
      /\ \A t \in Threads : i[t] >= 0 /\ i[t] <= asked[t]
  BY <1>1 DEF TypeOK, RoundsAreCounted, RoundsOf, Started
<1>3. SumFunction(asked) = Cardinality(Started) * r
  <2>1. Started \in SUBSET Threads /\ r \in Int
    BY <1>1 DEF Started
  <2> HIDE DEF r
  <2> QED
    BY <2>1, ThreadsAndSlotsAreFinite, SumOfConstant
<1>4. \A t \in Storing : i[t] + 1 <= asked[t]
  BY <1>1 DEF TypeOK, RoundsAreCounted, RoundsOf, Started, Storing
<1> HIDE DEF asked, r
<1>5. Calls \in Nat
  BY <1>2, ThreadsAndSlotsAreFinite, SumIsNat DEF Calls
<1>6. Calls <= SumFunction(asked)
  BY <1>2, ThreadsAndSlotsAreFinite, SumIsMonotonic DEF Calls
<1>7. ASSUME NEW t \in Storing PROVE Calls + 1 <= SumFunction(asked)
  <2> DEFINE v == i[t] + 1
             more == [i EXCEPT ![t] = v]
  <2>1. t \in Threads /\ v \in Int /\ v <= asked[t] /\ i[t] \in Int
    BY <1>2, <1>4 DEF Storing
  <2>2. SumFunction(more) = SumFunction(i) + (v - i[t])
    <3> HIDE DEF v
    <3> QED
      BY <1>2, <2>1, ThreadsAndSlotsAreFinite, SumOfChanged
  <2>3. more \in [Threads -> Int] /\ \A u \in Threads : more[u] <= asked[u]
    BY <1>2, <2>1
  <2> HIDE DEF more
  <2>4. SumFunction(more) <= SumFunction(asked)
    BY <1>2, <2>3, ThreadsAndSlotsAreFinite, SumIsMonotonic
  <2> QED
    BY <1>5, <2>1, <2>2, <2>4 DEF Calls
<1> QED
  BY <1>3, <1>5, <1>6, <1>7 DEF r

\* Counted values are words; what a thread holds is less than what has been done.
LEMMA CountedAreWords ==
    ASSUME TypeOK
    PROVE  /\ Counted \in [Slots -> 0..(WordSize - 1)]
           /\ \A t \in Threads : cpu[t] \in Slots => Held(t) \in 0..(WordSize - 1)
<1>1. WordSize \in Nat \ {0}
  BY ConstantsAssumption
<1>2. ASSUME NEW a \in 0..(WordSize - 1), NEW b \in 0..(WordSize - 1)
      PROVE  (a - b) % WordSize \in 0..(WordSize - 1)
  <2>1. a - b \in Int
    BY <1>1
  <2> QED
    BY <1>1, <2>1
<1>3. ASSUME NEW s \in Slots
      PROVE  /\ (counter[s] - initial[s]) % WordSize \in 0..(WordSize - 1)
             /\ \A t \in Threads : (reg[t] - initial[s]) % WordSize \in 0..(WordSize - 1)
  <2>1. counter[s] \in 0..(WordSize - 1) /\ initial[s] \in 0..(WordSize - 1)
    BY DEF TypeOK
  <2>2. \A t \in Threads : reg[t] \in 0..(WordSize - 1)
    BY DEF TypeOK
  <2> QED
    BY <1>2, <2>1, <2>2
<1> QED
  BY <1>3 DEF Counted, Held

\* A thread that is about to store holds less than a word can: the increments of
\* all threads fit, and this one is still to come.
LEMMA HeldIsBounded ==
    ASSUME TypeOK, NoMutexUsed, RoundsAreCounted, Fits, NoneInvented, NEW t \in Storing
    PROVE  Held(t) + 1 < WordSize
<1>1. PICK st \in [Slots -> Nat] : Shares(st)
  BY DEF NoneInvented
<1>2. cpu[t] \in Slots /\ t \in Threads
  BY DEF NoMutexUsed, Fits, Storing
<1>3. Held(t) <= st[cpu[t]]
  BY <1>1 DEF Shares
<1>4. st[cpu[t]] <= SumFunction(st)
  BY <1>2, ThreadsAndSlotsAreFinite, SumIsAtLeast
<1>5. Calls + 1 < WordSize /\ Calls \in Nat
  <2> DEFINE all == Cardinality(Started) * AsWord(rounds)
  <2>1. Calls + 1 <= all /\ Calls \in Nat /\ all < WordSize
    BY CallsAreBounded DEF Fits
  <2>2. all \in Int
    <3>1. Cardinality(Started) \in Nat
      BY ThreadsAndSlotsAreFinite, FS_Subset, FS_CardinalityType DEF Started
    <3>2. AsWord(rounds) \in Int
      BY AsWordIsWord DEF TypeOK
    <3> QED
      BY <3>1, <3>2
  <2> HIDE DEF all
  <2> QED
    BY <2>1, <2>2, ConstantsAssumption
<1>6. SumFunction(st) = Calls
  BY <1>1 DEF Shares
<1>7. Held(t) \in Int /\ st[cpu[t]] \in Nat
  BY <1>2, CountedAreWords, ConstantsAssumption
<1> QED
  BY <1>3, <1>4, <1>5, <1>6, <1>7, ConstantsAssumption

\* A load counts what the slot counts.
LEMMA LoadTakesCounted ==
    ASSUME TypeOK, [Next]_vars, NEW t \in Threads, Load(t)
    PROVE  /\ Counted' = Counted /\ i' = i
           /\ t \notin Storing /\ cpu[t] \in Slots
           /\ Storing' = Storing \union {t}
           /\ Held(t)' = Counted[cpu[t]] /\ cpu' = cpu
           /\ \A u \in Storing : Held(u)' = Held(u)
<1>1. initial' = initial /\ counter' = counter /\ cpu' = cpu /\ i' = i /\ cpu[t] \in Slots
  BY InitialIsConstant DEF Load
<1>2. reg' = [reg EXCEPT ![t] = counter[cpu[t]]] /\ pc' = [pc EXCEPT ![t] = "store"] /\ pc[t] = "load"
  BY DEF Load
<1> QED
  BY <1>1, <1>2 DEF Counted, Held, Storing, TypeOK

\* A store adds one to what the thread holds, and completes a call.
LEMMA StoreAddsOne ==
    ASSUME TypeOK, NoMutexUsed, RoundsAreCounted, Fits, NoneInvented, [Next]_vars,
           NEW t \in Threads, Store(t)
    PROVE  /\ t \in Storing /\ cpu[t] \in Slots
           /\ Counted' = [Counted EXCEPT ![cpu[t]] = Held(t) + 1]
           /\ i' = [i EXCEPT ![t] = @ + 1]
           /\ Storing' = Storing \ {t} /\ cpu' = cpu
           /\ \A u \in Storing : Held(u)' = Held(u)
<1>1. t \in Storing /\ cpu[t] \in Slots
  BY DEF Store, Storing, NoMutexUsed, Fits
<1>2. /\ initial' = initial /\ cpu' = cpu /\ reg' = reg
      /\ counter' = [counter EXCEPT ![cpu[t]] = AsWord(reg[t] + 1)]
      /\ pc' = [pc EXCEPT ![t] = "test"] /\ i' = [i EXCEPT ![t] = @ + 1]
  BY InitialIsConstant DEF Store, Fits
<1>3. (((reg[t] + 1) % WordSize) - initial[cpu[t]]) % WordSize = Held(t) + 1
  <2> DEFINE a == -initial[cpu[t]]
             b == reg[t] + 1
             d == reg[t] - initial[cpu[t]]
             one == 1
  <2>1. reg[t] \in Int /\ initial[cpu[t]] \in Int
    BY <1>1, ConstantsAssumption DEF TypeOK
  <2>2. /\ a \in Int /\ b \in Int /\ d \in Int /\ one \in Int /\ WordSize \in Nat \ {0}
        /\ a + b = one + d
    BY <2>1, ConstantsAssumption
  <2>3. b % WordSize \in Int /\ d % WordSize \in Int
    BY <2>2
  <2>4. a + (b % WordSize) = (b % WordSize) - initial[cpu[t]]
    BY <2>1, <2>3
  <2> HIDE DEF a, b, d, one
  <2>5. (a + (b % WordSize)) % WordSize = (a + b) % WordSize
    BY <2>2, RemainderOfSum
  <2>6. (one + (d % WordSize)) % WordSize = (one + d) % WordSize
    BY <2>2, RemainderOfSum
  <2>7. Held(t) = d % WordSize /\ Held(t) \in 0..(WordSize - 1) /\ Held(t) + 1 < WordSize
    BY <1>1, CountedAreWords, HeldIsBounded DEF Held, d
  <2>8. (one + Held(t)) % WordSize = Held(t) + 1
    BY <2>2, <2>7 DEF one
  <2> QED
    BY <2>2, <2>4, <2>5, <2>6, <2>7, <2>8 DEF b
<1>4. Counted' = [Counted EXCEPT ![cpu[t]] = Held(t) + 1]
  BY <1>1, <1>2, <1>3 DEF Counted, TypeOK, AsWord
<1> QED
  BY <1>1, <1>2, <1>4 DEF Storing, Held, TypeOK

\* Any other step leaves what is counted and held.
LEMMA QuietKeepsCounted ==
    ASSUME TypeOK, [Next]_vars, Quiet
    PROVE  /\ Counted' = Counted /\ i' = i /\ Storing' \subseteq Storing
           /\ \A u \in Storing' : cpu'[u] = cpu[u] /\ Held(u)' = Held(u)
<1>1. initial' = initial
  BY InitialIsConstant
<1> QED
  BY <1>1 DEF Quiet, Counted, Storing, Held

\* A step invents no increment: a stored value was loaded and one was added.
LEMMA NoneInventedStep ==
    TypeOK /\ TypeOK' /\ Phases /\ NoMutexUsed /\ RoundsAreCounted /\ NoneInvented
      /\ [Next]_vars => NoneInvented'
<1> SUFFICES ASSUME TypeOK, TypeOK', Phases, NoMutexUsed, RoundsAreCounted, NoneInvented,
                    [Next]_vars, Fits'
             PROVE  \E st \in [Slots -> Nat] : Shares(st)'
  BY DEF NoneInvented
<1>1. Fits /\ args.mode = "regular"
  BY FittedBefore
<1>2. PICK st \in [Slots -> Nat] : Shares(st)
  BY <1>1 DEF NoneInvented
<1>3. CASE Quiet
  <2>1. Shares(st)'
    BY <1>2, <1>3, QuietKeepsCounted DEF Shares, Calls
  <2> QED
    BY <2>1
<1>4. ASSUME NEW t \in Threads, Load(t) PROVE \E sh \in [Slots -> Nat] : Shares(sh)'
  <2>1. Shares(st)'
    BY <1>2, <1>4, LoadTakesCounted DEF Shares, Calls
  <2> QED
    BY <2>1
<1>5. ASSUME NEW t \in Threads, Store(t) PROVE \E sh \in [Slots -> Nat] : Shares(sh)'
  <2> DEFINE c == cpu[t]
             v == st[c] + 1
             w == i[t] + 1
             sh == [st EXCEPT ![c] = v]
  <2>1. /\ t \in Storing /\ c \in Slots
        /\ Counted' = [Counted EXCEPT ![c] = Held(t) + 1]
        /\ i' = [i EXCEPT ![t] = w]
        /\ Storing' = Storing \ {t} /\ cpu' = cpu
        /\ \A u \in Storing : Held(u)' = Held(u)
    BY <1>1, <1>5, StoreAddsOne
  <2>2. /\ Counted \in [Slots -> 0..(WordSize - 1)] /\ WordSize \in Nat
        /\ \A u \in Storing : Held(u) \in 0..(WordSize - 1)
    BY <1>1, CountedAreWords, ConstantsAssumption DEF NoMutexUsed, Storing
  <2>3. /\ st \in [Slots -> Int] /\ v \in Nat /\ v \in Int /\ w \in Int /\ i \in [Threads -> Int]
        /\ st[c] \in Int /\ i[t] \in Int
    BY <2>1 DEF TypeOK
  <2>4. SumFunction(sh) = SumFunction(st) + (v - st[c])
    <3> HIDE DEF v, c
    <3> QED
      BY <2>1, <2>3, ThreadsAndSlotsAreFinite, SumOfChanged
  <2>5. SumFunction(i') = SumFunction(i) + (w - i[t])
    <3> HIDE DEF w
    <3> QED
      BY <2>1, <2>3, ThreadsAndSlotsAreFinite, SumOfChanged
  <2>6. SumFunction(i) \in Int
    BY <2>3, ThreadsAndSlotsAreFinite, SumIsInt
  <2>7. SumFunction(sh) = Calls'
    BY <1>2, <2>3, <2>4, <2>5, <2>6 DEF Shares, Calls
  <2>8. Held(t) <= st[c] /\ \A s \in Slots : Counted[s] <= st[s]
    BY <1>2, <2>1 DEF Shares
  <2>9. \A s \in Slots : Counted'[s] <= sh[s]
    BY <2>1, <2>2, <2>3, <2>8
  <2>10. ASSUME NEW u \in Storing' PROVE Held(u)' <= sh[cpu'[u]]
    <3>1. u \in Storing /\ cpu'[u] = cpu[u] /\ cpu[u] \in Slots
      BY <1>1, <2>1 DEF NoMutexUsed, Storing
    <3>2. Held(u)' = Held(u) /\ Held(u) <= st[cpu[u]]
      BY <1>2, <2>1, <3>1 DEF Shares
    <3>3. st[cpu[u]] \in Nat /\ st[cpu[u]] <= sh[cpu[u]] /\ Held(u) \in Int
      BY <2>2, <2>3, <3>1
    <3>4. sh[cpu[u]] \in Int
      BY <2>3, <3>1
    <3> HIDE DEF sh
    <3> QED
      BY <3>1, <3>2, <3>3, <3>4
  <2>11. sh \in [Slots -> Nat]
    BY <2>3
  <2> HIDE DEF sh
  <2>12. PICK now \in [Slots -> Nat] : now = sh
    BY <2>11
  <2>13. Shares(now)'
    BY <2>7, <2>9, <2>10, <2>12 DEF Shares
  <2> QED
    BY <2>13
<1> QED
  BY <1>1, <1>3, <1>4, <1>5, RegularSteps

\* After its first store a thread cannot wipe out all that was counted.
LEMMA TwoSurviveStep ==
    TypeOK /\ TypeOK' /\ Phases /\ NoMutexUsed /\ RoundsAreCounted /\ NoneInvented /\ TwoSurvive
      /\ [Next]_vars => TwoSurvive'
<1> SUFFICES ASSUME TypeOK, TypeOK', Phases, NoMutexUsed, RoundsAreCounted, NoneInvented, TwoSurvive,
                    [Next]_vars, Fits', NEW t \in Threads, i'[t] >= 1
             PROVE  /\ \E s \in Slots : Counted'[s] >= 1
                    /\ t \in Storing' /\ Held(t)' = 0
                          => \E s \in Slots \ {cpu'[t]} : Counted'[s] >= 1
                    /\ TwoCounted' \/ \E u \in Threads : StoredOnce(u)'
  BY DEF TwoSurvive
<1>1. Fits /\ args.mode = "regular"
  BY FittedBefore
<1>2. ASSUME NEW u \in Threads, i[u] >= 1
      PROVE  /\ \E s \in Slots : Counted[s] >= 1
             /\ u \in Storing /\ Held(u) = 0 => \E s \in Slots \ {cpu[u]} : Counted[s] >= 1
             /\ TwoCounted \/ \E x \in Threads : StoredOnce(x)
  BY <1>1, <1>2 DEF TwoSurvive
<1>3. CASE Quiet
  <2>1. /\ Counted' = Counted /\ i' = i /\ Storing' \subseteq Storing
        /\ \A u \in Storing' : cpu'[u] = cpu[u] /\ Held(u)' = Held(u)
    BY <1>3, QuietKeepsCounted
  <2>2. \A u \in Threads : StoredOnce(u) => StoredOnce(u)'
    BY <2>1 DEF StoredOnce
  <2>3. TwoCounted => TwoCounted'
    BY <2>1 DEF TwoCounted
  <2> QED
    BY <1>2, <2>1, <2>2, <2>3
<1>4. ASSUME NEW v \in Threads, Load(v)
      PROVE  /\ \E s \in Slots : Counted'[s] >= 1
             /\ t \in Storing' /\ Held(t)' = 0
                   => \E s \in Slots \ {cpu'[t]} : Counted'[s] >= 1
             /\ TwoCounted' \/ \E u \in Threads : StoredOnce(u)'
  <2>1. /\ Counted' = Counted /\ i' = i /\ cpu' = cpu
        /\ v \notin Storing /\ Storing' = Storing \union {v}
        /\ Held(v)' = Counted[cpu[v]]
        /\ \A u \in Storing : Held(u)' = Held(u)
    BY <1>4, LoadTakesCounted
  <2>2. \A u \in Threads : StoredOnce(u) => StoredOnce(u)'
    BY <2>1 DEF StoredOnce
  <2>3. TwoCounted => TwoCounted'
    BY <2>1 DEF TwoCounted
  <2>4. i[t] >= 1
    BY <2>1
  <2>5. PICK s \in Slots : Counted[s] >= 1
    BY <1>2, <2>4
  <2>6. t = v /\ Held(t)' = 0 => s # cpu[t]
    BY <2>1, <2>5 DEF Held
  <2> QED
    BY <1>2, <2>1, <2>2, <2>3, <2>4, <2>5, <2>6
<1>5. ASSUME NEW v \in Threads, Store(v)
      PROVE  /\ \E s \in Slots : Counted'[s] >= 1
             /\ t \in Storing' /\ Held(t)' = 0
                   => \E s \in Slots \ {cpu'[t]} : Counted'[s] >= 1
             /\ TwoCounted' \/ \E u \in Threads : StoredOnce(u)'
  <2> DEFINE c == cpu[v]
  <2>1. /\ v \in Storing /\ c \in Slots
        /\ Counted' = [Counted EXCEPT ![c] = Held(v) + 1]
        /\ i' = [i EXCEPT ![v] = @ + 1]
        /\ Storing' = Storing \ {v} /\ cpu' = cpu
        /\ \A u \in Storing : Held(u)' = Held(u)
    BY <1>1, <1>5, StoreAddsOne
  <2>2. Held(v) \in Nat /\ Counted \in [Slots -> Nat] /\ i \in [Threads -> Nat]
    BY <2>1, CountedAreWords, ConstantsAssumption DEF TypeOK
  <2>3. Counted'[c] = Held(v) + 1 /\ \A s \in Slots : s # c => Counted'[s] = Counted[s]
    BY <2>1, <2>2
  <2>4. \A s \in Slots : Counted[s] >= 1 => Counted'[s] >= 1
    BY <2>2, <2>3
  <2>5. \E s \in Slots : Counted'[s] >= 1
    BY <2>1, <2>2, <2>3
  <2>6. ASSUME t \in Storing', Held(t)' = 0
        PROVE  \E s \in Slots \ {cpu'[t]} : Counted'[s] >= 1
    <3>1. t # v /\ t \in Storing /\ Held(t) = 0 /\ i[t] >= 1 /\ cpu'[t] = cpu[t]
      BY <2>1, <2>2, <2>6
    <3>2. PICK s \in Slots \ {cpu[t]} : Counted[s] >= 1
      BY <1>2, <3>1
    <3> QED
      BY <2>4, <3>1, <3>2
  <2>7. CASE Held(v) >= 1
    <3>1. Counted'[c] >= 2
      BY <2>2, <2>3, <2>7
    <3>2. TwoCounted'
      BY <2>1, <3>1 DEF TwoCounted
    <3> QED
      BY <2>5, <2>6, <3>2
  <2>8. CASE Held(v) = 0 /\ i[v] >= 1
    <3>1. PICK s \in Slots \ {c} : Counted[s] >= 1
      BY <1>2, <2>1, <2>8
    <3>2. Counted'[s] >= 1 /\ Counted'[c] >= 1 /\ s # c /\ s \in Slots
      BY <2>2, <2>3, <2>4, <3>1
    <3> QED
      BY <2>1, <2>5, <2>6, <3>2 DEF TwoCounted
  <2>9. CASE Held(v) = 0 /\ i[v] = 0
    <3>1. i'[v] = 1 /\ v \notin Storing'
      BY <2>1, <2>2, <2>9
    <3> QED
      BY <2>5, <2>6, <3>1 DEF StoredOnce
  <2>10. Held(v) >= 1 \/ (Held(v) = 0 /\ (i[v] >= 1 \/ i[v] = 0))
    BY <2>2
  <2> QED
    BY <2>5, <2>6, <2>7, <2>8, <2>9, <2>10
<1> QED
  BY <1>1, <1>3, <1>4, <1>5, RegularSteps

\* Steps of a thread that is alone lose nothing.
LEMMA LonelyStep ==
    TypeOK /\ TypeOK' /\ Phases /\ NoMutexUsed /\ RoundsAreCounted /\ NoneInvented /\ LonelyIsExact
      /\ [Next]_vars => LonelyIsExact'
<1> SUFFICES ASSUME TypeOK, TypeOK', Phases, NoMutexUsed, RoundsAreCounted, NoneInvented, LonelyIsExact,
                    [Next]_vars, Fits', \A t, u \in Started' : t = u
             PROVE  /\ SumFunction(Counted') = Calls'
                    /\ \A t \in Storing' : Held(t)' = Counted'[cpu'[t]]
  BY DEF LonelyIsExact
<1>1. Fits /\ args.mode = "regular"
  BY FittedBefore
<1>2. \A t, u \in Started : t = u
  BY StartedGrows
<1>3. /\ SumFunction(Counted) = Calls
      /\ \A t \in Storing : Held(t) = Counted[cpu[t]]
  BY <1>1, <1>2 DEF LonelyIsExact
<1>4. CASE Quiet
  BY <1>3, <1>4, QuietKeepsCounted DEF Calls
<1>5. ASSUME NEW v \in Threads, Load(v)
      PROVE  /\ SumFunction(Counted') = Calls'
             /\ \A t \in Storing' : Held(t)' = Counted'[cpu'[t]]
  BY <1>3, <1>5, LoadTakesCounted DEF Calls
<1>6. ASSUME NEW v \in Threads, Store(v)
      PROVE  /\ SumFunction(Counted') = Calls'
             /\ \A t \in Storing' : Held(t)' = Counted'[cpu'[t]]
  <2> DEFINE c == cpu[v]
             h == Held(v) + 1
             w == i[v] + 1
  <2>1. /\ v \in Storing /\ c \in Slots
        /\ Counted' = [Counted EXCEPT ![c] = h]
        /\ i' = [i EXCEPT ![v] = w]
        /\ Storing' = Storing \ {v}
    BY <1>1, <1>6, StoreAddsOne
  <2>2. Storing \subseteq Started
    BY DEF Storing, Started
  <2>3. Storing' = {}
    BY <1>2, <2>1, <2>2
  <2>4. /\ Counted \in [Slots -> Int] /\ i \in [Threads -> Int] /\ h \in Int /\ w \in Int
        /\ Counted[c] \in Int /\ i[v] \in Int /\ h = Counted[c] + 1
    BY <1>3, <2>1, CountedAreWords, ConstantsAssumption DEF TypeOK
  <2>5. SumFunction(i') = SumFunction(i) + (w - i[v])
    <3> HIDE DEF w
    <3> QED
      BY <2>1, <2>4, ThreadsAndSlotsAreFinite, SumOfChanged
  <2>6. SumFunction(Counted') = SumFunction(Counted) + (h - Counted[c])
    <3> HIDE DEF h, c
    <3> QED
      BY <2>1, <2>4, ThreadsAndSlotsAreFinite, SumOfChanged
  <2>7. SumFunction(i) \in Int
    BY <2>4, ThreadsAndSlotsAreFinite, SumIsInt
  <2> QED
    BY <1>3, <2>3, <2>4, <2>5, <2>6, <2>7 DEF Calls
<1> QED
  BY <1>1, <1>4, <1>5, <1>6, RegularSteps

\* At the beginning nothing is counted and no call is complete.
LEMMA LossesInit ==
    Init => NoneInvented /\ TwoSurvive /\ LonelyIsExact
<1> SUFFICES ASSUME Init PROVE NoneInvented /\ TwoSurvive /\ LonelyIsExact
  OBVIOUS
<1> DEFINE none == [s \in Slots |-> IF s \in {} THEN 0 ELSE 0]
           idle == [t \in Threads |-> IF t \in {} THEN 0 ELSE 0]
<1>1. \A s \in Slots : (counter[s] - initial[s]) % WordSize = 0
  <2>1. \A s \in Slots : counter[s] \in HeapWords /\ initial[s] = counter[s]
    BY DEF Init
  <2>2. \A s \in Slots : counter[s] \in Int
    <3>1. 0..(WordSize - 1) \subseteq Int /\ HeapWords \subseteq 0..(WordSize - 1)
      BY ConstantsAssumption
    <3> QED
      BY <2>1, <3>1
  <2>3. \A s \in Slots : counter[s] - initial[s] = 0
    BY <2>1, <2>2
  <2>4. 0 % WordSize = 0
    BY ConstantsAssumption
  <2> QED
    BY <2>3, <2>4
<1>2. Counted = none /\ i = idle /\ Storing = {}
  BY <1>1 DEF Counted, Init, Storing
<1>3. SumFunction(none) = Cardinality({}) * 0 /\ SumFunction(idle) = Cardinality({}) * 0
  BY ThreadsAndSlotsAreFinite, SumOfConstant
<1>4. SumFunction(none) = 0 /\ SumFunction(idle) = 0
  BY <1>3, FS_EmptySet
<1>5. none \in [Slots -> Nat] /\ \A s \in Slots : none[s] = 0
  OBVIOUS
<1> HIDE DEF none, idle
<1>6. Shares(none)
  <2>1. ASSUME NEW s \in Slots PROVE Counted[s] <= none[s]
    <3>1. none[s] = 0 /\ Counted[s] = none[s]
      BY <1>2, <1>5
    <3> QED
      BY <3>1
  <2> QED
    BY <1>2, <1>4, <2>1 DEF Shares, Calls
<1>7. \A t \in Threads : ~ (i[t] >= 1)
  BY DEF Init
<1>8. TwoSurvive
  BY <1>7 DEF TwoSurvive
<1>9. NoneInvented
  BY <1>5, <1>6 DEF NoneInvented
<1>10. LonelyIsExact
  BY <1>2, <1>4 DEF LonelyIsExact, Calls
<1> QED
  BY <1>8, <1>9, <1>10

\* What the slots count is bounded from both sides at every time.
LEMMA LossesInvariant == Spec => [](NoneInvented /\ TwoSurvive /\ LonelyIsExact)
  BY LossesInit, NoneInventedStep, TwoSurviveStep, LonelyStep, TypeCorrect, PhasesInvariant,
     NoMutexInvariant, RoundsInvariant, PTL DEF Spec

\* What main() finds more in the counters than the heap had left there is what the
\* slots count, as a word.
LEMMA CountedAddUp ==
    ASSUME TypeOK
    PROVE  /\ SumFunction(Counted) \in Nat
           /\ (Total(counter) - Total(initial)) % WordSize = SumFunction(Counted) % WordSize
<1> DEFINE W == WordSize
           minus == -1
           diff == [s \in Slots |-> counter[s] - initial[s]]
           wraps == [s \in Slots |-> IF counter[s] < initial[s] THEN 1 ELSE 0]
           c == SumFunction(counter)
           a == SumFunction(initial)
           d == SumFunction(Counted)
           k == SumFunction(wraps)
<1>1. W \in Nat \ {0} /\ W \in Int /\ minus \in Int
  BY ConstantsAssumption
<1>2. \A s \in Slots : /\ counter[s] \in 0..(W - 1) /\ counter[s] \in Int
                       /\ initial[s] \in 0..(W - 1) /\ initial[s] \in Int
  BY <1>1 DEF TypeOK
<1>3. /\ counter \in [Slots -> Int] /\ initial \in [Slots -> Int]
      /\ diff \in [Slots -> Int] /\ wraps \in [Slots -> Int]
  BY <1>2 DEF TypeOK
<1>4. \A s \in Slots : diff[s] = counter[s] + minus * initial[s]
  BY <1>2
<1>5. Counted \in [Slots -> Int] /\ \A s \in Slots : Counted[s] >= 0
  BY <1>1, CountedAreWords
<1>6. ASSUME NEW s \in Slots PROVE Counted[s] = diff[s] + W * wraps[s]
  <2>1. CASE counter[s] < initial[s]
    <3>1. diff[s] + W \in 0..(W - 1) /\ diff[s] = W * (-1) + (diff[s] + W) /\ -1 \in Int
      BY <1>1, <1>2, <2>1
    <3>2. diff[s] % W = diff[s] + W
      BY <1>1, <1>3, <3>1, RemainderOfMultiple
    <3> QED
      BY <1>1, <2>1, <3>2 DEF Counted
  <2>2. CASE ~ (counter[s] < initial[s])
    <3>1. diff[s] \in 0..(W - 1)
      BY <1>1, <1>2, <2>2
    <3>2. diff[s] % W = diff[s]
      BY <1>1, <3>1
    <3> QED
      BY <1>1, <2>2, <3>1, <3>2 DEF Counted
  <2> QED
    BY <2>1, <2>2
<1> HIDE DEF minus, diff, wraps, W
<1>7. SumFunction(diff) = c + minus * a
  BY <1>1, <1>3, <1>4, ThreadsAndSlotsAreFinite, SumsCombine
<1>8. d = SumFunction(diff) + W * k
  <2>1. \A s \in Slots : Counted[s] = diff[s] + W * wraps[s]
    BY <1>6
  <2>2. /\ IsFiniteSet(Slots) /\ diff \in [Slots -> Int] /\ wraps \in [Slots -> Int]
        /\ Counted \in [Slots -> Int] /\ W \in Int
    BY <1>1, <1>3, <1>5, ThreadsAndSlotsAreFinite
  <2> DEFINE h == Counted
  <2>3. h \in [Slots -> Int] /\ \A s \in Slots : h[s] = diff[s] + W * wraps[s]
    BY <2>1, <2>2
  <2> HIDE DEF h
  <2> HIDE DEF c, a, d, k
  <2>4. SumFunction(h) = SumFunction(diff) + W * SumFunction(wraps)
    <3> DEFINE f == diff
               g == wraps
    <3>1. /\ IsFiniteSet(Slots) /\ W \in Int
          /\ f \in [Slots -> Int] /\ g \in [Slots -> Int] /\ h \in [Slots -> Int]
          /\ \A s \in Slots : h[s] = f[s] + W * g[s]
      BY <2>2, <2>3
    <3> HIDE DEF f, g
    <3>2. SumFunction(h) = SumFunction(f) + W * SumFunction(g)
      BY <3>1, SumsCombine, SMTT(30)
    <3> QED
      BY <3>2 DEF f, g
  <2> QED
    BY <2>4 DEF h, d, k
<1>9. c \in Int /\ a \in Int /\ k \in Int /\ d \in Nat
  BY <1>3, <1>5, ThreadsAndSlotsAreFinite, SumIsInt, SumIsNat
<1> HIDE DEF c, a, d, k
<1>10. d = (c - a) + W * k
  BY <1>1, <1>7, <1>8, <1>9 DEF minus
<1> DEFINE x == c - a
           m == a % W
           y == c - m
           j == a \div W
           z == (-m) + c
<1>11. m \in Int /\ j \in Int /\ a = W * j + m
  BY <1>1, <1>9
<1>12. x \in Int /\ y \in Int /\ y = x + W * j
  <2>1. W * j \in Int
    BY <1>1, <1>11
  <2> QED
    BY <1>9, <1>11, <2>1
<1>13. ((c % W) - m) % W = y % W
  <2> DEFINE b == -m
  <2>1. b \in Int /\ c % W \in Int /\ b + (c % W) = (c % W) - m /\ b + c = y
    BY <1>1, <1>9, <1>11
  <2> HIDE DEF b, m, y
  <2>2. (b + (c % W)) % W = (b + c) % W
    BY <1>1, <1>9, <2>1, RemainderOfSum
  <2> QED
    BY <2>1, <2>2
<1> HIDE DEF x, m, y, j
<1>14. y % W = x % W
  BY <1>1, <1>11, <1>12, RemainderShifted
<1>15. d % W = x % W
  BY <1>1, <1>9, <1>10, <1>12, RemainderShifted DEF x
<1>16. ((c % W) - m) % W = d % W
  BY <1>13, <1>14, <1>15
<1> QED
  BY <1>9, <1>16 DEF Total, c, a, d, m, W

\* Whatever the interleaving, the racy operation counts no more than was asked for
\* and, unless nothing was, no less than two; a thread that is alone loses nothing.
\* This is what main() reports, for every number of threads, CPUs and rounds.
THEOREM RegularLosesWithinBounds == Spec => []RegularLossBounds
<1>1. TypeOK /\ Phases /\ RoundsAreCounted /\ SummedSoFar
        /\ NoneInvented /\ TwoSurvive /\ LonelyIsExact => RegularLossBounds
  <2> DEFINE r == AsWord(rounds)
             all == Cardinality(Started) * r
             d == SumFunction(Counted)
  <2> SUFFICES ASSUME TypeOK, Phases, RoundsAreCounted, SummedSoFar,
                      NoneInvented, TwoSurvive, LonelyIsExact,
                      main = "exited", args.mode = "regular", all < WordSize
               PROVE  LET counted == (sum - Total(initial)) % WordSize
                      IN  /\ counted <= all
                          /\ Started # {} => counted >= IF r >= 2 THEN 2 ELSE r
                          /\ Cardinality(Started) = 1 => counted = r
    BY DEF RegularLossBounds, Reported, Started
  <2>1. Fits /\ WordSize \in Nat \ {0}
    BY ConstantsAssumption DEF Fits
  <2>2. r \in Nat /\ r \in Int
    BY <2>1, AsWordIsWord DEF TypeOK
  <2>3. Started \in SUBSET Threads /\ IsFiniteSet(Started) /\ Cardinality(Started) \in Nat
    <3>1. Started \in SUBSET Threads
      BY DEF Started
    <3> QED
      BY <3>1, ThreadsAndSlotsAreFinite, FS_Subset, FS_CardinalityType
  <2>4. all \in Nat
    BY <2>2, <2>3
  <2>5. \A t \in Threads : i[t] = IF t \in Started THEN r ELSE 0
    <3>1. \A t \in Threads : pc[t] \in {"done", "unborn"} /\ RoundsOf(t)
      BY DEF Phases, JoinedBeforeSum, RoundsAreCounted
    <3> QED
      BY <3>1 DEF RoundsOf, Started
  <2>6. i = [t \in Threads |-> IF t \in Started THEN r ELSE 0]
    BY <2>5 DEF TypeOK
  <2>7. Calls = all
    <3> HIDE DEF r
    <3> QED
      BY <2>2, <2>3, <2>6, ThreadsAndSlotsAreFinite, SumOfConstant DEF Calls
  <2>8. /\ Counted \in [Slots -> Nat] /\ Counted \in [Slots -> Int]
        /\ \A s \in Slots : Counted[s] \in Nat
    BY <2>1, CountedAreWords
  <2>9. d <= all
    <3>1. PICK st \in [Slots -> Nat] : Shares(st)
      BY <2>1 DEF NoneInvented
    <3>2. /\ SumFunction(st) = all /\ \A s \in Slots : Counted[s] <= st[s]
          /\ st \in [Slots -> Int]
      BY <2>7, <3>1 DEF Shares
    <3> QED
      BY <2>8, <3>2, ThreadsAndSlotsAreFinite, SumIsMonotonic
  <2>10. d \in Nat /\ (sum - Total(initial)) % WordSize = d % WordSize
    BY CountedAddUp DEF SummedSoFar
  <2>11. (sum - Total(initial)) % WordSize = d
    <3> HIDE DEF d, all
    <3>1. d % WordSize = d
      BY <2>1, <2>4, <2>9, <2>10
    <3> QED
      BY <2>10, <3>1
  <2>12. ASSUME Started # {}, r >= 1
         PROVE  d >= 1 /\ (r >= 2 => d >= 2)
    <3>1. PICK t \in Started : TRUE
      BY <2>12
    <3>2. t \in Threads /\ i[t] >= 1
      BY <2>3, <2>5, <2>12, <3>1
    <3>3. PICK s \in Slots : Counted[s] >= 1
      BY <2>1, <3>2 DEF TwoSurvive
    <3>4. \A x \in Slots : /\ Counted[x] <= d
                           /\ \A y \in Slots \ {x} : Counted[x] + Counted[y] <= d
      BY <2>8, ThreadsAndSlotsAreFinite, SumIsAtLeast
    <3> HIDE DEF d
    <3>5. d >= 1
      BY <2>8, <2>10, <3>3, <3>4
    <3>6. ASSUME r >= 2 PROVE d >= 2
      <4>1. \A u \in Threads : ~ StoredOnce(u)
        BY <2>2, <2>5, <3>6 DEF StoredOnce
      <4>2. TwoCounted
        BY <2>1, <3>2, <4>1 DEF TwoSurvive
      <4>3. CASE \E x \in Slots : Counted[x] >= 2
        BY <2>8, <2>10, <3>4, <4>3
      <4>4. CASE \E x, y \in Slots : x # y /\ Counted[x] >= 1 /\ Counted[y] >= 1
        <5>1. PICK x \in Slots, y \in Slots : x # y /\ Counted[x] >= 1 /\ Counted[y] >= 1
          BY <4>4
        <5>2. Counted[x] + Counted[y] <= d
          BY <3>4, <5>1
        <5> QED
          BY <2>8, <2>10, <5>1, <5>2
      <4> QED
        BY <4>2, <4>3, <4>4 DEF TwoCounted
    <3> QED
      BY <3>5, <3>6
  <2>13. ASSUME Cardinality(Started) = 1 PROVE d = r
    <3>1. \A t, u \in Started : t = u
      BY <2>3, <2>13, FS_Singleton
    <3>2. d = Calls
      BY <2>1, <3>1 DEF LonelyIsExact
    <3> QED
      BY <2>2, <2>7, <2>13, <3>2
  <2> HIDE DEF d, r, all
  <2> QED
    BY <2>2, <2>9, <2>10, <2>11, <2>12, <2>13
<1> QED
  BY <1>1, TypeCorrect, PhasesInvariant, RoundsInvariant, SummedInvariant, LossesInvariant, PTL
=============================================================================
