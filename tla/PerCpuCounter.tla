---------------------------- MODULE PerCpuCounter ----------------------------
(***************************************************************************)
(* The benchmark of 23-rseq (rseq.c, rseq-asm.S): main() starts NTHREADS   *)
(* threads that each call the chosen operation rounds times, joins them,   *)
(* adds up the CPU-local counters and prints whether the threads counted   *)
(* correctly.                                                              *)
(*                                                                         *)
(* A thread may be migrated between any two of its steps, so the CPU that  *)
(* getcpu() returned is only a slot number afterwards: two threads may be  *)
(* working on the same slot at the same time.  The increment               *)
(*     counters[cpu_id].counter += 1                                       *)
(* is a load and a store.  The operations that the repository ships as     *)
(* stubs (getcpu-atomic, rseq-atomic, rseq) return 0 and touch nothing.    *)
(***************************************************************************)
EXTENDS Integers, FiniteSets, Functions

CONSTANTS NTHREADS,       \* atoi(argv[1])
          CPUS,           \* get_nprocs(): how many CPUs are online
          CpuIds,         \* the numbers of the online CPUs (getcpu's results)
          ModeArgs,       \* values of argv[2] that are tried
          RoundArgs,      \* values of atoi(argv[3]) that are tried
          BaseRounds,     \* initial ROUNDS_PER_THREAD (50000000)
          IntHalf,        \* an int ranges over -IntHalf .. IntHalf-1 (2^31)
          WordSize,       \* number of values of a uint64_t
          HeapWords,      \* what memory from aligned_alloc() may contain
          CreateMayFail,  \* pthread_create() may fail (EAGAIN)
          RegisterMayFail \* memalign() or rseq(2) may fail: both are called only
                          \* in a build without sys/rseq.h

ASSUME ConstantsAssumption ==
    /\ NTHREADS \in Nat
    /\ CPUS \in Nat \ {0}
    /\ IsFiniteSet(CpuIds) /\ CpuIds \subseteq Nat /\ Cardinality(CpuIds) = CPUS
    /\ RoundArgs \subseteq Int
    /\ BaseRounds \in Nat
    /\ IntHalf \in Nat \ {0}
    /\ WordSize \in Nat \ {0}
    /\ HeapWords \subseteq 0..(WordSize - 1)
    /\ CreateMayFail \in BOOLEAN
    /\ RegisterMayFail \in BOOLEAN

Threads == 0..(NTHREADS - 1)
Slots   == 0..(CPUS - 1)
Nobody  == -1

StubModes == {"getcpu-atomic", "rseq-atomic", "rseq"}
Modes     == {"regular", "lock"} \union StubModes

\* argc counts the program name; argv[3] is looked at only if argc = 4.
Invocations == [argc : 2..5, mode : ModeArgs, rounds : RoundArgs]

VARIABLES args,     \* the command line
          main,     \* where main() is
          rounds,   \* ROUNDS_PER_THREAD, an int
          n,        \* loop index i of main()'s create, join and sum loops
          counter,  \* counter[s]: args.counters[s].counter
          mutex,    \* mutex[s]: owner of args.counters[s].mutex
          pc,       \* pc[t]: where thread t is
          i,        \* i[t]: calls of the operation that have returned
          cpu,      \* cpu[t]: local cpu_id of the operation
          reg,      \* reg[t]: the register between load and store
          sum,      \* the total main() computes
          state,    \* what main() prints as state=
          initial   \* history: what the counters contained when allocated

mainVars   == <<args, main, rounds, n, sum, state>>
threadVars == <<pc, i, cpu, reg>>
vars == <<mainVars, threadVars, counter, mutex, initial>>

-----------------------------------------------------------------------------
\* Mutant: a counter that grows beyond its word.
AsWordUnbounded(x) == x

\* An int after signed wrap-around, and its conversion to uint64_t.
AsInt(x) == ((x + IntHalf) % (2 * IntHalf)) - IntHalf
AsWord(x) == x % WordSize

Total(f) == SumFunction(f) % WordSize

Init ==
    /\ args \in Invocations
    /\ main = "parse"
    /\ rounds = BaseRounds
    /\ n = 0
    /\ counter \in [Slots -> HeapWords]
    /\ initial = counter
    /\ mutex = [s \in Slots |-> Nobody]
    /\ pc = [t \in Threads |-> "unborn"]
    /\ i = [t \in Threads |-> 0]
    /\ cpu = [t \in Threads |-> 0]
    /\ reg = [t \in Threads |-> 0]
    /\ sum = 0
    /\ state = "none"

-----------------------------------------------------------------------------
(* main() *)

\* Too few arguments or an unknown MODE end the program in usage().
ParseArgs ==
    /\ main = "parse"
    /\ main' = IF args.argc < 3 \/ args.mode \notin Modes THEN "usage" ELSE "alloc"
    /\ rounds' = IF args.argc = 4 THEN AsInt(rounds * args.rounds) ELSE rounds
    /\ UNCHANGED <<args, n, sum, state, threadVars, counter, mutex, initial>>

\* aligned_alloc() does not clear the array: the counters keep what the heap
\* held.  It or the first clock_gettime() may fail, which ends in die().
AllocCounters ==
    /\ main = "alloc"
    /\ main' \in {"create", "failed"}
    /\ mutex' = [s \in Slots |-> Nobody]
    /\ UNCHANGED <<args, rounds, n, sum, state, threadVars, counter, initial>>

\* The result of pthread_create() is not looked at.
CreateThread ==
    /\ main = "create"
    /\ n < NTHREADS
    /\ \/ pc' = [pc EXCEPT ![n] = "starting"]
       \/ CreateMayFail /\ UNCHANGED pc
    /\ n' = n + 1
    /\ UNCHANGED <<args, main, rounds, sum, state, i, cpu, reg, counter, mutex, initial>>

StartJoining ==
    /\ main = "create"
    /\ n = NTHREADS
    /\ main' = "join"
    /\ n' = 0
    /\ UNCHANGED <<args, rounds, sum, state, threadVars, counter, mutex, initial>>

\* What pthread_join() waits for.  Mutant: it does not wait.
FinishedUnchecked(t) == TRUE

Finished(t) == pc[t] = "done"

JoinThread ==
    /\ main = "join"
    /\ n < NTHREADS
    /\ Finished(n)
    /\ n' = n + 1
    /\ UNCHANGED <<args, main, rounds, sum, state, threadVars, counter, mutex, initial>>

\* threads[n] was never written: pthread_join() on it crashes or returns ESRCH.
JoinGarbage ==
    /\ main = "join"
    /\ n < NTHREADS
    /\ pc[n] = "unborn"
    /\ \/ main' = "crashed" /\ UNCHANGED n
       \/ n' = n + 1 /\ UNCHANGED main
    /\ UNCHANGED <<args, rounds, sum, state, threadVars, counter, mutex, initial>>

\* Mutant: the loop over the counters begins at 1.
FirstSlotSkipped == 1

FirstSlot == 0

\* The second clock_gettime() may fail.
StartSumming ==
    /\ main = "join"
    /\ n = NTHREADS
    /\ main' \in {"sum", "failed"}
    /\ n' = FirstSlot
    /\ UNCHANGED <<args, rounds, sum, state, threadVars, counter, mutex, initial>>

AddCounter ==
    /\ main = "sum"
    /\ n < CPUS
    /\ sum' = AsWord(sum + counter[n])
    /\ n' = n + 1
    /\ UNCHANGED <<args, main, rounds, state, threadVars, counter, mutex, initial>>

\* sum % ROUNDS_PER_THREAD traps if the divisor is 0.
Report ==
    /\ main = "sum"
    /\ n = CPUS
    /\ IF AsWord(rounds) = 0
       THEN main' = "crashed" /\ UNCHANGED state
       ELSE /\ main' = "exited"
            /\ state' = IF sum % AsWord(rounds) = 0 THEN "ok" ELSE "fail"
    /\ UNCHANGED <<args, rounds, n, sum, threadVars, counter, mutex, initial>>

-----------------------------------------------------------------------------
(* thread_handler() and the operations *)

\* Threads live until the process ends.
Alive == main \in {"create", "join", "sum"}

\* rseq(2) may fail, which ends in die(); a NULL from memalign() is written to.
Register(t) ==
    /\ Alive
    /\ pc[t] = "starting"
    /\ \/ pc' = [pc EXCEPT ![t] = "test"] /\ UNCHANGED main
       \/ RegisterMayFail /\ main' \in {"failed", "crashed"} /\ UNCHANGED pc
    /\ UNCHANGED <<args, rounds, n, sum, state, i, cpu, reg, counter, mutex, initial>>

\* Mutant: <= for < in the loop of thread_handler().
OneMoreRound(t) == Alive /\ pc[t] = "test" /\ i[t] <= AsWord(rounds)

MoreRounds(t) == Alive /\ pc[t] = "test" /\ i[t] < AsWord(rounds)

CallStub(t) ==
    /\ MoreRounds(t)
    /\ args.mode \in StubModes
    /\ i' = [i EXCEPT ![t] = @ + 1]
    /\ UNCHANGED <<mainVars, pc, cpu, reg, counter, mutex, initial>>

\* Mutant: the locked operation forgets to lock.
FirstStepUnlocked == "load"

FirstStep == IF args.mode = "lock" THEN "lock" ELSE "load"

\* The CPU the thread runs on at this moment; it may have left it afterwards.
GetCpu(t) ==
    /\ MoreRounds(t)
    /\ args.mode \in {"regular", "lock"}
    /\ \E c \in CpuIds : cpu' = [cpu EXCEPT ![t] = c]
    /\ pc' = [pc EXCEPT ![t] = FirstStep]
    /\ UNCHANGED <<mainVars, i, reg, counter, mutex, initial>>

\* Mutant: the mutex is taken from its owner.
IsFreeUnchecked(s) == TRUE

IsFree(s) == mutex[s] = Nobody

Lock(t) ==
    /\ Alive
    /\ pc[t] = "lock"
    /\ cpu[t] \in Slots
    /\ IsFree(cpu[t])
    /\ mutex' = [mutex EXCEPT ![cpu[t]] = t]
    /\ pc' = [pc EXCEPT ![t] = "load"]
    /\ UNCHANGED <<mainVars, i, cpu, reg, counter, initial>>

Load(t) ==
    /\ Alive
    /\ pc[t] = "load"
    /\ cpu[t] \in Slots
    /\ reg' = [reg EXCEPT ![t] = counter[cpu[t]]]
    /\ pc' = [pc EXCEPT ![t] = "store"]
    /\ UNCHANGED <<mainVars, i, cpu, counter, mutex, initial>>

\* The regular operation returns after the store, the locked one unlocks first.
Store(t) ==
    /\ Alive
    /\ pc[t] = "store"
    /\ counter' = [counter EXCEPT ![cpu[t]] = AsWord(reg[t] + 1)]
    /\ IF args.mode = "lock"
       THEN pc' = [pc EXCEPT ![t] = "unlock"] /\ UNCHANGED i
       ELSE pc' = [pc EXCEPT ![t] = "test"] /\ i' = [i EXCEPT ![t] = @ + 1]
    /\ UNCHANGED <<mainVars, cpu, reg, mutex, initial>>

\* Mutant: the operation returns with the mutex locked.
UnlockForgotten(t) ==
    /\ Alive
    /\ pc[t] = "unlock"
    /\ pc' = [pc EXCEPT ![t] = "test"]
    /\ i' = [i EXCEPT ![t] = @ + 1]
    /\ UNCHANGED <<mainVars, cpu, reg, counter, mutex, initial>>

Unlock(t) ==
    /\ Alive
    /\ pc[t] = "unlock"
    /\ mutex' = [mutex EXCEPT ![cpu[t]] = Nobody]
    /\ pc' = [pc EXCEPT ![t] = "test"]
    /\ i' = [i EXCEPT ![t] = @ + 1]
    /\ UNCHANGED <<mainVars, cpu, reg, counter, initial>>

\* The array has get_nprocs() elements; nothing checks cpu_id against that.
\* What an access behind its end does is undefined: the model stops there.
OutOfBounds(t) ==
    /\ Alive
    /\ pc[t] \in {"lock", "load"}
    /\ cpu[t] \notin Slots
    /\ main' = "undefined"
    /\ UNCHANGED <<args, rounds, n, sum, state, threadVars, counter, mutex, initial>>

Return(t) ==
    /\ Alive
    /\ pc[t] = "test"
    /\ ~(i[t] < AsWord(rounds))
    /\ pc' = [pc EXCEPT ![t] = "done"]
    /\ UNCHANGED <<mainVars, i, cpu, reg, counter, mutex, initial>>

-----------------------------------------------------------------------------
Ended == {"usage", "failed", "crashed", "undefined", "exited"}

Terminated == main \in Ended /\ UNCHANGED vars

MainNext ==
    \/ ParseArgs \/ AllocCounters \/ CreateThread \/ StartJoining
    \/ JoinThread \/ JoinGarbage \/ StartSumming \/ AddCounter \/ Report

ThreadNext(t) ==
    \/ Register(t) \/ CallStub(t) \/ GetCpu(t) \/ Lock(t) \/ Load(t)
    \/ Store(t) \/ Unlock(t) \/ OutOfBounds(t) \/ Return(t)

Next == MainNext \/ (\E t \in Threads : ThreadNext(t)) \/ Terminated

\* The kernel's scheduler runs every runnable thread again and again.
Fairness == WF_vars(MainNext) /\ \A t \in Threads : WF_vars(ThreadNext(t))

Spec == Init /\ [][Next]_vars /\ Fairness

-----------------------------------------------------------------------------
(* Properties *)

TypeOK ==
    /\ args \in Invocations
    /\ main \in Ended \union {"parse", "alloc", "create", "join", "sum"}
    /\ rounds \in Int
    /\ n \in Nat
    /\ counter \in [Slots -> 0..(WordSize - 1)]
    /\ initial \in [Slots -> 0..(WordSize - 1)]
    /\ mutex \in [Slots -> Threads \union {Nobody}]
    /\ pc \in [Threads -> {"unborn", "starting", "test", "lock", "load",
                           "store", "unlock", "done"}]
    /\ i \in [Threads -> Nat]
    /\ cpu \in [Threads -> Nat]
    /\ reg \in [Threads -> 0..(WordSize - 1)]
    /\ sum \in 0..(WordSize - 1)
    /\ state \in {"none", "ok", "fail"}

\* Increments that have reached memory: in lock mode the call returns only
\* after the unlock that follows the store.
Completed(t) == i[t] + (IF pc[t] = "unlock" THEN 1 ELSE 0)

\* The inductive invariant of the lock variant: the thread that is between
\* pthread_mutex_lock and pthread_mutex_unlock owns the mutex of its slot, and
\* the value it loaded is still the value in memory.
InCriticalSection(t) == pc[t] \in {"load", "store", "unlock"}

LockDiscipline ==
    args.mode = "lock" =>
        \A t \in Threads :
            /\ InCriticalSection(t) => cpu[t] \in Slots /\ mutex[cpu[t]] = t
            /\ pc[t] = "store" => reg[t] = counter[cpu[t]]

\* "A correct, but slow variant" (rseq.c:98): with the mutex no increment is
\* lost, whatever the migrations: in every state the counters together exceed
\* what they held at allocation by the number of increments performed.
NoLostUpdate ==
    args.mode = "lock" =>
        Total(counter) = (Total(initial) + SumFunction([t \in Threads |-> Completed(t)])) % WordSize

\* The lock variant implements the atomic counters.  In the other modes,
\* which promise nothing of the kind, the mapping shows a counter at rest.
Atomic == INSTANCE AtomicCounters WITH
    value <- IF args.mode = "lock" THEN counter ELSE initial,
    completed <- [t \in Threads |-> IF args.mode = "lock" THEN Completed(t) ELSE 0]

ImplementsAtomicCounters == Atomic!Spec

\* The racy variant (rseq.c:84) loses increments but never invents one, and
\* with at least two rounds at least two survive: the last store of the thread
\* that ends last read a value that some store had written.  A single thread
\* loses nothing.  What is counted is what main() found more in the counters than
\* the heap had left there, as long as the increments fit into a word.
Reported == main = "exited"

RegularLossBounds ==
    LET started == {t \in Threads : pc[t] # "unborn"}
        asked   == AsWord(rounds)
        all     == Cardinality(started) * asked
        counted == (sum - Total(initial)) % WordSize
    IN  Reported /\ args.mode = "regular" /\ all < WordSize =>
            /\ counted <= all
            /\ started # {} => counted >= IF asked >= 2 THEN 2 ELSE asked
            /\ Cardinality(started) = 1 => counted = asked

\* The joins order the sum after every thread: while main() reads the counters
\* no thread that was started is still working on them.
JoinedBeforeSum ==
    main \in {"sum", "exited"} => \A t \in Threads : pc[t] \in {"done", "unborn"}

\* Why that is so, as an inductive invariant: threads are born in the order of
\* main()'s loop index and main() waits for them in the same order.
Phases ==
    /\ main \in {"parse", "alloc"} => n = 0 /\ \A t \in Threads : pc[t] = "unborn"
    /\ main = "create" => n <= NTHREADS /\ \A t \in Threads : t >= n => pc[t] = "unborn"
    /\ main = "join" =>
          n <= NTHREADS /\ \A t \in Threads : t < n => pc[t] \in {"done", "unborn"}
    /\ JoinedBeforeSum

\* The number the benchmark exists to print is exact in lock mode: main() adds up
\* every increment of every thread that was started, and the heap's garbage.
LockedSumIsExact ==
    Reported /\ args.mode = "lock" =>
        sum = ( Total(initial)
                  + Cardinality({t \in Threads : pc[t] = "done"}) * AsWord(rounds) ) % WordSize

\* The program ends in every mode, with threads that could not be created, a
\* negative round count (which is a huge unsigned one) and none: no thread waits
\* for ever for the mutex of its slot (rseq.c:106), which another thread may hold,
\* and main() for no thread that was not started.
Termination == <>(main \in Ended)

-----------------------------------------------------------------------------
(* What the comments of rseq.c promise and the code does not keep *)

\* "We also check that the threads actually counted correctly (state)"
\* (rseq.c:262): state=ok is printed only if every increment was counted.
OkMeansCountedCorrectly ==
    state = "ok" => sum = (NTHREADS * rounds) % WordSize
=============================================================================
