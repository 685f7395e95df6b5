# A TLA+ verification project for the System-Call Advent Calendar (aosys)

The repository is a collection of 24 small C programs, one per day, each about
one system call or kernel interface. They share no code and no state and never
run together. Many are exercises: functions whose body is a `FIXME` and returns
a constant. The project models the code that is there. A stub is modelled as
what it does (usually nothing), never as what its comment asks the reader to
write, and a program of which only stubs are left is listed as not modelled.

## Inventory

| Program | State | Operations | Hard behaviour | What makes it correct |
|---|---|---|---|---|
| 23-rseq | counter array and mutexes (one slot per CPU), loop indices, `ROUNDS_PER_THREAD`; per thread: CPU number, register, round | `main`, `thread_handler`, `operation_regular`, `operation_lock`, three stubs | migration between any two steps, racy increments, failing `pthread_create`, overflow of the round count, gaps in CPU numbers, uninitialised memory, a mutex per slot | no increment lost in lock mode, sum only after all joins, bounded loss in regular mode, termination |
| 16-iouring | `free_buffers`, `next` and `canary` inside the buffers; `now` in `main` | `alloc_buffer`, `free_buffer`, the statistics loop; ring functions are stubs | double free, also of a buffer that was handed out again, reads that complete into a freed buffer, memory exhaustion, a clock that is set | the list is a stack without loss or duplicates, one owner per buffer unless somebody frees what another owns, corruption is noticed, a line for every second |
| 07-select, 10-epoll | descriptor table, `procs`, the filters' tables | `start_proc`, `main`; the copying loops are stubs; `print_throughput` (10) | descriptor inheritance across filters, full table, standard descriptors closed at start, every call failing | each filter wired to its own pipes, no leaked ends, every filter sees end of file |
| 01-open | descriptor, buffer, offset | `cat`, `main` | partial and failing reads/writes, directories, descriptor 0 | bytes are never reordered, losses are reported, every argument is reached |
| 19-perf | four matrices, loop indices | `create_matrix`, both multiplications, `main`; perf functions are stubs | blocks larger than the matrix, `dim * dim` overflow | both multiplications add the same products, no access outside |
| 09-xattr | none | `calc_checksum`; `map_file` is a stub, `main` parses arguments | tail that is no whole word | the documented sum |
| 02-clone, 06-sigaction | `counter`, `do_exit` | `syscall_write` (two versions), `main` | smallest integer, exact buffer size | the text is the number |
| 12-, 13-postbox | `boxes`, interest list | `epoll_add`, `epoll_del`, dispatch loop; back ends are stubs | failing back end becomes the fallback | each event goes to its back end |
| 11-sendfile | offsets and sizes of two files | `measure`, `main`; copy functions are stubs | offsets that survive a measurement, zero intervals | every measurement copies all of the input |
| 15-pty | terminal settings, saved settings, exit handlers | `configure_terminal`, `restore_terminal`, `exec_in_pty`, none called | killed before restoring, configured twice, C-c, closed standard descriptors | settings restored, command set apart |
| 24-syscall | `usyscall_flag` | `usyscall_enable`, `usyscall_signal`, `main`; `usyscall_init` is a stub | a signal handler that changes the flag it is triggered by | which calls are intercepted |
| 22-netlink | a caller's buffer | `execname`; the rest are stubs | a path that fills the buffer, a buffer without room, a process that is gone | terminated, inside the buffer, as much of the path as fits |
| 04-futex, 17-seccomp | shared words | all interesting functions are empty | would be synchronisation | - |
| 03, 05, 08, 14, 18, 20, 21 | - | stubs, tables, printing | - | - |

Interaction exists inside programs only: threads of 23-rseq through the counter
array and mutexes, the parent and filters of 07/10 through pipes and inherited
descriptors, callers and kernel of 16-iouring through buffer memory.

## Modules

* `PerCpuCounter` - 23-rseq. One action per step of `main()` (`ParseArgs`,
  `AllocCounters`, `CreateThread`, `StartJoining`, `JoinThread`, `StartSumming`,
  `AddCounter`, `Report`) and of a thread (`Register`, `GetCpu`, `Lock`, `Load`,
  `Store`, `Unlock`, `Return`, and `CallStub` for the operations that are
  stubs). `counters[cpu_id].counter += 1` is a load and a store; `cpu` is chosen
  freely at `getcpu()` and not looked at again, which is what migration amounts
  to. `JoinGarbage` is `pthread_join()` on an id that a failed
  `pthread_create()` never wrote, `OutOfBounds` an access behind the array:
  both are undefined and the model lets them crash (or, for the join, return).
* `AtomicCounters` - the abstract specification of the counters: an increment is
  one indivisible step. `PerCpuCounter` in lock mode implements it, with the
  counters as they are and, as completed increments, the calls that returned
  plus the ones that are between store and unlock.
* `FoldTheorems` - induction over numbers and finite sets, recursion, sums and
  folds, remainders: what the proofs about sums and histories rest on.
* `PerCpuCounterProofs` - theorems about `PerCpuCounter`.
* `BufferPool` - `alloc_buffer()`/`free_buffer()`. `Alloc...` are the branches of
  the one, `Push` the body of the other; `Fill`, `FreeAgain` and `LateWrite` are
  what callers and kernel may do to the memory, as far as `faults` of this run
  permits. `FreeAgain` is the second free of a buffer, by a caller that owned it
  earlier: of a free one ("double_free") or of one that has another owner by now
  ("stale_free"); the code tells neither from a proper free. History variables:
  `stack` (freed and not handed out since), `life`, and `stray` (buffers that were
  freed while another caller had them).
* `FreeStack` - the abstract pool: a last-in-first-out stack of exclusive
  buffers. `BufferPool` without faults implements it.
* `BufferPoolProofs` - theorems about `BufferPool`.
* `FilterSpawn` - `start_proc()` and `main()` of 07-select and 10-epoll, which
  differ in the command string only. The descriptor tables of the parent and of
  every filter are state; `pipe2`, `dup2`, `exec` and end of file are modelled
  as the kernel defines them.
* `FilterSpawnProofs` - theorems about `FilterSpawn`.
* `Cat` - `cat()` and `main()` of 01-open. `OpenSucceeds`, `OpenFails`, `Close` and
  `Exit` are the steps of `main()`, `Read...` and `Write...` the outcomes of the two
  calls in the loop of `cat()`. The history variable `failures` changes with every
  read that fails, so that a read that fails again is a step like any other.
* `CatProofs` - theorems about `Cat`.
* `MatrixMultiply` - 19-perf. An element of a result is the bag of products that
  were added, named by the indices of their factors, so that "the same products,
  each once" is a statement about all matrices. Drepper's innermost block is one
  action, naive multiplication and comparison take one action per element.
* `MatrixMultiplyProofs` - theorems about `MatrixMultiply`.
* `Terminal` - 15-pty. `SaveSettings`, `RegisterRestore`, `SetRaw` are the three
  calls of `configure_terminal()`, `ExecInPty` is `exec_in_pty()` with its
  `die()`, `RestoreTerminal` an exit handler. `main()` calls none of them, so a
  caller may in any order; `OpenPty`, `Interrupt` (C-c) and `Kill` are the
  surroundings. `found` and `configured` are history variables.
* `TerminalProofs` - theorems about `Terminal`.
* `Throughput` - `print_throughput()` of 10-epoll as a function of its static
  variable, the counter and the clock; `AfterCalls` folds it over a history.
* `CopyBenchmark` - `measure()` and `main()` of 11-sendfile as functions of the
  offsets and sizes of the two files. What a copy function does is a parameter,
  as it is in the code.
* `Statistics` - the loop of `main()` in 16-iouring, which only looks at the clock
  and prints, as a fold over the times it reads.
* `UserDispatch` - the flag of 24-syscall, the calls that set it, and the handler
  that clears it, as a fold over a program's calls; with a kernel that looks at
  the flag and with one that was never told to (as `usyscall_init()` is a stub).
* `NameBuffer` - `execname()` of 22-netlink as a function of path and buffer.
* `Checksum`, `NumberOutput` - pure functions as operators, with the reference
  they are compared with. `Powers` has the powers both need, as a recursive
  function: the provers know nothing of `^`.
* `MCAlgorithms` enumerates inputs for the pure functions of these seven modules
  (from `Throughput` on, without `Powers`) and states what they must compute. Each
  input is an initial state of its own; `InputsAssumption` says which inputs are
  possible, and the instance takes small sets of them.
* `AlgorithmsProofs` - theorems about `MCAlgorithms`, and thereby about the functions
  of these modules, for all inputs.
* `MCPerCpuCounter`, `MCBufferPool`, `MCFilterSpawn`, `MCCat`,
  `MCMatrixMultiply` - constants of the instances.

Small operators such as `Finished`, `FirstStep`, `WithCanary`, `MoreFilters`,
`ShortWrite` or `NextK` stand for one condition or assignment of the code, so that
a faulty variant of just that can take their place. Definitions whose comment
begins with "Mutant" are such variants of the definition below them. They are not part of any specification; each property of
a passing run is violated when one of them takes the place of the original.

## Runs

Each passing run finishes within about a minute.

| Run | Instance | What it shows |
|---|---|---|
| `rseq` | 2 threads, CPUs numbered 0, 1, 3; all modes and an unknown one; 3 rounds scaled by 1, 4, 8; words and ints of 3 bits; counters start at the largest word; every call may fail | lock mode: no lost update, lock discipline, refinement of `AtomicCounters`, an exact sum; the racy variant: how much it can lose; join before sum; termination. Two threads on three slots give contention on a slot and progress beside it, number 3 leaves the array. Starting at 7 of 0..7 makes the words wrap; 3 * 4 wraps to the int -4, which is 4 rounds as a word, and 3 * 8 to 0. More threads are left to the proofs |
| `rseq_state_ok` | 2 threads, 1 CPU, regular | violation: `state=ok` for a wrong sum |
| `pool` | 3 buffers, four fault sets (none; overwriting and double frees; with stale frees as well; no memory), symmetric in the buffers | list = stack, exclusive ownership, canary, refinement of `FreeStack`. Three buffers have a first, a middle and a last one |
| `pool_memory` | 3 buffers, failing `posix_memalign` | violation: failure taken for success |
| `filters_wiring` | 0, 1 or 3 filters, 10 descriptors, every subset of 0..2 open at start | wiring, no leaks, visible end, every filter ends. Three filters need 9 or 10 descriptors at the peak, so the table also fills up |
| `cat_output` | up to 2 arguments of 0, 1 or 3 bytes, buffer of 2, any standard descriptor closed, everything may fail | output in order, losses reported, termination unless reads keep failing |
| `cat_directory` | 2 arguments, one may be a directory | violation: endless loop |
| `matrix` | blocks of 2, 128 values of an unsigned, dimensions 0, 1, 2, 3, 4, 8, 16, and -1 and -64 converted | blocked multiplication correct block by block |
| `terminal` | two calls of `configure_terminal()`, any subset of 0..2 open, all initial settings | settings restored at exit after at most one call, only raw or found settings ever, command set apart. A second call is the first that can save what a call has set |
| `terminal_twice` | same | violation: two calls, and the exit leaves the terminal raw |
| `algorithms` | words of 2 bytes, all memories of 6 bytes with 3 values, ranges of up to 4; all 16-bit numbers, bases 2, 3, 10, 16; histories of calls, clocks, copies, paths and programs as described on the right | checksum of whole words, extent of reads, numerals. 16 bits keep the tightness of the buffers: `3 * sizeof` decimal bytes hold exactly five digits and a newline. Histories of 4 calls within three seconds of two ticks, the clock going either way: a line, one that is not due, and a step back fit in. Two rounds of copies of 0 to 2 bytes: complete and partial ones follow each other. Up to five readings of a clock of four seconds: it can be set back and run on. Paths of up to 4 characters and buffers of 1 to 4 bytes: no room at all, and paths that are shorter, as long, one longer than the room. Programs of up to six steps, and that of `main()` |
| `checksum_rest` | same | violation: the rest is not added byte wise |

Bounds: `MaxFree` (records of frees while buffers may be freed twice),
`MaxOwners` (owners of a buffer after failed allocations and stale frees),
`MaxConfigures` (calls of `configure_terminal()`), `MaxArgs`, `MaxFd`,
`MaxLen`. All other counters are bounded by the program itself. `IntHalf`,
`WordSize`, `UIntSize`, `ByteSize` scale the C types down and keep wrap-around.

## Fairness

* `PerCpuCounter`: weak fairness of `main()` and of each thread. The kernel
  schedules every runnable thread. The mutex needs no strong fairness for
  termination, a thread performs finitely many rounds, so at some point nobody
  competes with the last one waiting.
* `FilterSpawn`: weak fairness of the parent and of each filter's exit at end of
  file (a filter reads its stdin; that it may exit earlier, `Quit`, is allowed
  but not required).
* `MatrixMultiply`: a single thread that is not stopped.
* `Cat`: a single thread that is not stopped. That reads do not fail for ever is not
  assumed: as `failures` changes with each, a thread that only ever reads in vain
  satisfies the fairness, and `EndsUnlessReadsKeepFailing` says that this is the only
  way not to end. For a directory there is no other way, and `cat_directory` shows
  the endless loop.
* `BufferPool`, `Terminal`: none, they have no liveness property; callers may do
  nothing.

## What is proved

With TLAPS, for all values of the constants that satisfy the assumptions stated
in the modules (`ConstantsAssumption`, `BuffersAssumption`, `SpawnAssumption`,
`CatAssumption`, `MatrixAssumption`, `MaxConfiguresAssumption`,
`ChecksumAssumption`, `NumberAssumption`, `SecondTicksAssumption`,
`InputsAssumption`). Every safety invariant and both refinements that a passing run
checks are among the theorems. Of the type
invariants (`TypeCorrect`, `PoolTypeCorrect`, `FiltersTypeCorrect`, `CatTypeCorrect`,
`MatrixTypeCorrect`, `TerminalTypeCorrect`) those of `FilterSpawn`, `Cat` and
`Terminal` need a strengthening: where the pipe ends lie (`Placed`), how far the
file was read (`Position`), how many handlers are to come (`Pending`).

23-rseq, `PerCpuCounterProofs`:

* `SumAfterJoin`: `JoinedBeforeSum` is not inductive; `Phases` is. It adds that
  threads are born in the order of the creating loop (none beyond `n`) and
  joined in the same order (all below `n` are done or were never created).
* `LockIsDisciplined`: `LockDiscipline` is inductive with `TypeOK`, by cases over
  a thread's steps: `OtherThreadsStay` says that a step of one thread leaves the
  private state of the others alone, and the mutex makes sure that the other
  thread of a slot is not in its critical section.
* `LockVariantIsAtomic`: the refinement. `Store` maps to `Increment`, as
  `LockDiscipline` says that the value it adds one to is still in memory; every
  other step stutters.
* `LockLosesNoUpdate`: `NoLostUpdate` is inductive with `LockDiscipline`. A store
  changes one counter and one thread's completed calls, so that both sums change by
  one (`SumOfChanged`), and sums may be compared modulo the size of a word
  (`RemaindersStayEqual`).
* `LockedSumCountsEveryRound`: from that, `Phases`, and two more invariants:
  `SummedSoFar`, that `sum` is the sum of the counters below the loop index, which
  nobody changes any more, and `RoundsAreCounted`, that a finished thread has made
  all of its calls.
* `RegularLosesWithinBounds`: no invariant of single counters implies the bounds, as
  a late store may set a counter back to one more than what the heap held. The
  upper bound comes from `NoneInvented`: the stores made so far can be shared out
  among the slots so that no counter and no loaded register holds more than its
  slot's share. The lower one comes from `TwoSurvive`: as long as not two increments
  are counted, some thread has stored once only and will not wipe out its own
  store; a thread that is about to store its first one cannot wipe out what another
  slot counts. `LonelyIsExact` is the case of a single thread. All three speak of
  what the slots count beyond the initial contents of the heap (`Counted`).

16-iouring, `BufferPoolProofs`:

* `ListIsTheStack`, `CanaryIsQuiet`: in a well-behaved run `ListIsStack` is
  inductive (with the type invariant): it relates `free_buffers` and every `next`
  to the history variable `stack`, all entries of which are distinct, unowned and
  carry the canary. That all unowned buffers are in it is needed for the next
  theorem.
* `PoolImplementsFreeStack`: the refinement of `FreeStack`.
* `OwnershipIsExclusive`: from `CanaryMeansFree`: a buffer that is handed out has
  lost its canary, so that it is handed out a second time only if it was freed
  again in between, by its owner or by somebody who was one (`stray`). It holds even
  if free buffers are freed again or overwritten; a buffer that is `stray` may have
  two owners, which the code cannot notice.
* `CanaryDetectsOverwrites`: for programs in which `posix_memalign()` does not
  fail.

07-select and 10-epoll, `FilterSpawnProofs`, for any number of commands and
descriptors and any standard descriptors closed:

* `ParentKeepsOuterEnds`: `Layout` is inductive with `Placed`. It says for every
  step of `start_proc()` which descriptor each end of each pipe is at, and thereby
  that it is at one only; that `pipe2()` takes two free descriptors, the lower for
  reading, is the lemma `PipeTakesFree`.
* `FiltersGetTheirEnds`: at `posix_spawn()` everything but the targets of the two
  `dup2()` is closed, as all pipe ends are close-on-exec (`Marked`), and the first
  `dup2()` spares the source of the second, as `stdout[1]` lies above `stdout[0]` and
  so is not 0 (`FileActionsWire`).
* `EndIsVisible`: from both; no other process than the filter has its inner ends.

01-open, `CatProofs`:

* `CatOutputIsInOrder`: `InOrder` is inductive. It gives the output a witness, the
  position in the arguments of each byte written, none of which lies behind what
  was copied so far (`Copied`). A write that fails or is short appends no witness
  for what it left out (`NothingWritten`, `SomeWritten`).
* `CatSilentMeansComplete`: as long as nothing was reported the witness covers
  everything `Passed`.

19-perf, `MatrixMultiplyProofs`, for dimensions that are a multiple of the block
size and whose square does not overflow (`FitsBlocks`):

* `FittingStaysInside`: `Blocks` is inductive: `i`, `j` and `k` are multiples of the
  block size below the dimension, so that a whole block lies inside.
* `BlocksAddUp`, `MultiplicationsAgree`: `Results` is inductive; it needs that an
  index into an array has one row and column (`IndexIsUnique`) and that a block
  adds its products to its elements and to no other (`BlockAdds`).

15-pty, `TerminalProofs`:

* `TerminalIsRestored` (for at most one call of `configure_terminal()`),
  `TerminalIsRawOrFound` (for any number): neither property is inductive,
  `Restorable` is. It says, for each place in
  `configure_terminal()` and `exit()`, what is saved, what is set, and whether a
  handler is still registered; stdin must be the user's terminal, which
  `StdinStays` says does not change.
* `CommandStaysApart`: from `DupsSpreadPty`, that the three `dup2()` leave the pty
  in 0, 1 and 2 whichever descriptor it had.

The pure functions, `AlgorithmsProofs`, for all inputs that `InputsAssumption` allows:
memories that are readable to the end of the word in which a range ends, clocks of
10-epoll behind the first second of 1970, benchmarks with a limit for every copy,
paths without a zero byte, buffers that are not empty. A fold over a history
is first turned into the sequence of states it goes through (`IterationsTrace`,
`ProgramTrace`, `CallsTrace`, `MeasurementsTrace`); what holds after `k` steps is
then an inductive invariant in the usual sense, with `k` for the time:

* `EverySecondHasOneLine`: `LoopInv`. The repeated lines are counted against the
  times the clock was set back, with one to spare while the clock is behind the
  last line (`IsBehind`).
* `EveryDispatchIsOneShot`: `FlagInv`. The flag is on exactly after `enable`, and the
  outcome of a call is at the index that counts the calls before it.
* `LinesAccountForEveryByte`: `ReportInv`, with the two sums over the lines printed;
  the last line carries the time from which the next interval is measured.
* `EveryCopySeesTheWholeInput`: `MeasuredInv`. `CopyIsPortion` and
  `MeasureIsPortion` say what one copy and one measurement do to the files, which
  for a measurement does not depend on where the input stood.
* `EveryRangeOfWordsIsSummed`: `WordsCoverTheRange`, by induction over the length of
  the range: a word more is counted exactly when the length is a multiple of the
  size of a word, and then the words so far cover it exactly.
* `EveryNumberIsPrinted`: `DigitsAreNumeral`, by induction over the number, from
  `DigitsSteps` (dividing by the base makes a number smaller) and `OneMoreDigit`
  (what a further digit does to the value).
* `EveryTextFits`: a number below the k-th power of the base has k digits at most
  (`NumeralOf`), and `ThreeDigitsPerByte` compares the powers of 2 and 10. It needs
  ints of two bytes at least: for one byte `3 * sizeof` would be one too few.
  `NamesFit` is the part about `execname()`.

The library's induction theorems take an operator as a parameter, which the provers
cannot instantiate. `FoldTheorems` therefore states induction with a set for the
hypothesis (`NumberInduction`, `SubsetInduction`), derived from the least element of a
set of numbers, and recursion with a function for the step: if every element of a
domain has a rank and leads to one of smaller rank, then there is a function that
satisfies the recursive equation (`Recursion`). That makes a recursive definition, and
`SumFunction` and `FoldLeft` of the community modules, which are recursive functions
on the subsets of a domain, equal to what their recursive equation says
(`SumOverSubsets`, `FoldExists`).

Only model-checked: all liveness (`Termination`, `EveryFilterEnds`,
`EndsUnlessReadsKeepFailing`), as the prover has no rules for `ENABLED` and so none for
fairness; and the five violations, of which there is nothing to prove.

## Disagreements between the code and its comments

Five runs end in a violation, see `findings` in `PROJECT.json`: the `state=`
check of 23-rseq accepts wrong sums; 16-iouring
takes a failing `posix_memalign` for success; `cat` does not get past a
directory; 15-pty does not restore a terminal that was configured twice; the checksum
reads a rest as a word. Met as well, without a run:

* getcpu() numbers may exceed `get_nprocs()` when a CPU is offline (rseq.c:188): the
  model then leaves the array as the program does (`OutOfBounds`), and no property
  says that it does not.
* iouring.c:83 promises more than the canary can keep: a write of the first eight
  bytes replaces the link only. A second free of a buffer that was handed out again
  in between is not noticed either (`stray`).
* rseq.c:210 allocates the counters without clearing them, so that what the heap
  held is part of every sum (the runs of `PerCpuCounter` compare with the initial
  contents).
* scribble.c:91 wants to "surely" restore the terminal: not if the process is killed.
* sendfile.c:47 resets the descriptors, but not the offset of the output: a copy is
  written behind a hole as long as all earlier ones. `CopyBenchmark` does the same;
  the property speaks of the input only.
* postbox.c:68 (12, 13) calls the last entry the fallback; a back end that fails to
  prepare takes its place. Not modelled.
* perf.c:99 accepts 0, 1, 2 and 4, for which the 8 x 8 blocks do not fit.
* cat.c:41 tests `fd > 0` and so refuses descriptor 0.

## Not modelled

What is left of the repository is not there to be modelled, as far as can be told
from the code:

* 02-clone: `main()` never calls `clone()` (a TODO), so `child_entry()` is not
  reached, `counter` stays 0 and `main()` prints it for ever; there is no second
  task that could share or not share the counter.
* 03-mmap: `setup_persistent()` returns -1 and `main()` ends there.
* 04-futex: `sem_down`, `sem_up`, `bb_init`, `bb_get`, `bb_put` have no body. A
  semaphore and a bounded buffer would be the natural subject of a model, but it
  would be one of the comments.
* 05-inotify, 08-writev, 14-getdents, 21-sendfd: stubs. 20-vmreadv parses its
  arguments and returns.
* 06-sigaction: no handler is installed, so `main()` ends with its first write to an
  invalid address. The number output is modelled.
* 09-xattr: `map_file()` is a stub and `main()` parses its arguments and returns.
* 11-sendfile: the copy functions are stubs (they are a parameter of the model);
  time measurement and averages are floating-point.
* 12-postbox, 13-postbox: all back ends are stubs whose `prepare` fails, `epoll_add()`
  and `epoll_del()` have no caller, so no event arrives at the loop that looks for a
  handler. `mq_send` opens a queue and sends one message, two calls without state of
  its own, to a receiver that is a stub.
* 16-iouring: `ring_map`, `submit_random_read`, `reap_cqe`, `receive_random_read` are
  stubs and not called; submission and completion queues do not exist. Its
  allocator has no caller in the program either; it is modelled under callers that
  the comments and types allow.
* 17-seccomp: `spawn_secure()` and `complete_secure()` return -1, so that no child
  exists and `main()` prints two failures.
* 18-ptrace: `table.c` is a list of system-call names, without logic, and
  `systrace.c` a stub that looks up one entry of it.
* 19-perf: the `perf_event` functions are stubs that `main()` does not call.
* 22-netlink: connecting, subscribing and receiving are stubs.
* 24-syscall: the registers that the handler copies are not used.
* 07-select, 10-epoll: the loops that would move data between the filters are
  FIXMEs. `print_throughput()` (10) is modelled.

Values of matrix elements are not modelled, the products they are sums of are; the
tolerance of the comparison in perf.c:129 therefore does not show.

## Plan

Done, in this order: the concurrent program (23-rseq), pointer structure and kernel
interplay (16-iouring), processes (07/10), I/O loops (01), the terminal (15),
algorithms (19, 09, 02/06), the functions of 10, 11, 16, 22 and 24; proofs for
every module that is a state machine, then for the sums over threads and slots and for
the pure functions. What could still be done: the safety half of the liveness
properties, by a measure that every step of a thread, of `cat()` or of the filters
decreases, so that only the absence of a state in which everybody waits stays with the
model checker.
