---------------------------- MODULE MCAlgorithms ----------------------------
(***************************************************************************)
(* Checks the pure functions of several programs against what they are     *)
(* meant to compute, input by input: calc_checksum() of 09-xattr, the two  *)
(* versions of syscall_write(), print_throughput() of 10-epoll, the files  *)
(* of 11-sendfile, the loop of 16-iouring, execname() of 22-netlink, the   *)
(* flag of 24-syscall.                                                     *)
(***************************************************************************)
EXTENDS Checksum, NumberOutput, Throughput, CopyBenchmark,
        Statistics, NameBuffer, UserDispatch

CONSTANTS Memories,     \* contents of memory that are tried
          MaxLen,       \* bound: length of a range
          Calls,        \* histories of calls of print_throughput()
          Benchmarks,   \* files, rounds and limits of the copies
          Clocks,       \* what the loop of 16-iouring reads from the clock
          Links,        \* paths of executables
          NameBuffers,  \* buffers they are read into, and what is in them
          Programs      \* sequences of system calls and usyscall_enable()

\* Memory is readable up to the end of the word in which a range ends.  It is no
\* longer the first second of 1970.  A benchmark has a limit for every copy.  A
\* path holds no zero byte, a buffer is not empty.
ASSUME InputsAssumption ==
    /\ Memories \subseteq Seq(0..(ByteSize - 1)) /\ MaxLen \in Nat
    /\ \A memory \in Memories : Len(memory) >= MaxLen + WordBytes
    /\ \A calls \in Calls : \A i \in DOMAIN calls : calls[i].now >= SecondTicks
    /\ Calls \subseteq Seq([moved : Nat, now : Nat])
    /\ Benchmarks \subseteq [size : Nat, seekable : BOOLEAN, target : BOOLEAN,
                              rounds : Int, limits : Seq(Nat)]
    /\ \A b \in Benchmarks : Len(b.limits) >= 1 + Measurements(b.rounds)
    /\ Clocks \subseteq Seq(Int) \ {<<>>}
    /\ Links \subseteq Seq(Nat \ {Nul})
    /\ NameBuffers \subseteq Seq(Nat) \ {<<>>}
    /\ Programs \subseteq Seq(Operations)

VARIABLE input          \* what this run computes from

MCBytes    == 0..2
MCMemories == [1..6 -> MCBytes]
MCBases    == {2, 3, 10, 16}

\* Times within three seconds of two ticks.
MCCalls == UNION {[1..n -> [moved : 0..1, now : 2..7]] : n \in 0..4}

\* Two rounds need five limits; a limit of 2 copies all.
MCBenchmarks ==
    [size : 0..2, seekable : BOOLEAN, target : BOOLEAN, rounds : {-1, 0, 1, 2},
     limits : [1..5 -> 0..2]]

MCClocks      == UNION {[1..n -> 1..4] : n \in 1..5}
MCLinks       == UNION {[1..n -> {1, 2}] : n \in 0..4}
MCNameBuffers == UNION {[1..n -> {Nul, 9}] : n \in 1..4}
MCPrograms    == UNION {[1..n -> Operations] : n \in 0..6} \union {MainProgram}

Init ==
    input \in [kind : {"range"}, memory : Memories, len : 0..MaxLen]
              \union [kind : {"number"}, number : Numbers, base : Bases]
              \union [kind : {"calls"}, calls : Calls]
              \union [kind : {"benchmark"}, benchmark : Benchmarks]
              \union [kind : {"clock"}, times : Clocks]
              \union [kind : {"link"}, link : Links, buf : NameBuffers]
              \union [kind : {"program"}, program : Programs, installed : BOOLEAN]

\* Every input is a run of its own.
Next == UNCHANGED input

Spec == Init /\ [][Next]_input

-----------------------------------------------------------------------------
(* Properties *)

\* calc_checksum() of a range of whole words is what its comments describe.  For
\* any range the first loop reads to the end of the last word and no further, so
\* that the second, which would not end, is never entered.
WholeWordsAreSummed ==
    input.kind = "range" =>
        /\ input.len % WordBytes = 0 =>
              calc_checksum(input.memory, input.len) = DescribedChecksum(input.memory, input.len)
        /\ Returns(input.len) /\ EndOfWords(input.len) < input.len + WordBytes

\* "A simple function to output a string and a number" (clone.c:22): the text is
\* the number in the base asked for, without leading zeros.  The smallest number
\* is left out, changing its sign overflows.
IsNumeral(text, b) ==
    /\ text.digits # <<>>
    /\ \A d \in 1..Len(text.digits) : text.digits[d] \in 0..(b - 1)
    /\ text.digits[1] = 0 => Len(text.digits) = 1

PrintsTheNumber ==
    input.kind = "number" /\ input.number # IntMin =>
        LET decimal == Decimal(input.number)
            inBase  == InBase(input.number, input.base)
        IN  /\ Value(decimal, 10) = input.number /\ IsNumeral(decimal, 10)
            /\ Value(inBase, input.base) = input.number /\ IsNumeral(inBase, input.base)

\* The buffers of syscall_write() are large enough for the digits and the newline,
\* in every base.  execname() keeps to the buffer of its caller, terminates what
\* it reads and returns as much of the path as fits.  For a process that is gone,
\* and a buffer with room for the terminator only, it says that there is no name
\* and leaves the buffer alone.
TextsFitTheirBuffers ==
    /\ input.kind = "number" /\ input.number # IntMin =>
          /\ Room(Decimal(input.number)) <= DecimalBuffer
          /\ Room(InBase(input.number, input.base)) <= InBaseBuffer
    /\ input.kind = "link" =>
          LET link == input.link
              r    == execname(link, input.buf)
              name == StringIn(r.buf)
          IN  /\ Len(r.buf) = Len(input.buf)
              /\ IF link = Gone \/ Len(input.buf) = 1
                 THEN r.buf = input.buf /\ r.name = NULL
                 ELSE /\ r.name = r.buf
                      /\ IsPrefix(name, link)
                      /\ name = link \/ Len(name) = Len(r.buf) - 1

\* Whatever the clock does, each byte is in one line or still to be printed, the
\* intervals of the lines are positive and add up to the time from the first
\* call to the last line, and no two lines come in the same second ("throttles
\* its output to one line per second", epoll.c:108).
LinesAccountForAllBytes ==
    input.kind = "calls" =>
        LET calls == input.calls
            s     == AfterCalls(calls)
        IN  /\ SumFunction([i \in 1..Len(s.lines) |-> s.lines[i].bytes]) + s.bytes
                  = SumFunction([i \in 1..Len(calls) |-> calls[i].moved])
            /\ \A i \in 1..Len(s.lines) : s.lines[i].delta > 0
            /\ calls # <<>> => SumFunction([i \in 1..Len(s.lines) |-> s.lines[i].delta])
                                   = s.last - calls[1].now
            /\ \A i \in 2..Len(s.lines) : Sec(s.lines[i].at) > Sec(s.lines[i - 1].at)

\* "First, we reset our file descriptors" (sendfile.c:47), which is true of the
\* input: earlier copies, even partial ones and the one that warms up, take no
\* byte of it from a later one, which moves as many as its function asks for.  An
\* input that cannot be wound back, or an output that is missing, ends the program
\* before the first measured copy.
CopiesSeeTheWholeInput ==
    input.kind = "benchmark" =>
        LET b == input.benchmark
            f == Benchmark(Opened(b.size, b.seekable, b.target), b.rounds, b.limits)
            n == Measurements(b.rounds)
            Asked(k) == IF b.limits[k] < b.size THEN b.limits[k] ELSE b.size
        IN  IF b.seekable /\ b.target
            THEN f.copied = [k \in 1..n |-> Asked(k + 1)]
            ELSE f.copied = <<>> /\ (n > 0 <=> f.died)

\* "Every second, we output a statistic" (iouring.c:255): every second that the
\* clock reaches has its line, and only a clock that was set back makes a second
\* have another.
SecondsHaveOneLine ==
    input.kind = "clock" =>
        LET times == input.times
            lines == AfterIterations(times).lines
            SetBack  == {n \in 2..Len(times) : times[n] < times[n - 1]}
            Repeated == {n \in 2..Len(lines) : lines[n] <= lines[n - 1]}
        IN  /\ \A n \in 2..Len(times) :
                  (\A m \in 1..(n - 1) : times[m] < times[n]) => Contains(lines, times[n])
            /\ Cardinality(Repeated) <= Cardinality(SetBack)

\* One call of usyscall_enable(true) redirects one system call at most: the next
\* one, for the handler leaves the flag off.  So of the two calls main() makes
\* with dispatching on, the second - of a number that does not exist - goes to
\* the kernel.  As long as usyscall_init() is a stub, all do.
DispatchIsOneShot ==
    input.kind = "program" =>
        LET p == input.program
            CallsUpTo(n) == Cardinality({m \in 1..n : p[m] = "call"})
            calls == After(p, input.installed).calls
        IN  /\ Len(calls) = CallsUpTo(Len(p))
            /\ \A n \in DOMAIN p : p[n] = "call" =>
                  ( calls[CallsUpTo(n)] = "SIGSYS" <=>
                        input.installed /\ n > 1 /\ p[n - 1] = "enable" )

-----------------------------------------------------------------------------
(* What a comment describes and the code does not do *)

\* "The rest (0-7 bytes) are added byte wise." (checksum.c:45)
RestIsAddedByteWise ==
    input.kind = "range" =>
        calc_checksum(input.memory, input.len) = DescribedChecksum(input.memory, input.len)
=============================================================================
