---------------------------- MODULE FilterSpawn ----------------------------
(***************************************************************************)
(* How select.c (07-select) and epoll.c (10-epoll) start their filters:    *)
(* main() calls start_proc() once per command; start_proc() makes two      *)
(* pipes, spawns the filter with the inner ends as stdin and stdout, and   *)
(* keeps the outer ends.  The loops that would move data are stubs, so     *)
(* main() ends after the last filter was started.                          *)
(*                                                                         *)
(* The kernel's part is modelled as far as the program depends on it:      *)
(* pipe2() takes the lowest free descriptors, a child inherits the         *)
(* parent's table, dup2() clears close-on-exec (posix_spawn does so even   *)
(* for dup2(fd, fd)), exec closes what is marked, and a reader sees end of *)
(* file once no process holds a write end.                                 *)
(***************************************************************************)
EXTENDS Integers, FiniteSets

CONSTANTS Counts,      \* values of argc - 1 that are tried
          MaxFd,       \* RLIMIT_NOFILE - 1
          StdioSets,   \* which of 0, 1, 2 are open when the program starts
          CallsFail    \* may malloc(), pipe2(), posix_spawn() fail for other reasons?

ASSUME SpawnAssumption ==
    /\ Counts \subseteq Nat
    /\ \E m \in Counts : \A c \in Counts : c <= m
    /\ MaxFd \in Nat /\ MaxFd >= 2
    /\ StdioSets \subseteq SUBSET (0..2)
    /\ CallsFail \in BOOLEAN

Fds     == 0..MaxFd
Filters == 1..(CHOOSE m \in Counts : \A c \in Counts : c <= m)

\* What a descriptor may refer to: an end of a pipe of filter f, or whatever
\* stdin, stdout and stderr were when the program started.
PipeEnds == [filter : Filters, pipe : {"in", "out"}, end : {"r", "w"}]
End(f, p, e) == [filter |-> f, pipe |-> p, end |-> e]
NoFile     == End(0, "none", "none")
Inherited  == End(0, "none", "rw")
Closed     == [file |-> NoFile, cloexec |-> FALSE]
Descriptor == [file : PipeEnds \union {NoFile, Inherited}, cloexec : BOOLEAN]

VARIABLES nprocs,   \* argc - 1
          main,     \* where main() and start_proc() are
          k,        \* the filter that is being started
          fds,      \* the parent's descriptor table
          ends,     \* start_proc()'s stdin[0], stdin[1], stdout[0], stdout[1]
          procs,    \* procs[f].stdin and .stdout
          filter,   \* filter[f]: "none", "running" or "gone"
          childFds  \* childFds[f]: descriptor table of filter f

vars == <<nprocs, main, k, fds, ends, procs, filter, childFds>>

Table(open) == [d \in Fds |-> IF d \in open THEN [file |-> Inherited, cloexec |-> FALSE]
                                            ELSE Closed]

Init ==
    /\ nprocs \in Counts
    /\ main = "start"
    /\ k = 1
    /\ \E open \in StdioSets : fds = Table(open)
    /\ ends = [stdin0 |-> -1, stdin1 |-> -1, stdout0 |-> -1, stdout1 |-> -1]
    /\ procs = [f \in Filters |-> [stdin |-> -1, stdout |-> -1]]
    /\ filter = [f \in Filters |-> "none"]
    /\ childFds = [f \in Filters |-> Table({})]

-----------------------------------------------------------------------------
(* main() and start_proc() *)

\* When a process ends the kernel closes all its descriptors.
Exit == main' = "exited" /\ fds' = Table({})

\* No command: usage.  malloc() may fail.
Start ==
    /\ main = "start"
    /\ \/ nprocs > 0 /\ main' = "pipe_in" /\ UNCHANGED fds
       \/ (nprocs = 0 \/ CallsFail) /\ Exit
    /\ UNCHANGED <<nprocs, k, ends, procs, filter, childFds>>

FreeFds(tab) == {d \in Fds : tab[d].file = NoFile}
Lowest(s) == CHOOSE d \in s : \A e \in s : d <= e

\* The two descriptors pipe2() picks, and the table after it.
ReadFd(tab)  == Lowest(FreeFds(tab))
WriteFd(tab) == Lowest(FreeFds(tab) \ {ReadFd(tab)})
\* Mutant: pipe() for pipe2(..., O_CLOEXEC).
WithInheritedPipe(tab, f, p) ==
    [tab EXCEPT ![ReadFd(tab)]  = [file |-> End(f, p, "r"), cloexec |-> FALSE],
                ![WriteFd(tab)] = [file |-> End(f, p, "w"), cloexec |-> FALSE]]

WithPipe(tab, f, p) ==
    [tab EXCEPT ![ReadFd(tab)]  = [file |-> End(f, p, "r"), cloexec |-> TRUE],
                ![WriteFd(tab)] = [file |-> End(f, p, "w"), cloexec |-> TRUE]]

NoRoom == Cardinality(FreeFds(fds)) < 2

MakeStdinPipe ==
    /\ main = "pipe_in"
    /\ \/ /\ ~NoRoom
          /\ fds' = WithPipe(fds, k, "in")
          /\ ends' = [ends EXCEPT !.stdin0 = ReadFd(fds), !.stdin1 = WriteFd(fds)]
          /\ main' = "pipe_out"
       \/ (NoRoom \/ CallsFail) /\ Exit /\ UNCHANGED ends
    /\ UNCHANGED <<nprocs, k, procs, filter, childFds>>

\* A failure leaves the first pipe open, until die() ends the program.
MakeStdoutPipe ==
    /\ main = "pipe_out"
    /\ \/ /\ ~NoRoom
          /\ fds' = WithPipe(fds, k, "out")
          /\ ends' = [ends EXCEPT !.stdout0 = ReadFd(fds), !.stdout1 = WriteFd(fds)]
          /\ main' = "spawn"
       \/ (NoRoom \/ CallsFail) /\ Exit /\ UNCHANGED ends
    /\ UNCHANGED <<nprocs, k, procs, filter, childFds>>

Dup2(tab, from, to) == [tab EXCEPT ![to] = [file |-> tab[from].file, cloexec |-> FALSE]]
Exec(tab) == [d \in Fds |-> IF tab[d].cloexec THEN Closed ELSE tab[d]]

\* Mutant: stdout is put in place first.
FileActionsSwapped(tab) == Dup2(Dup2(tab, ends.stdout1, 1), ends.stdin0, 0)

\* The file actions are carried out in the order in which they were added.
FileActions(tab) == Dup2(Dup2(tab, ends.stdin0, 0), ends.stdout1, 1)

Spawn ==
    /\ main = "spawn"
    /\ \/ /\ childFds' = [childFds EXCEPT ![k] = Exec(FileActions(fds))]
          /\ filter' = [filter EXCEPT ![k] = "running"]
          /\ main' = "close_in"
          /\ UNCHANGED fds
       \/ CallsFail /\ Exit /\ UNCHANGED <<childFds, filter>>
    /\ UNCHANGED <<nprocs, k, ends, procs>>

\* Mutant: the end of a pipe stays open.
LeftOpen(d) == fds

WithClosed(d) == [fds EXCEPT ![d] = Closed]

KeepStdin ==
    /\ main = "close_in"
    /\ procs' = [procs EXCEPT ![k].stdin = ends.stdin1]
    /\ fds' = WithClosed(ends.stdin0)
    /\ main' = "close_out"
    /\ UNCHANGED <<nprocs, k, ends, filter, childFds>>

KeepStdout ==
    /\ main = "close_out"
    /\ procs' = [procs EXCEPT ![k].stdout = ends.stdout0]
    /\ fds' = WithClosed(ends.stdout1)
    /\ main' = "started"
    /\ UNCHANGED <<nprocs, k, ends, filter, childFds>>

\* Mutant: <= for < in the loop of main().
MoreFiltersOrNot == k <= nprocs

MoreFilters == k < nprocs

\* The next command, or the end of main().
NextFilter ==
    /\ main = "started"
    /\ MoreFilters
    /\ k' = k + 1
    /\ main' = "pipe_in"
    /\ UNCHANGED <<nprocs, fds, ends, procs, filter, childFds>>

Finish ==
    /\ main = "started"
    /\ k = nprocs
    /\ Exit
    /\ UNCHANGED <<nprocs, k, ends, procs, filter, childFds>>

-----------------------------------------------------------------------------
(* The filters *)

ParentHolds(x)   == \E d \in Fds : fds[d].file = x
FilterHolds(f, x) == filter[f] = "running" /\ \E d \in Fds : childFds[f][d].file = x
Held(x) == ParentHolds(x) \/ \E f \in Filters : FilterHolds(f, x)

\* A filter reads its stdin to the end and exits.
ReachEof(f) ==
    /\ filter[f] = "running"
    /\ ~Held(End(f, "in", "w"))
    /\ filter' = [filter EXCEPT ![f] = "gone"]
    /\ UNCHANGED <<nprocs, main, k, fds, ends, procs, childFds>>

\* It may also end at any other time.
Quit(f) ==
    /\ filter[f] = "running"
    /\ Held(End(f, "in", "w"))
    /\ filter' = [filter EXCEPT ![f] = "gone"]
    /\ UNCHANGED <<nprocs, main, k, fds, ends, procs, childFds>>

-----------------------------------------------------------------------------
AllEnded == main = "exited" /\ \A f \in Filters : filter[f] # "running"

Done == AllEnded /\ UNCHANGED vars

MainNext ==
    \/ Start \/ MakeStdinPipe \/ MakeStdoutPipe \/ Spawn \/ KeepStdin \/ KeepStdout
    \/ NextFilter \/ Finish

Next == MainNext \/ (\E f \in Filters : ReachEof(f) \/ Quit(f)) \/ Done

\* main() runs; a filter that is at the end of its input does not stay there.
Spec == Init /\ [][Next]_vars /\ WF_vars(MainNext) /\ \A f \in Filters : WF_vars(ReachEof(f))

-----------------------------------------------------------------------------
(* Properties *)

TypeOK ==
    /\ nprocs \in Counts
    /\ main \in {"start", "pipe_in", "pipe_out", "spawn", "close_in", "close_out",
                 "started", "exited"}
    /\ k \in Nat \ {0}
    /\ main \notin {"start", "exited"} => k <= nprocs
    /\ fds \in [Fds -> Descriptor]
    /\ ends \in [stdin0 : Int, stdin1 : Int, stdout0 : Int, stdout1 : Int]
    /\ procs \in [Filters -> [stdin : Int, stdout : Int]]
    /\ filter \in [Filters -> {"none", "running", "gone"}]
    /\ childFds \in [Filters -> [Fds -> Descriptor]]

\* The filters whose start is complete.
Started == {f \in Filters : f < k \/ (f = k /\ main = "started")}

\* "... close the ends that are also used within the child (to save file
\* descriptors)" (select.c:92): between two starts the parent's table holds the
\* outer ends of the started filters, where procs says they are, and no other
\* pipe end.
NoDescriptorLeaks ==
    main \in {"pipe_in", "started"} =>
        {<<d, fds[d].file>> : d \in {d \in Fds : fds[d].file \in PipeEnds}}
          = {<<procs[f].stdin, End(f, "in", "w")>> : f \in Started}
              \union {<<procs[f].stdout, End(f, "out", "r")>> : f \in Started}

\* A filter reads from its own first pipe, writes to its own second pipe, and
\* has inherited no other pipe end - whichever of the standard descriptors
\* were open at the start, so wherever the ends came to lie.
FiltersAreWired ==
    \A f \in Filters : filter[f] = "running" =>
        {<<d, childFds[f][d].file>> : d \in {d \in Fds : childFds[f][d].file \in PipeEnds}}
          = {<<0, End(f, "in", "r")>>, <<1, End(f, "out", "w")>>}

\* When a started filter has ended the parent can find out: its stdout has no
\* writer left (read returns 0), its stdin no reader (write fails with EPIPE).
EndOfFilterIsVisible ==
    \A f \in Started : filter[f] = "gone" =>
        ~Held(End(f, "out", "w")) /\ ~Held(End(f, "in", "r"))

\* No filter outlives the program for lack of an end of file: neither it nor a
\* later filter keeps a write end of its stdin open.
EveryFilterEnds == <>[]AllEnded
=============================================================================
