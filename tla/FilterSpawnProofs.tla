------------------------- MODULE FilterSpawnProofs -------------------------
(***************************************************************************)
(* Theorems about FilterSpawn, for any numbers of filters and descriptors: *)
(* the parent's table holds what it should at every step of start_proc(),  *)
(* so the filters inherit what they should.                                *)
(***************************************************************************)
EXTENDS FilterSpawn, FiniteSetTheorems, WellFoundedInduction, TLAPS

\* The lowest of a set of descriptors.
LEMMA Minimum ==
    ASSUME NEW S \in SUBSET Nat, S # {}
    PROVE  \E x \in S : \A y \in S : x <= y
<1> DEFINE R == OpToRel(<, Nat)
<1>1. IsWellFoundedOn(R, Nat)
  BY NatLessThanWellFounded
<1>2. \A x, y \in Nat : x < y => <<x, y>> \in R
  BY DEF OpToRel
<1> HIDE DEF R
<1>3. PICK x \in S : \A y \in S : ~ (<<y, x>> \in R)
  BY <1>1, WFMin, Zenon
<1>4. ASSUME NEW y \in S PROVE x <= y
  <2>1. x \in Nat /\ y \in Nat
    BY Zenon
  <2>2. ~ (y < x)
    BY <1>2, <1>3, <2>1, Zenon
  <2> QED
    BY <2>1, <2>2
<1> QED
  BY <1>4

LEMMA LowestIsLowest ==
    ASSUME NEW S \in SUBSET Fds, S # {}
    PROVE  Lowest(S) \in S /\ \A d \in S : Lowest(S) <= d
<1>1. S \in SUBSET Nat
  BY DEF Fds
<1>2. \E x \in S : \A y \in S : x <= y
  BY <1>1, Minimum
<1> QED
  BY <1>2 DEF Lowest

\* pipe2() takes two free descriptors, the lower one for reading.
LEMMA PipeTakesFree ==
    ASSUME NEW tab, ~ (Cardinality(FreeFds(tab)) < 2)
    PROVE  /\ ReadFd(tab) \in FreeFds(tab)
           /\ WriteFd(tab) \in FreeFds(tab)
           /\ ReadFd(tab) < WriteFd(tab)
<1> DEFINE S == FreeFds(tab)
<1>1. S \in SUBSET Fds
  BY DEF FreeFds
<1>2. IsFiniteSet(Fds)
  BY SpawnAssumption, FS_Interval DEF Fds
<1>3. IsFiniteSet(S) /\ S # {}
  <2>1. IsFiniteSet(S)
    BY <1>1, <1>2, FS_Subset
  <2> QED
    BY <2>1, FS_EmptySet
<1>4. ReadFd(tab) \in S /\ \A d \in S : ReadFd(tab) <= d
  BY <1>1, <1>3, LowestIsLowest DEF ReadFd
<1>5. Cardinality(S \ {ReadFd(tab)}) = Cardinality(S) - 1 /\ IsFiniteSet(S \ {ReadFd(tab)})
  BY <1>3, <1>4, FS_RemoveElement
<1>6. S \ {ReadFd(tab)} # {}
  BY <1>3, <1>5, FS_EmptySet, FS_CardinalityType
<1>7. WriteFd(tab) \in S \ {ReadFd(tab)}
  BY <1>1, <1>6, LowestIsLowest DEF WriteFd
<1>8. ReadFd(tab) \in Int /\ WriteFd(tab) \in Int
  BY <1>1, <1>4, <1>7, SpawnAssumption DEF Fds
<1> QED
  BY <1>4, <1>7, <1>8

\* Every command has a filter.
LEMMA FiltersAreCounted == \A f \in Nat \ {0}, c \in Counts : f <= c => f \in Filters
<1> DEFINE m == CHOOSE m \in Counts : \A c \in Counts : c <= m
<1>1. m \in Counts /\ \A c \in Counts : c <= m
  BY SpawnAssumption
<1>2. m \in Nat
  BY <1>1, SpawnAssumption
<1>3. Filters = 1..m
  BY DEF Filters
<1> HIDE DEF m
<1> QED
  BY <1>1, <1>2, <1>3, SpawnAssumption

\* Ends of pipes are told apart by filter, pipe and direction.
LEMMA EndsDiffer ==
    /\ \A f, g, p, q, d, e : End(f, p, d) = End(g, q, e) <=> f = g /\ p = q /\ d = e
    /\ \A x : x \in PipeEnds <=> \E f \in Filters, p \in {"in", "out"}, e \in {"r", "w"} :
                                     x = End(f, p, e)
    /\ NoFile \notin PipeEnds /\ Inherited \notin PipeEnds
<1>1. \A f, g, p, q, d, e : End(f, p, d) = End(g, q, e) <=> f = g /\ p = q /\ d = e
  BY DEF End
<1>2. \A x : x \in PipeEnds <=> \E f \in Filters, p \in {"in", "out"}, e \in {"r", "w"} :
                                   x = End(f, p, e)
  BY DEF End, PipeEnds
<1>3. NoFile \notin PipeEnds /\ Inherited \notin PipeEnds
  BY DEF End, PipeEnds, NoFile, Inherited
<1> QED
  BY <1>1, <1>2, <1>3

\* The same for the four ends of a filter's pipes.
LEMMA FourEnds ==
    ASSUME NEW f \in Filters, NEW g \in Filters
    PROVE  /\ End(f, "in", "w") = End(g, "in", "w") <=> f = g
           /\ End(f, "in", "r") = End(g, "in", "r") <=> f = g
           /\ End(f, "out", "w") = End(g, "out", "w") <=> f = g
           /\ End(f, "out", "r") = End(g, "out", "r") <=> f = g
           /\ End(f, "in", "w") # End(g, "in", "r")
           /\ End(f, "in", "w") # End(g, "out", "r")
           /\ End(f, "in", "w") # End(g, "out", "w")
           /\ End(f, "in", "r") # End(g, "out", "r")
           /\ End(f, "in", "r") # End(g, "out", "w")
           /\ End(f, "out", "r") # End(g, "out", "w")
BY DEF End

\* What a pipe is made of fits into a descriptor.
LEMMA DescriptorsFit ==
    /\ Closed \in Descriptor
    /\ \A f \in Filters, p \in {"in", "out"}, e \in {"r", "w"}, c \in BOOLEAN :
          [file |-> End(f, p, e), cloexec |-> c] \in Descriptor
    /\ \A open : Table(open) \in [Fds -> Descriptor]
<1>1. \A f \in Filters, p \in {"in", "out"}, e \in {"r", "w"} : End(f, p, e) \in PipeEnds
  BY EndsDiffer
<1> QED
  BY <1>1 DEF Closed, Descriptor, Table

-----------------------------------------------------------------------------
\* The ends whose place the parent has noted: of a filter that is being started
\* in ends, of a started one in procs.
InEndsMade   == main \in {"pipe_out", "spawn", "close_in"}
OutEndsMade  == main \in {"spawn", "close_in", "close_out"}
StdinKept(f)  == f < k \/ (f = k /\ main \in {"close_out", "started"})
StdoutKept(f) == f < k \/ (f = k /\ main = "started")

Placed ==
    /\ main = "start" => k = 1
    /\ InEndsMade => ends.stdin0 \in Fds /\ ends.stdin1 \in Fds
    /\ OutEndsMade =>
          ends.stdout0 \in Fds /\ ends.stdout1 \in Fds /\ ends.stdout0 < ends.stdout1
    /\ \A f \in Filters : StdinKept(f) => procs[f].stdin \in Fds
    /\ \A f \in Filters : StdoutKept(f) => procs[f].stdout \in Fds

LEMMA FdsAreNumbers == (\A d \in Fds : d \in Nat) /\ {0, 1, 2} \subseteq Fds
BY SpawnAssumption DEF Fds

LEMMA ExitEnds ==
    ASSUME Exit
    PROVE  fds' \in [Fds -> Descriptor] /\ main' = "exited"
BY DescriptorsFit DEF Exit

LEMMA TypedAndPlaced == Spec => [](TypeOK /\ Placed)
<1>1. Init => TypeOK /\ Placed
  BY SpawnAssumption, DescriptorsFit
     DEF Init, TypeOK, Placed, InEndsMade, OutEndsMade, StdinKept, StdoutKept, Filters
<1>2. TypeOK /\ Placed /\ [Next]_vars => TypeOK' /\ Placed'
  <2> SUFFICES ASSUME TypeOK, Placed, [Next]_vars
               PROVE  TypeOK' /\ Placed'
    OBVIOUS
  <2> USE DEF TypeOK, Placed, InEndsMade, OutEndsMade, StdinKept, StdoutKept
  <2>0. nprocs \in Nat /\ (main \notin {"start", "exited"} => k \in Filters)
    BY FiltersAreCounted, SpawnAssumption
  <2>00. Filters \subseteq Nat
    BY DEF Filters
  <2>2. ASSUME ~NoRoom, NEW p \in {"in", "out"}, main # "start", main # "exited"
        PROVE  /\ ReadFd(fds) \in Fds /\ WriteFd(fds) \in Fds /\ ReadFd(fds) < WriteFd(fds)
               /\ ReadFd(fds) \in Int /\ WriteFd(fds) \in Int
               /\ WithPipe(fds, k, p) \in [Fds -> Descriptor]
    <3>1. ReadFd(fds) \in Fds /\ WriteFd(fds) \in Fds /\ ReadFd(fds) < WriteFd(fds)
      BY <2>2, PipeTakesFree DEF FreeFds, NoRoom
    <3>2. \A e \in {"r", "w"} : [file |-> End(k, p, e), cloexec |-> TRUE] \in Descriptor
      BY <2>0, <2>2, DescriptorsFit
    <3>3. ReadFd(fds) \in Int /\ WriteFd(fds) \in Int
      BY <3>1, FdsAreNumbers
    <3>4. WithPipe(fds, k, p) \in [Fds -> Descriptor]
      BY <3>1, <3>2 DEF WithPipe
    <3> QED
      BY <3>1, <3>3, <3>4
  <2>3. CASE Start
    BY <2>0, <2>3, ExitEnds DEF Start
  <2>4. CASE MakeStdinPipe
    <3>1. CASE ~NoRoom /\ main' = "pipe_out"
      <4>1. fds' \in [Fds -> Descriptor]
        BY <2>2, <2>4, <3>1 DEF MakeStdinPipe, Exit
      <4>2. ends' \in [stdin0 : Int, stdin1 : Int, stdout0 : Int, stdout1 : Int]
        BY <2>2, <2>4, <3>1 DEF MakeStdinPipe, Exit
      <4>3. ends'.stdin0 \in Fds /\ ends'.stdin1 \in Fds
        BY <2>2, <2>4, <3>1 DEF MakeStdinPipe, Exit
      <4> QED
        BY <2>0, <2>4, <3>1, <4>1, <4>2, <4>3 DEF MakeStdinPipe
    <3>2. CASE Exit /\ UNCHANGED ends
      BY <2>0, <2>4, <3>2, ExitEnds DEF MakeStdinPipe
    <3> QED
      BY <2>4, <3>1, <3>2 DEF MakeStdinPipe, Exit
  <2>5. CASE MakeStdoutPipe
    BY <2>0, <2>2, <2>5, ExitEnds DEF MakeStdoutPipe
  <2>6. CASE Spawn
    <3>1. \A d \in Fds : [file |-> fds[d].file, cloexec |-> FALSE] \in Descriptor
      BY DEF Descriptor
    <3>2. FileActions(fds) \in [Fds -> Descriptor]
      BY <2>6, <3>1, FdsAreNumbers DEF FileActions, Dup2, Spawn
    <3>3. Exec(FileActions(fds)) \in [Fds -> Descriptor]
      BY DescriptorsFit, <3>2 DEF Exec
    <3>4. childFds' \in [Filters -> [Fds -> Descriptor]]
      BY <2>6, <3>3 DEF Spawn
    <3>5. filter' \in [Filters -> {"none", "running", "gone"}]
      BY <2>6 DEF Spawn
    <3>6. fds' \in [Fds -> Descriptor] /\ main' \in {"close_in", "exited"}
      BY <2>6, ExitEnds DEF Spawn
    <3> QED
      BY <2>0, <2>6, <3>4, <3>5, <3>6 DEF Spawn
  <2>7. CASE KeepStdin
    BY <2>0, <2>7, DescriptorsFit DEF KeepStdin, WithClosed
  <2>8. CASE KeepStdout
    BY <2>0, <2>8, DescriptorsFit DEF KeepStdout, WithClosed
  <2>9. CASE NextFilter
    BY <2>0, <2>00, <2>9 DEF NextFilter, MoreFilters
  <2>10. CASE Finish
    BY <2>10, ExitEnds DEF Finish
  <2>11. ASSUME NEW f \in Filters, ReachEof(f) \/ Quit(f) PROVE TypeOK' /\ Placed'
    BY <2>11 DEF ReachEof, Quit
  <2>12. CASE UNCHANGED vars
    BY <2>12 DEF vars
  <2> QED
    BY <2>3, <2>4, <2>5, <2>6, <2>7, <2>8, <2>9, <2>10, <2>11, <2>12 DEF Next, MainNext, Done
<1> QED
  BY <1>1, <1>2, PTL DEF Spec

\* Descriptor tables stay descriptor tables, for any size of them and any number of
\* filters: main() starts no filter beyond the last command.
THEOREM FiltersTypeCorrect == Spec => []TypeOK
BY TypedAndPlaced, PTL

-----------------------------------------------------------------------------
\* Which pipe ends the parent has, and where: the outer ends of started filters
\* are where procs says, the ends of the current one where ends says.
InWriteAt(d, f)  == (StdinKept(f) /\ d = procs[f].stdin) \/ (f = k /\ InEndsMade /\ d = ends.stdin1)
InReadAt(d, f)   == f = k /\ InEndsMade /\ d = ends.stdin0
OutReadAt(d, f)  == (StdoutKept(f) /\ d = procs[f].stdout) \/ (f = k /\ OutEndsMade /\ d = ends.stdout0)
OutWriteAt(d, f) == f = k /\ OutEndsMade /\ d = ends.stdout1

Layout ==
    \A d \in Fds, f \in Filters :
        main \notin {"start", "exited"} =>
            /\ fds[d].file = End(f, "in", "w")  <=> InWriteAt(d, f)
            /\ fds[d].file = End(f, "in", "r")  <=> InReadAt(d, f)
            /\ fds[d].file = End(f, "out", "r") <=> OutReadAt(d, f)
            /\ fds[d].file = End(f, "out", "w") <=> OutWriteAt(d, f)

\* Before the first pipe and after the end there are no pipe ends; all others are
\* closed by exec.
Marked ==
    \A d \in Fds : fds[d].file \in PipeEnds =>
        main \notin {"start", "exited"} /\ fds[d].cloexec

LEMMA ExitClosesAll ==
    ASSUME Exit
    PROVE  Layout' /\ Marked'
BY EndsDiffer DEF Exit, Layout, Marked, Table, Closed

LEMMA ParentsTable == Spec => [](Layout /\ Marked)
<1>1. Init => Layout /\ Marked
  BY EndsDiffer DEF Init, Layout, Marked, Table, Closed
<1>2. TypeOK /\ Placed /\ Layout /\ Marked /\ [Next]_vars => Layout' /\ Marked'
  <2> SUFFICES ASSUME TypeOK, Placed, Layout, Marked, [Next]_vars
               PROVE  Layout' /\ Marked'
    OBVIOUS
  <2> USE DEF InWriteAt, InReadAt, OutReadAt, OutWriteAt,
              InEndsMade, OutEndsMade, StdinKept, StdoutKept
  <2>0. /\ nprocs \in Nat /\ k \in Nat \ {0} /\ fds \in [Fds -> Descriptor]
        /\ (main \notin {"start", "exited"} => k \in Filters)
        /\ procs \in [Filters -> [stdin : Int, stdout : Int]]
        /\ \A f \in Filters : f \in Nat \ {0}
    BY FiltersAreCounted, SpawnAssumption DEF TypeOK, Filters
  <2>1. ASSUME ~NoRoom
        PROVE  /\ ReadFd(fds) \in Fds /\ WriteFd(fds) \in Fds /\ ReadFd(fds) # WriteFd(fds)
               /\ fds[ReadFd(fds)].file = NoFile /\ fds[WriteFd(fds)].file = NoFile
    BY <2>1, PipeTakesFree, FdsAreNumbers DEF FreeFds, NoRoom
  <2>2. \A f \in Filters, p \in {"in", "out"}, e \in {"r", "w"} :
            End(f, p, e) \in PipeEnds /\ End(f, p, e) # NoFile
    BY EndsDiffer
  <2>3. CASE Start
    <3>1. CASE main' = "pipe_in"
      BY <2>0, <2>2, <2>3, <3>1 DEF Start, Layout, Marked, Placed, Exit
    <3> QED
      BY <2>3, <3>1, ExitClosesAll DEF Start
  <2>4. CASE MakeStdinPipe
    <3>1. CASE main' = "pipe_out"
      <4>1. /\ ~NoRoom /\ fds' = WithPipe(fds, k, "in") /\ UNCHANGED <<k, procs>>
            /\ ends' = [ends EXCEPT !.stdin0 = ReadFd(fds), !.stdin1 = WriteFd(fds)]
        BY <2>4, <3>1 DEF MakeStdinPipe, Exit
      <4>2. \A d \in Fds :
                fds'[d] = IF d = WriteFd(fds) THEN [file |-> End(k, "in", "w"), cloexec |-> TRUE]
                          ELSE IF d = ReadFd(fds) THEN [file |-> End(k, "in", "r"), cloexec |-> TRUE]
                          ELSE fds[d]
        BY <2>0, <2>1, <4>1 DEF WithPipe
      <4>3. Marked'
        BY <2>4, <3>1, <4>2 DEF Marked, MakeStdinPipe
      <4>4. ASSUME NEW d \in Fds, NEW f \in Filters
            PROVE  /\ fds'[d].file = End(f, "in", "w")  <=> InWriteAt(d, f)'
                   /\ fds'[d].file = End(f, "in", "r")  <=> InReadAt(d, f)'
                   /\ fds'[d].file = End(f, "out", "r") <=> OutReadAt(d, f)'
                   /\ fds'[d].file = End(f, "out", "w") <=> OutWriteAt(d, f)'
        <5>1. ends'.stdin0 = ReadFd(fds) /\ ends'.stdin1 = WriteFd(fds) /\ main = "pipe_in"
          BY <2>4, <4>1 DEF MakeStdinPipe, TypeOK
        <5>2. /\ fds[d].file = End(f, "in", "w")  <=> InWriteAt(d, f)
              /\ fds[d].file = End(f, "in", "r")  <=> InReadAt(d, f)
              /\ fds[d].file = End(f, "out", "r") <=> OutReadAt(d, f)
              /\ fds[d].file = End(f, "out", "w") <=> OutWriteAt(d, f)
          BY <5>1 DEF Layout
        <5>3. k \in Filters
          BY <2>0, <5>1
        <5>4. d \in {ReadFd(fds), WriteFd(fds)} =>
                  /\ ~ InWriteAt(d, f) /\ ~ InReadAt(d, f)
                  /\ ~ OutReadAt(d, f) /\ ~ OutWriteAt(d, f)
          BY <2>1, <2>2, <4>1, <5>2
        <5>5. CASE d = WriteFd(fds)
          BY <2>1, <3>1, <4>1, <4>2, <5>1, <5>5, <5>3, <5>4, FourEnds
        <5>6. CASE d = ReadFd(fds)
          BY <2>1, <3>1, <4>1, <4>2, <5>1, <5>6, <5>3, <5>4, FourEnds
        <5>7. CASE d # WriteFd(fds) /\ d # ReadFd(fds)
          BY <2>0, <3>1, <4>1, <4>2, <5>1, <5>2, <5>7
        <5> QED
          BY <5>5, <5>6, <5>7
      <4> QED
        BY <4>3, <4>4 DEF Layout
    <3> QED
      BY <2>4, <3>1, ExitClosesAll DEF MakeStdinPipe
  <2>5. CASE MakeStdoutPipe
    <3>1. CASE main' = "spawn"
      <4>1. /\ ~NoRoom /\ fds' = WithPipe(fds, k, "out") /\ UNCHANGED <<k, procs>>
            /\ ends' = [ends EXCEPT !.stdout0 = ReadFd(fds), !.stdout1 = WriteFd(fds)]
        BY <2>5, <3>1 DEF MakeStdoutPipe, Exit
      <4>2. \A d \in Fds :
                fds'[d] = IF d = WriteFd(fds) THEN [file |-> End(k, "out", "w"), cloexec |-> TRUE]
                          ELSE IF d = ReadFd(fds) THEN [file |-> End(k, "out", "r"), cloexec |-> TRUE]
                          ELSE fds[d]
        BY <2>0, <2>1, <4>1 DEF WithPipe
      <4>3. Marked'
        BY <2>5, <3>1, <4>2 DEF Marked, MakeStdoutPipe
      <4>4. ASSUME NEW d \in Fds, NEW f \in Filters
            PROVE  /\ fds'[d].file = End(f, "in", "w")  <=> InWriteAt(d, f)'
                   /\ fds'[d].file = End(f, "in", "r")  <=> InReadAt(d, f)'
                   /\ fds'[d].file = End(f, "out", "r") <=> OutReadAt(d, f)'
                   /\ fds'[d].file = End(f, "out", "w") <=> OutWriteAt(d, f)'
        <5>1. /\ ends'.stdout0 = ReadFd(fds) /\ ends'.stdout1 = WriteFd(fds) /\ main = "pipe_out"
              /\ ends'.stdin0 = ends.stdin0 /\ ends'.stdin1 = ends.stdin1
          BY <2>5, <4>1 DEF MakeStdoutPipe, TypeOK
        <5>2. /\ fds[d].file = End(f, "in", "w")  <=> InWriteAt(d, f)
              /\ fds[d].file = End(f, "in", "r")  <=> InReadAt(d, f)
              /\ fds[d].file = End(f, "out", "r") <=> OutReadAt(d, f)
              /\ fds[d].file = End(f, "out", "w") <=> OutWriteAt(d, f)
          BY <5>1 DEF Layout
        <5>3. k \in Filters
          BY <2>0, <5>1
        <5>4. d \in {ReadFd(fds), WriteFd(fds)} =>
                  /\ ~ InWriteAt(d, f) /\ ~ InReadAt(d, f)
                  /\ ~ OutReadAt(d, f) /\ ~ OutWriteAt(d, f)
          BY <2>1, <2>2, <4>1, <5>2
        <5>5. CASE d = WriteFd(fds)
          BY <2>1, <3>1, <4>1, <4>2, <5>1, <5>5, <5>3, <5>4, FourEnds
        <5>6. CASE d = ReadFd(fds)
          BY <2>1, <3>1, <4>1, <4>2, <5>1, <5>6, <5>3, <5>4, FourEnds
        <5>7. CASE d # WriteFd(fds) /\ d # ReadFd(fds)
          BY <2>0, <3>1, <4>1, <4>2, <5>1, <5>2, <5>7
        <5> QED
          BY <5>5, <5>6, <5>7
      <4> QED
        BY <4>3, <4>4 DEF Layout
    <3> QED
      BY <2>5, <3>1, ExitClosesAll DEF MakeStdoutPipe
  <2>6. CASE Spawn
    <3>1. CASE main' = "close_in"
      BY <2>0, <2>6, <3>1 DEF Spawn, Layout, Marked, Exit
    <3> QED
      BY <2>6, <3>1, ExitClosesAll DEF Spawn
  <2>7. CASE KeepStdin
    <3>1. /\ main = "close_in" /\ main' = "close_out" /\ UNCHANGED <<k, ends>> /\ k \in Filters
          /\ procs' = [procs EXCEPT ![k].stdin = ends.stdin1]
          /\ fds' = [fds EXCEPT ![ends.stdin0] = Closed]
      BY <2>0, <2>7 DEF KeepStdin, WithClosed
    <3>2. ends.stdin0 \in Fds /\ fds[ends.stdin0].file = End(k, "in", "r")
      BY <3>1 DEF Placed, Layout
    <3>3. \A d \in Fds : fds'[d] = IF d = ends.stdin0 THEN Closed ELSE fds[d]
      BY <2>0, <3>1, <3>2
    <3>4. Closed.file = NoFile
      BY DEF Closed
    <3>5. Marked'
      BY <3>1, <3>3, <3>4, EndsDiffer DEF Marked
    <3>6. ASSUME NEW d \in Fds, NEW f \in Filters
          PROVE  /\ fds'[d].file = End(f, "in", "w")  <=> InWriteAt(d, f)'
                 /\ fds'[d].file = End(f, "in", "r")  <=> InReadAt(d, f)'
                 /\ fds'[d].file = End(f, "out", "r") <=> OutReadAt(d, f)'
                 /\ fds'[d].file = End(f, "out", "w") <=> OutWriteAt(d, f)'
      <4>1. /\ fds[d].file = End(f, "in", "w")  <=> InWriteAt(d, f)
            /\ fds[d].file = End(f, "in", "r")  <=> InReadAt(d, f)
            /\ fds[d].file = End(f, "out", "r") <=> OutReadAt(d, f)
            /\ fds[d].file = End(f, "out", "w") <=> OutWriteAt(d, f)
        BY <3>1 DEF Layout
      <4>2. /\ procs'[f].stdin = (IF f = k THEN ends.stdin1 ELSE procs[f].stdin)
            /\ procs'[f].stdout = procs[f].stdout
        BY <2>0, <3>1
      <4>3. CASE d = ends.stdin0
        BY <2>2, <3>1, <3>2, <3>3, <3>4, <4>1, <4>2, <4>3, FourEnds
      <4>4. CASE d # ends.stdin0
        BY <2>0, <3>1, <3>3, <4>1, <4>2, <4>4
      <4> QED
        BY <4>3, <4>4
    <3> QED
      BY <3>5, <3>6 DEF Layout
  <2>8. CASE KeepStdout
    <3>1. /\ main = "close_out" /\ main' = "started" /\ UNCHANGED <<k, ends>> /\ k \in Filters
          /\ procs' = [procs EXCEPT ![k].stdout = ends.stdout0]
          /\ fds' = [fds EXCEPT ![ends.stdout1] = Closed]
      BY <2>0, <2>8 DEF KeepStdout, WithClosed
    <3>2. ends.stdout1 \in Fds /\ fds[ends.stdout1].file = End(k, "out", "w")
      BY <3>1 DEF Placed, Layout
    <3>3. \A d \in Fds : fds'[d] = IF d = ends.stdout1 THEN Closed ELSE fds[d]
      BY <2>0, <3>1, <3>2
    <3>4. Closed.file = NoFile
      BY DEF Closed
    <3>5. Marked'
      BY <3>1, <3>3, <3>4, EndsDiffer DEF Marked
    <3>6. ASSUME NEW d \in Fds, NEW f \in Filters
          PROVE  /\ fds'[d].file = End(f, "in", "w")  <=> InWriteAt(d, f)'
                 /\ fds'[d].file = End(f, "in", "r")  <=> InReadAt(d, f)'
                 /\ fds'[d].file = End(f, "out", "r") <=> OutReadAt(d, f)'
                 /\ fds'[d].file = End(f, "out", "w") <=> OutWriteAt(d, f)'
      <4>1. /\ fds[d].file = End(f, "in", "w")  <=> InWriteAt(d, f)
            /\ fds[d].file = End(f, "in", "r")  <=> InReadAt(d, f)
            /\ fds[d].file = End(f, "out", "r") <=> OutReadAt(d, f)
            /\ fds[d].file = End(f, "out", "w") <=> OutWriteAt(d, f)
        BY <3>1 DEF Layout
      <4>2. /\ procs'[f].stdin = procs[f].stdin
            /\ procs'[f].stdout = (IF f = k THEN ends.stdout0 ELSE procs[f].stdout)
        BY <2>0, <3>1
      <4>3. CASE d = ends.stdout1
        BY <2>2, <3>1, <3>2, <3>3, <3>4, <4>1, <4>2, <4>3, FourEnds
      <4>4. CASE d # ends.stdout1
        BY <2>0, <3>1, <3>3, <4>1, <4>2, <4>4
      <4> QED
        BY <4>3, <4>4
    <3> QED
      BY <3>5, <3>6 DEF Layout
  <2>9. CASE NextFilter
    BY <2>0, <2>9 DEF NextFilter, Layout, Marked
  <2>10. CASE Finish
    BY <2>10, ExitClosesAll DEF Finish
  <2>11. ASSUME NEW f \in Filters, ReachEof(f) \/ Quit(f) PROVE Layout' /\ Marked'
    BY <2>11 DEF ReachEof, Quit, Layout, Marked
  <2>12. CASE UNCHANGED vars
    BY <2>12 DEF vars, Layout, Marked
  <2> QED
    BY <2>3, <2>4, <2>5, <2>6, <2>7, <2>8, <2>9, <2>10, <2>11, <2>12 DEF Next, MainNext, Done
<1> QED
  BY <1>1, <1>2, TypedAndPlaced, PTL DEF Spec

\* Between two starts the parent has the outer ends of the started filters, where
\* procs says, and no other pipe end, for whatever number of filters.
THEOREM ParentKeepsOuterEnds == Spec => []NoDescriptorLeaks
<1>1. TypeOK /\ Placed /\ Layout => NoDescriptorLeaks
  <2> SUFFICES ASSUME TypeOK, Placed, Layout, main \in {"pipe_in", "started"}
               PROVE  {<<d, fds[d].file>> : d \in {d \in Fds : fds[d].file \in PipeEnds}}
                        = {<<procs[f].stdin, End(f, "in", "w")>> : f \in Started}
                            \union {<<procs[f].stdout, End(f, "out", "r")>> : f \in Started}
    BY DEF NoDescriptorLeaks
  <2>1. ASSUME NEW f \in Started
        PROVE  /\ procs[f].stdin \in Fds /\ fds[procs[f].stdin].file = End(f, "in", "w")
               /\ procs[f].stdout \in Fds /\ fds[procs[f].stdout].file = End(f, "out", "r")
    BY DEF Started, Placed, Layout, InWriteAt, OutReadAt, StdinKept, StdoutKept
  <2>2. ASSUME NEW d \in Fds, fds[d].file \in PipeEnds
        PROVE  \E f \in Started :
                   \/ d = procs[f].stdin /\ fds[d].file = End(f, "in", "w")
                   \/ d = procs[f].stdout /\ fds[d].file = End(f, "out", "r")
    <3>1. PICK f \in Filters, p \in {"in", "out"}, e \in {"r", "w"} : fds[d].file = End(f, p, e)
      BY <2>2, EndsDiffer
    <3>2. InWriteAt(d, f) \/ InReadAt(d, f) \/ OutReadAt(d, f) \/ OutWriteAt(d, f)
      BY <3>1 DEF Layout
    <3>3. /\ InWriteAt(d, f) \/ OutReadAt(d, f)
          /\ StdinKept(f) \/ StdoutKept(f)
      BY <3>2 DEF InWriteAt, InReadAt, OutReadAt, OutWriteAt, InEndsMade, OutEndsMade
    <3>4. f \in Started
      BY <3>3 DEF Started, StdinKept, StdoutKept
    <3>5. /\ InWriteAt(d, f) => d = procs[f].stdin /\ fds[d].file = End(f, "in", "w")
          /\ OutReadAt(d, f) => d = procs[f].stdout /\ fds[d].file = End(f, "out", "r")
      BY DEF Layout, InWriteAt, OutReadAt, InEndsMade, OutEndsMade
    <3>6. CASE InWriteAt(d, f)
      BY <3>4, <3>5, <3>6, Zenon
    <3>7. CASE OutReadAt(d, f)
      BY <3>4, <3>5, <3>7, Zenon
    <3> QED
      BY <3>3, <3>6, <3>7
  <2>3. \A f \in Started : End(f, "in", "w") \in PipeEnds /\ End(f, "out", "r") \in PipeEnds
    BY EndsDiffer DEF Started
  <2> QED
    BY <2>1, <2>2, <2>3
<1> QED
  BY <1>1, TypedAndPlaced, ParentsTable, PTL

-----------------------------------------------------------------------------
\* The file actions leave the new filter its two ends and none besides: stdout[1]
\* lies above stdout[0], so that it is not 0 and the first dup2() spares it.
LEMMA FileActionsWire ==
    ASSUME TypeOK, Placed, Layout, Marked, main = "spawn",
           NEW d \in Fds
    PROVE  /\ Exec(FileActions(fds))[0].file = End(k, "in", "r")
           /\ Exec(FileActions(fds))[1].file = End(k, "out", "w")
           /\ d \notin {0, 1} => Exec(FileActions(fds))[d].file \notin PipeEnds
<1> DEFINE tab == FileActions(fds)
<1>1. k \in Filters /\ fds \in [Fds -> Descriptor]
  BY FiltersAreCounted, SpawnAssumption DEF TypeOK
<1>2. /\ ends.stdin0 \in Fds /\ fds[ends.stdin0].file = End(k, "in", "r")
      /\ ends.stdout1 \in Fds /\ fds[ends.stdout1].file = End(k, "out", "w")
  BY <1>1 DEF Placed, Layout, InReadAt, OutWriteAt, InEndsMade, OutEndsMade
<1>3. ends.stdout1 # 0
  BY FdsAreNumbers DEF Placed, OutEndsMade
<1> DEFINE first == Dup2(fds, ends.stdin0, 0)
<1>4. /\ DOMAIN first = Fds
      /\ first[0] = [file |-> End(k, "in", "r"), cloexec |-> FALSE]
      /\ first[ends.stdout1] = fds[ends.stdout1]
      /\ d # 0 => first[d] = fds[d]
  BY <1>1, <1>2, <1>3, FdsAreNumbers DEF Dup2
<1>5. tab = [first EXCEPT ![1] = [file |-> first[ends.stdout1].file, cloexec |-> FALSE]]
  BY DEF FileActions, Dup2
<1> HIDE DEF first
<1>6. /\ tab[0] = [file |-> End(k, "in", "r"), cloexec |-> FALSE]
      /\ tab[1] = [file |-> End(k, "out", "w"), cloexec |-> FALSE]
      /\ d \notin {0, 1} => tab[d] = fds[d]
  BY <1>2, <1>4, <1>5, FdsAreNumbers
<1>7. d \notin {0, 1} /\ ~ fds[d].cloexec => fds[d].file \notin PipeEnds
  BY DEF Marked
<1>8. Closed.file \notin PipeEnds
  BY EndsDiffer DEF Closed
<1> HIDE DEF tab
<1> QED
  BY <1>6, <1>7, <1>8, FdsAreNumbers DEF Exec, tab

\* A filter has its own two pipe ends as stdin and stdout and no other, whichever
\* descriptors were free when they were made.
THEOREM FiltersGetTheirEnds == Spec => []FiltersAreWired
<1>1. Init => FiltersAreWired
  BY DEF Init, FiltersAreWired
<1>2. TypeOK /\ Placed /\ Layout /\ Marked /\ FiltersAreWired /\ [Next]_vars => FiltersAreWired'
  <2> SUFFICES ASSUME TypeOK, Placed, Layout, Marked, FiltersAreWired, [Next]_vars
               PROVE  FiltersAreWired'
    OBVIOUS
  <2>1. CASE Spawn /\ main' = "close_in"
    <3>1. /\ main = "spawn" /\ k \in Filters
          /\ childFds' = [childFds EXCEPT ![k] = Exec(FileActions(fds))]
          /\ filter' = [filter EXCEPT ![k] = "running"]
      BY <2>1, FiltersAreCounted, SpawnAssumption DEF Spawn, Exit, TypeOK
    <3>2. ASSUME NEW f \in Filters, f # k, filter'[f] = "running"
          PROVE  childFds'[f] = childFds[f] /\ filter[f] = "running"
      BY <3>1, <3>2 DEF TypeOK
    <3>3. childFds'[k] = Exec(FileActions(fds))
      BY <3>1 DEF TypeOK
    <3>4. {<<d, childFds'[k][d].file>> : d \in {d \in Fds : childFds'[k][d].file \in PipeEnds}}
            = {<<0, End(k, "in", "r")>>, <<1, End(k, "out", "w")>>}
      <4>1. /\ childFds'[k][0].file = End(k, "in", "r") /\ End(k, "in", "r") \in PipeEnds
            /\ childFds'[k][1].file = End(k, "out", "w") /\ End(k, "out", "w") \in PipeEnds
            /\ 0 \in Fds /\ 1 \in Fds
        BY <3>1, <3>3, FileActionsWire, FdsAreNumbers, EndsDiffer
      <4>2. \A d \in Fds : d \notin {0, 1} => childFds'[k][d].file \notin PipeEnds
        BY <3>1, <3>3, FileActionsWire
      <4> QED
        BY <4>1, <4>2
    <3> QED
      BY <3>2, <3>4 DEF FiltersAreWired
  <2>2. CASE UNCHANGED <<filter, childFds>>
    BY <2>2 DEF FiltersAreWired
  <2>3. ASSUME NEW f \in Filters, ReachEof(f) \/ Quit(f) PROVE FiltersAreWired'
    BY <2>3 DEF ReachEof, Quit, FiltersAreWired, TypeOK
  <2> QED
    BY <2>1, <2>2, <2>3 DEF Next, MainNext, Done, vars, Start, MakeStdinPipe, MakeStdoutPipe,
                            Spawn, KeepStdin, KeepStdout, NextFilter, Finish
<1> QED
  BY <1>1, <1>2, TypedAndPlaced, ParentsTable, PTL DEF Spec

\* Of a filter that has gone nobody has its own ends of the pipes: not the parent,
\* which closed them, nor another filter, which has only its own.
THEOREM EndIsVisible == Spec => []EndOfFilterIsVisible
<1>1. TypeOK /\ Layout /\ Marked /\ FiltersAreWired => EndOfFilterIsVisible
  <2> SUFFICES ASSUME TypeOK, Layout, Marked, FiltersAreWired,
                      NEW f \in Started, filter[f] = "gone",
                      NEW x \in {End(f, "out", "w"), End(f, "in", "r")}
               PROVE  ~Held(x)
    BY DEF EndOfFilterIsVisible
  <2>1. f \in Filters /\ x \in PipeEnds
    BY EndsDiffer DEF Started
  <2>2. ~ ParentHolds(x)
    <3> SUFFICES ASSUME NEW d \in Fds, fds[d].file = x
                 PROVE  FALSE
      BY DEF ParentHolds
    <3>1. main \notin {"start", "exited"}
      BY <2>1 DEF Marked
    <3>2. InReadAt(d, f) \/ OutWriteAt(d, f)
      BY <2>1, <3>1 DEF Layout
    <3> QED
      BY <3>2 DEF Started, InReadAt, OutWriteAt, InEndsMade, OutEndsMade, TypeOK
  <2>3. ASSUME NEW g \in Filters, FilterHolds(g, x) PROVE FALSE
    <3>1. PICK d \in Fds : childFds[g][d].file = x
      BY <2>3 DEF FilterHolds
    <3>2. <<d, x>> \in {<<0, End(g, "in", "r")>>, <<1, End(g, "out", "w")>>}
      BY <2>1, <2>3, <3>1 DEF FiltersAreWired, FilterHolds
    <3>3. g = f
      BY <2>1, <3>2, FourEnds
    <3> QED
      BY <2>3, <3>3 DEF FilterHolds
  <2> QED
    BY <2>2, <2>3 DEF Held
<1> QED
  BY <1>1, TypedAndPlaced, ParentsTable, FiltersGetTheirEnds, PTL
=============================================================================
