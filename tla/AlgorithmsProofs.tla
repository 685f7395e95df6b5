-------------------------- MODULE AlgorithmsProofs --------------------------
(***************************************************************************)
(* Theorems about the functions of MCAlgorithms, for every input that      *)
(* InputsAssumption allows.                                                *)
(***************************************************************************)
EXTENDS MCAlgorithms, FoldTheorems, SequenceTheorems, TLAPS

\* The input is what it was at the beginning.
LEMMA InputKept == Spec => []Init
<1>1. Init /\ [Next]_input => Init'
  BY DEF Init, Next
<1> QED
  BY <1>1, PTL DEF Spec

-----------------------------------------------------------------------------
(* The lines of 16-iouring *)

\* The loop looks at one time after the other.
LEMMA IterationsTrace ==
    ASSUME NEW times \in Seq(Int), times # <<>>
    PROVE  \E at : /\ at[1] = LoopStart(times[1])
                   /\ \A k \in 2..Len(times) : at[k] = Iteration(at[k - 1], times[k])
                   /\ AfterIterations(times) = at[Len(times)]
<1> DEFINE seq == Tail(times)
           n == Len(seq)
           V == [now : Int, lines : Seq(Int)]
           base == LoopStart(times[1])
           step == [k \in 1..n |-> [v \in V |-> Iteration(v, seq[k])]]
           S == 1..n
           IsIter(H) == H = [T \in SUBSET S |->
                               IF T = {} THEN base
                               ELSE Iteration(H[T \ {Greatest(T)}], seq[Greatest(T)])]
           F == CHOOSE H : IsIter(H)
<1>1. /\ seq \in Seq(Int) /\ n \in Nat /\ n = Len(times) - 1 /\ DOMAIN seq = 1..n
      /\ \A k \in 1..n : seq[k] = times[k + 1] /\ seq[k] \in Int
      /\ times[1] \in Int
  OBVIOUS
<1>2. AfterIterations(times) = F[S]
  BY <1>1 DEF AfterIterations, FoldLeft, MapThenFoldSet, Max, Greatest
<1> HIDE DEF seq, n
<1>3. IsFold(n, V, base, step)
  <2>1. base \in V
    BY <1>1 DEF LoopStart
  <2>2. ASSUME NEW k \in 1..n, NEW v \in V PROVE Iteration(v, seq[k]) \in V
    BY <1>1 DEF Iteration
  <2> QED
    BY <1>1, <2>1, <2>2 DEF IsFold
<1>4. PICK G : FoldsUp(G, n, V, base, step)
  BY <1>3, FoldExists
<1>5. IsIter(G)
  <2>1. ASSUME NEW T \in SUBSET S, T # {}
        PROVE  G[T] = Iteration(G[T \ {Greatest(T)}], seq[Greatest(T)])
    <3>1. Greatest(T) \in S
      BY <1>1, <2>1, GreatestExists DEF Greatest
    <3>2. G[T] = step[Greatest(T)][G[T \ {Greatest(T)}]] /\ G[T \ {Greatest(T)}] \in V
      BY <1>4, <2>1 DEF FoldsUp
    <3> HIDE DEF V, S
    <3> QED
      BY <3>1, <3>2 DEF S
  <2>2. \A T \in SUBSET S : G[T] = IF T = {} THEN base
                                   ELSE Iteration(G[T \ {Greatest(T)}], seq[Greatest(T)])
    BY <1>4, <2>1 DEF FoldsUp
  <2>3. G \in [SUBSET S -> V]
    BY <1>4 DEF FoldsUp
  <2> QED
    BY <2>2, <2>3
<1>6. IsIter(F)
  BY <1>5
<1> HIDE DEF F, base, step
<1> DEFINE at == [k \in 1..(n + 1) |-> F[1..(k - 1)]]
<1>7. at[1] = base
  BY <1>1, <1>6
<1>8. ASSUME NEW k \in 2..(n + 1) PROVE at[k] = Iteration(at[k - 1], times[k])
  <2> DEFINE j == k - 1
  <2>1. j \in 1..n /\ j \in Nat \ {0} /\ j + 1 = k
    BY <1>1
  <2>2. 1..j # {} /\ (1..j) \ {j} = 1..(j - 1) /\ Greatest(1..j) = j
    BY <2>1, GreatestNumber DEF Greatest
  <2>3. seq[j] = times[k]
    BY <1>1, <2>1
  <2>5. at[k] = F[1..j] /\ at[k - 1] = F[1..(j - 1)]
    <3>1. k \in 1..(n + 1) /\ k - 1 \in 1..(n + 1)
      BY <1>1
    <3> QED
      BY <3>1
  <2> HIDE DEF j
  <2>4. F[1..j] = Iteration(F[1..(j - 1)], seq[j])
    <3>1. 1..j \in SUBSET S
      BY <1>1, <2>1
    <3>2. \A T \in SUBSET S : T # {} => F[T] = Iteration(F[T \ {Greatest(T)}], seq[Greatest(T)])
      BY <1>6
    <3> HIDE DEF S
    <3>3. F[1..j] = Iteration(F[(1..j) \ {Greatest(1..j)}], seq[Greatest(1..j)])
      BY <2>2, <3>1, <3>2
    <3> QED
      BY <2>2, <3>3
  <2> QED
    BY <2>3, <2>4, <2>5
<1>9. AfterIterations(times) = at[n + 1]
  BY <1>1, <1>2
<1> HIDE DEF at
<1> QED
  BY <1>1, <1>7, <1>8, <1>9 DEF base

\* The positions that do not exceed their predecessor, and those below it, among the
\* first k.
Repeats(lines)     == {n \in 2..Len(lines) : lines[n] <= lines[n - 1]}
SetBacks(times, k) == {n \in 2..k : times[n] < times[n - 1]}

\* Whether the clock is behind the last line.
IsBehind(lines, now) == lines # <<>> /\ now < lines[Len(lines)]

\* What the loop has printed after k looks at the clock: every record has its line,
\* and a line that does not exceed the one before it has a set back of its own.
LoopInv(times, k, s) ==
    /\ s.now = times[k] /\ s.lines \in Seq(Int)
    /\ \A n \in 2..k :
          (\A m \in 1..(n - 1) : times[m] < times[n]) => Contains(s.lines, times[n])
    /\ Cardinality(Repeats(s.lines)) + (IF IsBehind(s.lines, s.now) THEN 1 ELSE 0)
          <= Cardinality(SetBacks(times, k))

\* Both sets are finite.
LEMMA RepeatsAndSetBacksAreFinite ==
    ASSUME NEW lines \in Seq(Int), NEW times \in Seq(Int), NEW k \in Nat
    PROVE  /\ IsFiniteSet(Repeats(lines)) /\ Cardinality(Repeats(lines)) \in Nat
           /\ IsFiniteSet(SetBacks(times, k)) /\ Cardinality(SetBacks(times, k)) \in Nat
<1>1. Len(lines) \in Int /\ k \in Int /\ 2 \in Int
  OBVIOUS
<1>2. IsFiniteSet(2..Len(lines)) /\ IsFiniteSet(2..k)
  BY <1>1, FS_Interval
<1>3. Repeats(lines) \subseteq 2..Len(lines) /\ SetBacks(times, k) \subseteq 2..k
  BY DEF Repeats, SetBacks
<1> QED
  BY <1>2, <1>3, FS_Subset, FS_CardinalityType

\* One more line repeats at most itself, and one more look sees one set back at most.
LEMMA OneMoreRepeat ==
    ASSUME NEW lines \in Seq(Int), NEW x \in Int
    PROVE  Cardinality(Repeats(Append(lines, x)))
             = Cardinality(Repeats(lines))
                 + (IF lines # <<>> /\ x <= lines[Len(lines)] THEN 1 ELSE 0)
<1> DEFINE l == Len(lines)
           new == Append(lines, x)
<1>1. l \in Nat /\ Len(new) = l + 1 /\ new[l + 1] = x /\ \A n \in 1..l : new[n] = lines[n]
  OBVIOUS
<1>2. (lines # <<>>) = (l >= 1)
  OBVIOUS
<1>3. IsFiniteSet(Repeats(lines)) /\ Cardinality(Repeats(lines)) \in Nat /\ l + 1 \notin Repeats(lines)
  BY <1>1, RepeatsAndSetBacksAreFinite DEF Repeats
<1>4. CASE l >= 1 /\ x <= lines[l]
  <2>1. Repeats(new) = Repeats(lines) \union {l + 1}
    BY <1>1, <1>4 DEF Repeats
  <2> QED
    BY <1>2, <1>3, <1>4, <2>1, FS_AddElement
<1>5. CASE ~ (l >= 1 /\ x <= lines[l])
  <2>1. Repeats(new) = Repeats(lines)
    BY <1>1, <1>5 DEF Repeats
  <2> QED
    BY <1>2, <1>3, <1>5, <2>1
<1> QED
  BY <1>4, <1>5

\* A reading more sets the clock back once more or not.
LEMMA OneMoreSetBack ==
    ASSUME NEW times \in Seq(Int), NEW k \in Nat \ {0}
    PROVE  Cardinality(SetBacks(times, k + 1))
             = Cardinality(SetBacks(times, k)) + (IF times[k + 1] < times[k] THEN 1 ELSE 0)
<1>1. /\ IsFiniteSet(SetBacks(times, k)) /\ Cardinality(SetBacks(times, k)) \in Nat
      /\ k + 1 \notin SetBacks(times, k)
  BY RepeatsAndSetBacksAreFinite DEF SetBacks
<1>2. CASE times[k + 1] < times[k]
  <2>1. SetBacks(times, k + 1) = SetBacks(times, k) \union {k + 1}
    BY <1>2 DEF SetBacks
  <2> QED
    BY <1>1, <1>2, <2>1, FS_AddElement
<1>3. CASE ~ (times[k + 1] < times[k])
  <2>1. SetBacks(times, k + 1) = SetBacks(times, k)
    BY <1>3 DEF SetBacks
  <2> QED
    BY <1>1, <1>3, <2>1
<1> QED
  BY <1>2, <1>3

\* An iteration preserves the invariant.
LEMMA LoopStep ==
    ASSUME NEW times \in Seq(Int), NEW k \in 1..(Len(times) - 1),
           NEW s, LoopInv(times, k, s)
    PROVE  LoopInv(times, k + 1, Iteration(s, times[k + 1]))
<1> DEFINE x == times[k + 1]
           lines == s.lines
           l == Len(lines)
           back == Cardinality(SetBacks(times, k))
           repeats == Cardinality(Repeats(lines))
           next == Iteration(s, x)
           Record(n) == \A m \in 1..(n - 1) : times[m] < times[n]
<1>1. /\ k \in Nat \ {0} /\ k \in 1..Len(times) /\ k + 1 \in 1..Len(times)
      /\ x \in Int /\ times[k] \in Int
  OBVIOUS
<1>2. s.now = times[k] /\ lines \in Seq(Int) /\ l \in Nat
  BY DEF LoopInv
<1>3. repeats + (IF IsBehind(lines, times[k]) THEN 1 ELSE 0) <= back
  BY <1>2 DEF LoopInv
<1>4. \A n \in 2..k : Record(n) => Contains(lines, times[n])
  BY DEF LoopInv
<1>5. repeats \in Nat /\ back \in Nat
  BY <1>1, <1>2, RepeatsAndSetBacksAreFinite
<1>6. Cardinality(SetBacks(times, k + 1)) = back + (IF x < times[k] THEN 1 ELSE 0)
  BY <1>1, OneMoreSetBack
<1>7. lines # <<>> => lines[l] \in Int
  BY <1>2
<1> HIDE DEF repeats, back, lines, l
<1>8. CASE times[k] < x
  <2> DEFINE new == Append(lines, x)
  <2>1. next.now = x /\ next.lines = new
    BY <1>2, <1>8 DEF Iteration, NewSecond, lines
  <2>2. new \in Seq(Int) /\ new # <<>> /\ Len(new) = l + 1 /\ new[l + 1] = x
    BY <1>1, <1>2 DEF l
  <2>3. ~ IsBehind(new, x)
    BY <1>1, <2>2 DEF IsBehind
  <2>4. Cardinality(Repeats(new))
          = repeats + (IF lines # <<>> /\ x <= lines[l] THEN 1 ELSE 0)
    BY <1>1, <1>2, OneMoreRepeat DEF repeats, l
  <2>5. lines # <<>> /\ x <= lines[l] => IsBehind(lines, times[k])
    BY <1>1, <1>7, <1>8 DEF IsBehind, l
  <2>6. Cardinality(Repeats(new)) <= Cardinality(SetBacks(times, k + 1))
    BY <1>1, <1>3, <1>5, <1>6, <1>8, <2>4, <2>5
  <2>7. Cardinality(Repeats(new)) \in Nat
    BY <2>2, <1>1, RepeatsAndSetBacksAreFinite
  <2>8. ASSUME NEW n \in 2..(k + 1), Record(n) PROVE Contains(new, times[n])
    <3>1. CASE n = k + 1
      <4>1. l + 1 \in 1..Len(new) /\ new[l + 1] = times[n]
        BY <1>2, <2>2, <3>1
      <4> HIDE DEF new
      <4> QED
        BY <4>1 DEF Contains
    <3>2. CASE n # k + 1
      <4>1. n \in 2..k
        BY <1>1, <3>2
      <4>2. PICK j \in 1..l : lines[j] = times[n]
        BY <1>4, <2>8, <4>1 DEF Contains, l
      <4>3. new[j] = times[n] /\ j \in 1..Len(new)
        BY <1>1, <1>2, <2>2, <4>2 DEF l
      <4> HIDE DEF new
      <4> QED
        BY <4>3 DEF Contains
    <3> QED
      BY <3>1, <3>2
  <2> HIDE DEF new, next
  <2> QED
    BY <2>1, <2>2, <2>3, <2>6, <2>7, <2>8 DEF LoopInv, next
<1>9. CASE ~ (times[k] < x)
  <2>1. next.now = x /\ next.lines = lines
    BY <1>2, <1>9 DEF Iteration, NewSecond, lines
  <2>2. repeats + (IF IsBehind(lines, x) THEN 1 ELSE 0) <= Cardinality(SetBacks(times, k + 1))
    <3>1. CASE x = times[k]
      BY <1>3, <1>5, <1>6, <3>1
    <3>2. CASE x < times[k]
      BY <1>3, <1>5, <1>6, <3>2
    <3> QED
      BY <1>1, <1>9, <3>1, <3>2
  <2>3. \A n \in 2..(k + 1) : Record(n) => Contains(lines, times[n])
    <3>1. ~ Record(k + 1)
      BY <1>1, <1>9
    <3> HIDE DEF Record
    <3> QED
      BY <1>1, <1>4, <3>1
  <2> HIDE DEF next
  <2> QED
    BY <1>2, <2>1, <2>2, <2>3 DEF LoopInv, repeats, next
<1> QED
  BY <1>8, <1>9

\* The loop keeps its invariant from the first look at the clock to the last.
LEMMA LoopHolds ==
    ASSUME NEW times \in Seq(Int), times # <<>>
    PROVE  LoopInv(times, Len(times), AfterIterations(times))
<1>1. PICK at : /\ at[1] = LoopStart(times[1])
                /\ \A k \in 2..Len(times) : at[k] = Iteration(at[k - 1], times[k])
                /\ AfterIterations(times) = at[Len(times)]
  BY IterationsTrace
<1> DEFINE N == {k \in Nat : k \in 1..Len(times) => LoopInv(times, k, at[k])}
<1>2. LoopInv(times, 1, at[1])
  <2>1. at[1].now = times[1] /\ at[1].lines = <<>>
    BY <1>1 DEF LoopStart
  <2>2. Repeats(<<>>) = {} /\ SetBacks(times, 1) = {} /\ ~ IsBehind(<<>>, times[1])
    BY DEF Repeats, SetBacks, IsBehind
  <2>3. Cardinality({}) = 0
    BY FS_EmptySet
  <2>4. <<>> \in Seq(Int)
    OBVIOUS
  <2>5. Cardinality(Repeats(<<>>)) + (IF IsBehind(<<>>, times[1]) THEN 1 ELSE 0)
          <= Cardinality(SetBacks(times, 1))
    <3>1. Cardinality(Repeats(<<>>)) = 0 /\ Cardinality(SetBacks(times, 1)) = 0
      BY <2>2, <2>3, Zenon
    <3> QED
      BY <2>2, <3>1
  <2> QED
    BY <2>1, <2>4, <2>5 DEF LoopInv
<1>3. 0 \in N
  OBVIOUS
<1>4. ASSUME NEW k \in Nat, k \in N PROVE k + 1 \in N
  <2> SUFFICES ASSUME k + 1 \in 1..Len(times) PROVE LoopInv(times, k + 1, at[k + 1])
    OBVIOUS
  <2>1. CASE k = 0
    BY <1>2, <2>1
  <2>2. CASE k # 0
    <3>1. k \in 1..(Len(times) - 1) /\ k + 1 \in 2..Len(times) /\ LoopInv(times, k, at[k])
      BY <1>4, <2>2
    <3>2. at[k + 1] = Iteration(at[k], times[k + 1])
      BY <1>1, <3>1
    <3> QED
      BY <3>1, <3>2, LoopStep
  <2> QED
    BY <2>1, <2>2
<1> HIDE DEF N
<1>5. Nat \subseteq N
  BY <1>3, <1>4, NumberInduction
<1>6. Len(times) \in Nat /\ Len(times) \in 1..Len(times)
  OBVIOUS
<1> QED
  BY <1>1, <1>5, <1>6 DEF N

\* Whatever the clock does, every second that it reaches has its line, and there
\* are no more repeated lines than times it was set back.
THEOREM EverySecondHasOneLine == Spec => []SecondsHaveOneLine
<1>1. Init => SecondsHaveOneLine
  <2> SUFFICES ASSUME Init, input.kind = "clock" PROVE SecondsHaveOneLine
    BY DEF SecondsHaveOneLine
  <2> DEFINE times == input.times
  <2>1. times \in Seq(Int) /\ times # <<>>
    BY InputsAssumption DEF Init
  <2> HIDE DEF times
  <2>2. LoopInv(times, Len(times), AfterIterations(times))
    BY <2>1, LoopHolds
  <2> DEFINE lines == AfterIterations(times).lines
  <2>3. \A n \in 2..Len(times) :
           (\A m \in 1..(n - 1) : times[m] < times[n]) => Contains(lines, times[n])
    BY <2>2 DEF LoopInv
  <2>4. Cardinality(Repeats(lines)) <= Cardinality(SetBacks(times, Len(times)))
    <3>1. lines \in Seq(Int) /\ Len(times) \in Nat
      BY <2>1, <2>2 DEF LoopInv
    <3>2. /\ Cardinality(Repeats(lines)) \in Nat
          /\ Cardinality(SetBacks(times, Len(times))) \in Nat
      BY <2>1, <3>1, RepeatsAndSetBacksAreFinite
    <3> QED
      BY <2>2, <3>2 DEF LoopInv
  <2> QED
    BY <2>3, <2>4 DEF SecondsHaveOneLine, Repeats, SetBacks, times
<1> QED
  BY <1>1, InputKept, PTL

-----------------------------------------------------------------------------
(* The flag of 24-syscall *)

\* What an operation of a program does.
Perform(s, op, installed) ==
    IF op = "call" THEN Call(s, installed) ELSE usyscall_enable(s, op = "enable")

Outcomes == {"SIGSYS", "done"}

\* A program runs one operation after the other.
LEMMA ProgramTrace ==
    ASSUME NEW p \in Seq(Operations), NEW installed \in BOOLEAN
    PROVE  \E at : /\ at[0] = Started
                   /\ \A k \in 1..Len(p) : at[k] = Perform(at[k - 1], p[k], installed)
                   /\ After(p, installed) = at[Len(p)]
<1> DEFINE n == Len(p)
           V == [blocked : BOOLEAN, calls : Seq(Outcomes)]
           step == [k \in 1..n |-> [v \in V |-> Perform(v, p[k], installed)]]
           S == 1..n
           IsIter(H) == H = [T \in SUBSET S |->
                               IF T = {} THEN Started
                               ELSE Perform(H[T \ {Greatest(T)}], p[Greatest(T)], installed)]
           F == CHOOSE H : IsIter(H)
<1>1. n \in Nat /\ DOMAIN p = 1..n /\ \A k \in 1..n : p[k] \in Operations
  OBVIOUS
<1>2. After(p, installed) = F[S]
  BY <1>1 DEF After, FoldLeft, MapThenFoldSet, Max, Greatest, Perform
<1> HIDE DEF n
<1>3. IsFold(n, V, Started, step)
  <2>1. Started \in V
    BY DEF Started
  <2>2. ASSUME NEW k \in 1..n, NEW v \in V PROVE Perform(v, p[k], installed) \in V
    <3>1. ASSUME NEW b \in BOOLEAN PROVE [v EXCEPT !.blocked = b] \in V
      OBVIOUS
    <3>2. ASSUME NEW x \in Outcomes
          PROVE  [v EXCEPT !.calls = Append(@, x)] \in V
      <4> DEFINE q == Append(v.calls, x)
      <4>1. q \in Seq(Outcomes)
        OBVIOUS
      <4> HIDE DEF q
      <4>2. [v EXCEPT !.calls = q] \in V
        BY <4>1
      <4> QED
        BY <4>2 DEF q
    <3>3. ASSUME NEW w \in V PROVE [w EXCEPT !.blocked = FALSE] \in V
      OBVIOUS
    <3>4. (p[k] = "enable") \in BOOLEAN
      OBVIOUS
    <3>5. usyscall_enable(v, p[k] = "enable") \in V
      BY <3>1, <3>4 DEF usyscall_enable
    <3>6. "SIGSYS" \in Outcomes /\ "done" \in Outcomes
      BY DEF Outcomes
    <3> HIDE DEF V
    <3>7. Call(v, installed) \in V
      BY <3>2, <3>3, <3>6 DEF Call, usyscall_enable, usyscall_signal
    <3> QED
      BY <3>5, <3>7 DEF Perform
  <2> QED
    BY <1>1, <2>1, <2>2 DEF IsFold
<1>4. PICK G : FoldsUp(G, n, V, Started, step)
  BY <1>3, FoldExists
<1>5. IsIter(G)
  <2>1. ASSUME NEW T \in SUBSET S, T # {}
        PROVE  G[T] = Perform(G[T \ {Greatest(T)}], p[Greatest(T)], installed)
    <3>1. Greatest(T) \in S
      BY <1>1, <2>1, GreatestExists DEF Greatest
    <3>2. G[T] = step[Greatest(T)][G[T \ {Greatest(T)}]] /\ G[T \ {Greatest(T)}] \in V
      BY <1>4, <2>1 DEF FoldsUp
    <3> HIDE DEF V, S
    <3> QED
      BY <3>1, <3>2 DEF S
  <2>2. \A T \in SUBSET S : G[T] = IF T = {} THEN Started
                                   ELSE Perform(G[T \ {Greatest(T)}], p[Greatest(T)], installed)
    BY <1>4, <2>1 DEF FoldsUp
  <2>3. G \in [SUBSET S -> V]
    BY <1>4 DEF FoldsUp
  <2> QED
    BY <2>2, <2>3
<1>6. IsIter(F)
  BY <1>5
<1> HIDE DEF F, step
<1> DEFINE at == [k \in 0..n |-> F[1..k]]
<1>7. at[0] = Started
  BY <1>1, <1>6
<1>8. ASSUME NEW k \in 1..n PROVE at[k] = Perform(at[k - 1], p[k], installed)
  <2>1. k \in Nat \ {0} /\ k \in 0..n /\ k - 1 \in 0..n /\ 1..k \in SUBSET S
    BY <1>1
  <2>2. 1..k # {} /\ (1..k) \ {k} = 1..(k - 1) /\ Greatest(1..k) = k
    BY <2>1, GreatestNumber DEF Greatest
  <2>3. \A T \in SUBSET S :
           T # {} => F[T] = Perform(F[T \ {Greatest(T)}], p[Greatest(T)], installed)
    BY <1>6
  <2> HIDE DEF S
  <2>4. F[1..k] = Perform(F[(1..k) \ {Greatest(1..k)}], p[Greatest(1..k)], installed)
    BY <2>1, <2>2, <2>3
  <2> QED
    BY <2>1, <2>2, <2>4
<1>9. After(p, installed) = at[n]
  BY <1>1, <1>2
<1> HIDE DEF at
<1> QED
  BY <1>7, <1>8, <1>9 DEF n

\* How many system calls the first k operations make.
CallsAmong(p, k) == Cardinality({m \in 1..k : p[m] = "call"})

\* One operation more makes one call more, if it is one.
LEMMA OneMoreCall ==
    ASSUME NEW p, NEW k \in Nat
    PROVE  /\ CallsAmong(p, 0) = 0 /\ CallsAmong(p, k) \in Nat
           /\ CallsAmong(p, k + 1) = CallsAmong(p, k) + (IF p[k + 1] = "call" THEN 1 ELSE 0)
<1> DEFINE C(n) == {m \in 1..n : p[m] = "call"}
<1>1. C(0) = {} /\ Cardinality({}) = 0
  BY FS_EmptySet
<1>2. IsFiniteSet(C(k)) /\ Cardinality(C(k)) \in Nat /\ k + 1 \notin C(k)
  <2>1. IsFiniteSet(1..k) /\ C(k) \subseteq 1..k
    BY FS_Interval
  <2> QED
    BY <2>1, FS_Subset, FS_CardinalityType
<1>3. CASE p[k + 1] = "call"
  <2>1. C(k + 1) = C(k) \union {k + 1}
    BY <1>3
  <2> HIDE DEF C
  <2>2. Cardinality(C(k + 1)) = Cardinality(C(k)) + 1
    BY <1>2, <2>1, FS_AddElement
  <2> QED
    BY <1>1, <1>2, <1>3, <2>2 DEF CallsAmong, C
<1>4. CASE p[k + 1] # "call"
  <2>1. C(k + 1) = C(k)
    BY <1>4
  <2> QED
    BY <1>1, <1>2, <1>4, <2>1 DEF CallsAmong
<1> QED
  BY <1>3, <1>4

\* After k operations: once the handler is installed the flag is up only behind a
\* call of usyscall_enable(true), and every call went as the theorem says.
FlagInv(p, installed, k, s) ==
    /\ s.calls \in Seq(Outcomes) /\ Len(s.calls) = CallsAmong(p, k)
    /\ installed => (s.blocked <=> k > 0 /\ p[k] = "enable")
    /\ \A n \in 1..k : p[n] = "call" =>
          /\ CallsAmong(p, n) \in 1..CallsAmong(p, k)
          /\ s.calls[CallsAmong(p, n)] = "SIGSYS" <=> installed /\ n > 1 /\ p[n - 1] = "enable"

\* An operation preserves this.
LEMMA FlagStep ==
    ASSUME NEW p \in Seq(Operations), NEW installed \in BOOLEAN, NEW k \in 0..(Len(p) - 1),
           NEW s, s \in [blocked : BOOLEAN, calls : Seq(Outcomes)], FlagInv(p, installed, k, s)
    PROVE  LET next == Perform(s, p[k + 1], installed)
           IN  /\ next \in [blocked : BOOLEAN, calls : Seq(Outcomes)]
               /\ FlagInv(p, installed, k + 1, next)
<1> DEFINE op == p[k + 1]
           next == Perform(s, op, installed)
           c == CallsAmong(p, k)
           d == CallsAmong(p, k + 1)
<1>1. k \in Nat /\ op \in Operations
  OBVIOUS
<1>2. c \in Nat /\ d = c + (IF op = "call" THEN 1 ELSE 0)
  BY <1>1, OneMoreCall
<1>3. /\ s.calls \in Seq(Outcomes) /\ Len(s.calls) = c /\ s.blocked \in BOOLEAN
      /\ installed => (s.blocked <=> k > 0 /\ p[k] = "enable")
  BY DEF FlagInv
<1>4. \A n \in 1..k : p[n] = "call" =>
         /\ CallsAmong(p, n) \in 1..c
         /\ s.calls[CallsAmong(p, n)] = "SIGSYS" <=> installed /\ n > 1 /\ p[n - 1] = "enable"
  BY DEF FlagInv
<1> HIDE DEF c, d
<1>5. CASE op # "call"
  <2>1. next = [blocked |-> op = "enable", calls |-> s.calls]
    BY <1>5 DEF Perform, usyscall_enable
  <2>2. d = c
    BY <1>2, <1>5
  <2>3. next.calls = s.calls /\ next.blocked = (op = "enable")
    BY <2>1
  <2>4. next \in [blocked : BOOLEAN, calls : Seq(Outcomes)]
    BY <1>3, <2>1
  <2> HIDE DEF next
  <2>5. \A n \in 1..(k + 1) : p[n] = "call" =>
           /\ CallsAmong(p, n) \in 1..d
           /\ next.calls[CallsAmong(p, n)] = "SIGSYS" <=> installed /\ n > 1 /\ p[n - 1] = "enable"
    <3>1. \A n \in 1..(k + 1) : p[n] = "call" => n \in 1..k
      BY <1>1, <1>5
    <3> QED
      BY <1>4, <2>2, <2>3, <3>1
  <2>6. FlagInv(p, installed, k + 1, next)
    <3>1. next.blocked <=> k + 1 > 0 /\ p[k + 1] = "enable"
      <4>1. k + 1 > 0
        BY <1>1
      <4>2. next.blocked <=> p[k + 1] = "enable"
        BY <2>3, Zenon
      <4> QED
        BY <4>1, <4>2
    <3>2. next.calls \in Seq(Outcomes) /\ Len(next.calls) = d
      BY <1>3, <2>2, <2>3
    <3> QED
      BY <2>5, <3>1, <3>2 DEF FlagInv, d
  <2> QED
    BY <2>4, <2>6 DEF next
<1>6. CASE op = "call"
  <2> DEFINE x == IF installed /\ s.blocked THEN "SIGSYS" ELSE "done"
             calls == Append(s.calls, x)
  <2>1. next = [blocked |-> IF installed THEN FALSE ELSE s.blocked, calls |-> calls]
    <3>1. CASE installed /\ s.blocked
      BY <1>6, <3>1 DEF Perform, Call, usyscall_enable, usyscall_signal
    <3>2. CASE ~ (installed /\ s.blocked)
      BY <1>3, <1>6, <3>2 DEF Perform, Call
    <3> QED
      BY <3>1, <3>2
  <2>2. d = c + 1
    BY <1>2, <1>6
  <2>3. /\ calls \in Seq(Outcomes) /\ Len(calls) = c + 1 /\ calls[c + 1] = x
        /\ \A j \in 1..c : calls[j] = s.calls[j]
    <3> DEFINE old == s.calls
    <3>1. x \in Outcomes
      BY DEF Outcomes
    <3>2. old \in Seq(Outcomes) /\ Len(old) = c
      BY <1>3
    <3> HIDE DEF old, x
    <3>3. /\ Append(old, x) \in Seq(Outcomes) /\ Len(Append(old, x)) = c + 1
          /\ Append(old, x)[c + 1] = x /\ \A j \in 1..c : Append(old, x)[j] = old[j]
      BY <1>2, <3>1, <3>2
    <3> QED
      BY <3>3 DEF old
  <2>4. next.calls = calls /\ (installed => ~ next.blocked)
    BY <2>1
  <2>5. next \in [blocked : BOOLEAN, calls : Seq(Outcomes)]
    <3>1. (IF installed THEN FALSE ELSE s.blocked) \in BOOLEAN
      BY <1>3
    <3> HIDE DEF calls, next
    <3> QED
      BY <2>1, <2>3, <3>1
  <2>6. (x = "SIGSYS") <=> installed /\ s.blocked
    OBVIOUS
  <2> HIDE DEF next, calls, x
  <2>7. (x = "SIGSYS") <=> installed /\ k > 0 /\ p[k] = "enable"
    BY <1>3, <2>6
  <2>8. ASSUME NEW n \in 1..(k + 1), p[n] = "call"
        PROVE  /\ CallsAmong(p, n) \in 1..d
               /\ next.calls[CallsAmong(p, n)] = "SIGSYS"
                     <=> installed /\ n > 1 /\ p[n - 1] = "enable"
    <3>1. CASE n = k + 1
      <4>1. CallsAmong(p, n) = c + 1 /\ c + 1 \in 1..d
        BY <1>2, <2>2, <3>1 DEF d
      <4>2. next.calls[CallsAmong(p, n)] = x
        BY <2>3, <2>4, <4>1
      <4>3. n - 1 = k /\ (n > 1 <=> k > 0)
        BY <1>1, <3>1
      <4> QED
        BY <2>7, <4>1, <4>2, <4>3
    <3>2. CASE n # k + 1
      <4>1. n \in 1..k
        BY <1>1, <3>2
      <4>2. /\ CallsAmong(p, n) \in 1..c
            /\ s.calls[CallsAmong(p, n)] = "SIGSYS" <=> installed /\ n > 1 /\ p[n - 1] = "enable"
        BY <1>4, <2>8, <4>1
      <4>3. CallsAmong(p, n) \in 1..d
        BY <1>2, <2>2, <4>2
      <4> QED
        BY <2>3, <2>4, <4>2, <4>3
    <3> QED
      BY <3>1, <3>2
  <2>9. FlagInv(p, installed, k + 1, next)
    <3>1. installed => (next.blocked <=> k + 1 > 0 /\ p[k + 1] = "enable")
      BY <1>6, <2>4
    <3> QED
      BY <2>2, <2>3, <2>4, <2>8, <3>1 DEF FlagInv, d
  <2> QED
    BY <2>5, <2>9 DEF next
<1> QED
  BY <1>5, <1>6

\* In a program of any length a system call is redirected if and only if the
\* operation before it raised the flag and the handler is installed.
THEOREM EveryDispatchIsOneShot == Spec => []DispatchIsOneShot
<1>1. Init => DispatchIsOneShot
  <2> SUFFICES ASSUME Init, input.kind = "program" PROVE DispatchIsOneShot
    BY DEF DispatchIsOneShot
  <2> DEFINE p == input.program
             installed == input.installed
             V == [blocked : BOOLEAN, calls : Seq(Outcomes)]
  <2>1. p \in Seq(Operations) /\ installed \in BOOLEAN
    BY InputsAssumption DEF Init
  <2> HIDE DEF p, installed
  <2>2. PICK at : /\ at[0] = Started
                  /\ \A k \in 1..Len(p) : at[k] = Perform(at[k - 1], p[k], installed)
                  /\ After(p, installed) = at[Len(p)]
    BY <2>1, ProgramTrace
  <2> DEFINE N == {k \in Nat : k <= Len(p) => at[k] \in V /\ FlagInv(p, installed, k, at[k])}
  <2>3. 0 \in N
    <3>1. at[0] = [blocked |-> FALSE, calls |-> <<>>] /\ CallsAmong(p, 0) = 0
      BY <2>2, OneMoreCall DEF Started
    <3>2. at[0] \in V
      BY <3>1
    <3>3. FlagInv(p, installed, 0, at[0])
      BY <3>1 DEF FlagInv
    <3> QED
      BY <3>2, <3>3
  <2>4. ASSUME NEW k \in Nat, k \in N PROVE k + 1 \in N
    <3> SUFFICES ASSUME k + 1 <= Len(p)
                 PROVE  at[k + 1] \in V /\ FlagInv(p, installed, k + 1, at[k + 1])
      OBVIOUS
    <3>1. Len(p) \in Nat /\ k \in 0..(Len(p) - 1) /\ k + 1 \in 1..Len(p)
      BY <2>1
    <3>2. at[k] \in V /\ FlagInv(p, installed, k, at[k])
      BY <2>4, <3>1
    <3>3. at[k + 1] = Perform(at[k], p[k + 1], installed)
      BY <2>2, <3>1
    <3> QED
      BY <2>1, <3>1, <3>2, <3>3, FlagStep
  <2> HIDE DEF N
  <2>5. Nat \subseteq N
    BY <2>3, <2>4, NumberInduction
  <2>6. Len(p) \in Nat /\ DOMAIN p = 1..Len(p)
    BY <2>1
  <2>7. FlagInv(p, installed, Len(p), After(p, installed))
    BY <2>2, <2>5, <2>6 DEF N
  <2> QED
    BY <2>6, <2>7 DEF DispatchIsOneShot, FlagInv, CallsAmong, p, installed
<1> QED
  BY <1>1, InputKept, PTL

-----------------------------------------------------------------------------
(* The lines of 10-epoll *)

\* What a call adds and may print.
Transfer(s, call) == print_throughput([s EXCEPT !.bytes = @ + call.moved], call.now)

ACall     == [moved : Nat, now : Nat]
ALine     == [bytes : Nat, delta : Int, at : Nat]
Reporting == [last : Nat, bytes : Nat, lines : Seq(ALine)]

\* Whatever a call does, the state stays one of the statistics.
LEMMA TransferTyped ==
    ASSUME NEW s \in Reporting, NEW call \in ACall
    PROVE  /\ Transfer(s, call) \in Reporting
           /\ IF IsDue(s, call.now)
              THEN Transfer(s, call) = [last |-> call.now, bytes |-> 0,
                     lines |-> Append(s.lines, [bytes |-> s.bytes + call.moved,
                                                delta |-> call.now - s.last, at |-> call.now])]
              ELSE Transfer(s, call) = [last |-> IF Sec(s.last) = 0 THEN call.now ELSE s.last,
                                        bytes |-> s.bytes + call.moved, lines |-> s.lines]
<1> DEFINE more == [s EXCEPT !.bytes = @ + call.moved]
           line == [bytes |-> s.bytes + call.moved, delta |-> call.now - s.last, at |-> call.now]
           lines == s.lines
<1>1. /\ s.last \in Nat /\ s.bytes \in Nat /\ call.moved \in Nat /\ call.now \in Nat
      /\ lines \in Seq(ALine)
  BY DEF Reporting, ACall
<1>2. more = [last |-> s.last, bytes |-> s.bytes + call.moved, lines |-> lines]
  BY DEF Reporting
<1>3. /\ more.last = s.last /\ more.bytes = s.bytes + call.moved /\ more.lines = lines
      /\ IsDue(more, call.now) = IsDue(s, call.now)
  BY <1>2 DEF IsDue
<1>4. line \in ALine
  BY <1>1 DEF ALine
<1> HIDE DEF line, lines, more
<1>5. Append(lines, line) \in Seq(ALine)
  BY <1>1, <1>4
<1>6. Line(more, call.now) = line
  BY <1>3 DEF Line, line
<1>7. Transfer(s, call) = print_throughput(more, call.now)
  BY DEF Transfer, more
<1>8. CASE IsDue(s, call.now)
  <2>1. Transfer(s, call) = [last |-> call.now, bytes |-> 0, lines |-> Append(lines, line)]
    BY <1>3, <1>6, <1>7, <1>8 DEF print_throughput, PrintLine
  <2> QED
    BY <1>1, <1>5, <1>8, <2>1 DEF Reporting, line, lines
<1>9. CASE ~ IsDue(s, call.now)
  <2>1. Transfer(s, call) = [last |-> IF Sec(s.last) = 0 THEN call.now ELSE s.last,
                             bytes |-> s.bytes + call.moved, lines |-> lines]
    BY <1>2, <1>3, <1>7, <1>9 DEF print_throughput
  <2>2. /\ (IF Sec(s.last) = 0 THEN call.now ELSE s.last) \in Nat
        /\ s.bytes + call.moved \in Nat
    BY <1>1
  <2> QED
    BY <1>1, <1>9, <2>1, <2>2 DEF Reporting, lines
<1> QED
  BY <1>8, <1>9

\* One call is handled after the other.
LEMMA CallsTrace ==
    ASSUME NEW calls \in Seq(ACall)
    PROVE  \E at : /\ at[0] = Unused
                   /\ \A k \in 1..Len(calls) : at[k] = Transfer(at[k - 1], calls[k])
                   /\ AfterCalls(calls) = at[Len(calls)]
<1> DEFINE n == Len(calls)
           V == Reporting
           step == [k \in 1..n |-> [v \in V |-> Transfer(v, calls[k])]]
           S == 1..n
           IsIter(H) == H = [T \in SUBSET S |->
                               IF T = {} THEN Unused
                               ELSE Transfer(H[T \ {Greatest(T)}], calls[Greatest(T)])]
           F == CHOOSE H : IsIter(H)
<1>1. n \in Nat /\ DOMAIN calls = 1..n /\ \A k \in 1..n : calls[k] \in ACall
  OBVIOUS
<1>2. AfterCalls(calls) = F[S]
  BY <1>1 DEF AfterCalls, FoldLeft, MapThenFoldSet, Max, Greatest, Transfer
<1> HIDE DEF n
<1>3. IsFold(n, V, Unused, step)
  <2>1. Unused \in V
    BY DEF Unused, Reporting
  <2>2. ASSUME NEW k \in 1..n, NEW v \in V PROVE Transfer(v, calls[k]) \in V
    BY <1>1, TransferTyped
  <2> QED
    BY <1>1, <2>1, <2>2 DEF IsFold
<1>4. PICK G : FoldsUp(G, n, V, Unused, step)
  BY <1>3, FoldExists
<1>5. IsIter(G)
  <2>1. ASSUME NEW T \in SUBSET S, T # {}
        PROVE  G[T] = Transfer(G[T \ {Greatest(T)}], calls[Greatest(T)])
    <3>1. Greatest(T) \in S
      BY <1>1, <2>1, GreatestExists DEF Greatest
    <3>2. G[T] = step[Greatest(T)][G[T \ {Greatest(T)}]] /\ G[T \ {Greatest(T)}] \in V
      BY <1>4, <2>1 DEF FoldsUp
    <3> HIDE DEF V, S
    <3> QED
      BY <3>1, <3>2 DEF S
  <2>2. \A T \in SUBSET S : G[T] = IF T = {} THEN Unused
                                   ELSE Transfer(G[T \ {Greatest(T)}], calls[Greatest(T)])
    BY <1>4, <2>1 DEF FoldsUp
  <2>3. G \in [SUBSET S -> V]
    BY <1>4 DEF FoldsUp
  <2> QED
    BY <2>2, <2>3
<1>6. IsIter(F)
  BY <1>5
<1> HIDE DEF F, step
<1> DEFINE at == [k \in 0..n |-> F[1..k]]
<1>7. at[0] = Unused
  BY <1>1, <1>6
<1>8. ASSUME NEW k \in 1..n PROVE at[k] = Transfer(at[k - 1], calls[k])
  <2>1. k \in Nat \ {0} /\ k \in 0..n /\ k - 1 \in 0..n /\ 1..k \in SUBSET S
    BY <1>1
  <2>2. 1..k # {} /\ (1..k) \ {k} = 1..(k - 1) /\ Greatest(1..k) = k
    BY <2>1, GreatestNumber DEF Greatest
  <2>3. \A T \in SUBSET S :
           T # {} => F[T] = Transfer(F[T \ {Greatest(T)}], calls[Greatest(T)])
    BY <1>6
  <2> HIDE DEF S
  <2>4. F[1..k] = Transfer(F[(1..k) \ {Greatest(1..k)}], calls[Greatest(1..k)])
    BY <2>1, <2>2, <2>3
  <2> QED
    BY <2>1, <2>2, <2>4
<1>9. AfterCalls(calls) = at[n]
  BY <1>1, <1>2
<1> HIDE DEF at
<1> QED
  BY <1>7, <1>8, <1>9 DEF n

\* Seconds begin in the order of their ticks.
LEMMA SecondsAreOrdered ==
    ASSUME NEW a \in Nat, NEW b \in Nat
    PROVE  /\ Sec(a) \in Nat
           /\ Sec(a) > Sec(b) => a > b
           /\ a >= SecondTicks => Sec(a) > 0
<1> DEFINE W == SecondTicks
           x == a \div W
           y == b \div W
<1>1. W \in Nat \ {0}
  BY SecondTicksAssumption
<1>2. x \in Nat /\ y \in Nat /\ a = W * x + (a % W) /\ b = W * y + (b % W)
  BY <1>1
<1>3. a % W \in 0..(W - 1) /\ b % W \in 0..(W - 1)
  BY <1>1
<1> HIDE DEF x, y, W
<1>4. ASSUME x > y PROVE a > b
  <2>1. y + 1 <= x /\ y + 1 \in Nat
    BY <1>2, <1>4
  <2>2. (y + 1) * W <= x * W
    BY <1>1, <1>2, <2>1, ProductIsMonotonic
  <2>3. (y + 1) * W = W * y + W /\ x * W = W * x /\ W * y \in Nat /\ W * x \in Nat
    BY <1>1, <1>2
  <2> QED
    BY <1>1, <1>2, <1>3, <2>2, <2>3
<1>5. ASSUME a >= W PROVE x > 0
  <2>1. CASE x = 0
    <3>1. a = a % W
      BY <1>1, <1>2, <2>1
    <3> QED
      BY <1>1, <1>3, <1>5, <3>1
  <2> QED
    BY <1>2, <2>1
<1> QED
  BY <1>2, <1>4, <1>5 DEF Sec, x, y, W

BytesOf(lines)  == [j \in 1..Len(lines) |-> lines[j].bytes]
DeltasOf(lines) == [j \in 1..Len(lines) |-> lines[j].delta]
MovedBy(calls)  == [j \in 1..Len(calls) |-> calls[j].moved]

\* A line more adds its bytes and its time.
LEMMA OneMoreLine ==
    ASSUME NEW lines \in Seq(ALine), NEW line \in ALine
    PROVE  LET l == Len(lines)
               new == Append(lines, line)
           IN  /\ Len(new) = l + 1
               /\ SumTo(BytesOf(lines), l) \in Int /\ SumTo(DeltasOf(lines), l) \in Int
               /\ SumTo(BytesOf(new), l + 1) = SumTo(BytesOf(lines), l) + line.bytes
               /\ SumTo(DeltasOf(new), l + 1) = SumTo(DeltasOf(lines), l) + line.delta
<1> DEFINE l == Len(lines)
           new == Append(lines, line)
           b == BytesOf(new)
           d == DeltasOf(new)
<1>1. l \in Nat /\ Len(new) = l + 1 /\ new[l + 1] = line /\ \A j \in 1..l : new[j] = lines[j]
  OBVIOUS
<1>2. \A j \in 1..(l + 1) : new[j] \in ALine
  BY <1>1
<1>3. line.bytes \in Int /\ line.delta \in Int /\ \A a \in ALine : a.bytes \in Int /\ a.delta \in Int
  BY DEF ALine
<1> HIDE DEF l, new
<1>4. \A j \in 1..(l + 1) : b[j] = new[j].bytes /\ d[j] = new[j].delta
  BY <1>1 DEF BytesOf, DeltasOf
<1>5. \A j \in 1..l : BytesOf(lines)[j] = b[j] /\ DeltasOf(lines)[j] = d[j]
  BY <1>1, <1>4 DEF BytesOf, DeltasOf, l
<1>6. \A j \in 1..(l + 1) : b[j] \in Int /\ d[j] \in Int
  BY <1>2, <1>3, <1>4
<1>7. l + 1 \in 1..(l + 1)
  BY <1>1
<1> HIDE DEF b, d
<1>8. /\ SumTo(b, l) \in Int /\ SumTo(b, l + 1) = SumTo(b, l) + b[l + 1]
      /\ SumTo(d, l) \in Int /\ SumTo(d, l + 1) = SumTo(d, l) + d[l + 1]
  BY <1>1, <1>6, SumToNext
<1>9. SumTo(b, l) = SumTo(BytesOf(lines), l) /\ SumTo(d, l) = SumTo(DeltasOf(lines), l)
  <2>1. /\ [j \in 1..l |-> b[j]] = [j \in 1..l |-> BytesOf(lines)[j]]
        /\ [j \in 1..l |-> d[j]] = [j \in 1..l |-> DeltasOf(lines)[j]]
    BY <1>5
  <2> QED
    BY <2>1 DEF SumTo
<1> QED
  BY <1>1, <1>4, <1>7, <1>8, <1>9 DEF b, d, l, new

\* After k calls: all bytes are in the lines or still to be printed, the lines
\* cover the time since the first call, each in a second of its own.
ReportInv(calls, k, s) ==
    LET lines == s.lines
        l     == Len(lines)
    IN  /\ s \in Reporting
        /\ SumTo(BytesOf(lines), l) + s.bytes = SumTo(MovedBy(calls), k)
        /\ \A j \in 1..l : lines[j].delta > 0
        /\ \A j \in 2..l : Sec(lines[j].at) > Sec(lines[j - 1].at)
        /\ l > 0 => lines[l].at = s.last
        /\ k = 0 => s = Unused
        /\ k > 0 => Sec(s.last) > 0 /\ SumTo(DeltasOf(lines), l) = s.last - calls[1].now

\* A call keeps this.
LEMMA ReportStep ==
    ASSUME NEW calls \in Seq(ACall), \A j \in 1..Len(calls) : calls[j].now >= SecondTicks,
           NEW k \in 0..(Len(calls) - 1), NEW s, ReportInv(calls, k, s)
    PROVE  ReportInv(calls, k + 1, Transfer(s, calls[k + 1]))
<1> DEFINE call == calls[k + 1]
           now == call.now
           moved == call.moved
           next == Transfer(s, call)
           lines == s.lines
           l == Len(lines)
           bytes == SumTo(BytesOf(lines), l)
           time == SumTo(DeltasOf(lines), l)
           done == SumTo(MovedBy(calls), k)
           sofar == SumTo(MovedBy(calls), k + 1)
<1>1. /\ call \in ACall /\ now \in Nat /\ moved \in Nat /\ now >= SecondTicks
      /\ k \in Nat /\ k + 1 \in 1..Len(calls) /\ 1 \in 1..Len(calls) /\ calls[1].now \in Nat
  <2>1. Len(calls) \in Nat /\ k \in Nat /\ k + 1 \in 1..Len(calls) /\ 1 \in 1..Len(calls)
    OBVIOUS
  <2>2. \A j \in 1..Len(calls) : calls[j] \in ACall
    OBVIOUS
  <2>3. \A a \in ACall : a.moved \in Nat /\ a.now \in Nat
    BY DEF ACall
  <2> QED
    BY <2>1, <2>2, <2>3
<1>2. /\ s \in Reporting /\ bytes + s.bytes = done
      /\ \A j \in 1..l : lines[j].delta > 0
      /\ \A j \in 2..l : Sec(lines[j].at) > Sec(lines[j - 1].at)
      /\ l > 0 => lines[l].at = s.last
      /\ k = 0 => s = Unused
      /\ k > 0 => Sec(s.last) > 0 /\ time = s.last - calls[1].now
  BY DEF ReportInv
<1>3. s.last \in Nat /\ s.bytes \in Nat /\ lines \in Seq(ALine) /\ l \in Nat
  BY <1>2 DEF Reporting
<1>4. next \in Reporting
  BY <1>1, <1>2, TransferTyped
<1>5. /\ Sec(now) > 0 /\ Sec(s.last) \in Nat /\ Sec(now) \in Nat
      /\ Sec(now) > Sec(s.last) => now > s.last
  BY <1>1, <1>3, SecondsAreOrdered
<1>6. done \in Int /\ sofar = done + moved
  <2>1. \A j \in 1..Len(calls) : calls[j] \in ACall
    OBVIOUS
  <2>2. \A a \in ACall : a.moved \in Int
    BY DEF ACall
  <2>3. \A j \in 1..Len(calls) : MovedBy(calls)[j] = calls[j].moved /\ calls[j].moved \in Int
    BY <2>1, <2>2 DEF MovedBy
  <2>4. \A j \in 1..(k + 1) : MovedBy(calls)[j] \in Int
    BY <1>1, <2>3
  <2> QED
    BY <1>1, <2>3, <2>4, SumToNext
<1>7. ASSUME bytes \in Int PROVE bytes + (s.bytes + moved) = sofar
  <2>1. bytes + s.bytes = done
    BY <1>2
  <2>2. s.bytes \in Int /\ moved \in Int
    BY <1>1, <1>3
  <2> DEFINE b == s.bytes
  <2>3. bytes \in Int /\ b \in Int /\ moved \in Int /\ bytes + b = done /\ sofar = done + moved
    BY <1>6, <1>7, <2>1, <2>2
  <2> HIDE DEF bytes, sofar, done, moved, b
  <2>4. bytes + (b + moved) = sofar
    BY <2>3
  <2> QED
    BY <2>4 DEF b
<1>8. CASE IsDue(s, now)
  <2> DEFINE line == [bytes |-> s.bytes + moved, delta |-> now - s.last, at |-> now]
             new == Append(lines, line)
  <2>1. next = [last |-> now, bytes |-> 0, lines |-> new]
    BY <1>1, <1>2, <1>8, TransferTyped
  <2>2. Sec(now) > Sec(s.last) /\ now > s.last /\ Sec(s.last) > 0
    BY <1>5, <1>8 DEF IsDue
  <2>3. line \in ALine
    BY <1>1, <1>3 DEF ALine
  <2>4. line.bytes = s.bytes + moved /\ line.delta = now - s.last /\ line.at = now
    OBVIOUS
  <2> HIDE DEF line, lines, l
  <2>5. /\ Len(new) = l + 1 /\ bytes \in Int /\ time \in Int
        /\ SumTo(BytesOf(new), l + 1) = bytes + line.bytes
        /\ SumTo(DeltasOf(new), l + 1) = time + line.delta
    BY <1>3, <2>3, OneMoreLine DEF l
  <2>6. new[l + 1] = line /\ \A j \in 1..l : new[j] = lines[j]
    BY <1>3 DEF l
  <2>7. next.last = now /\ next.bytes = 0 /\ next.lines = new
    BY <2>1
  <2>8. SumTo(BytesOf(new), l + 1) + 0 = sofar
    <3>1. bytes + line.bytes = sofar
      BY <1>7, <2>4, <2>5 DEF l, lines
    <3>2. bytes + line.bytes \in Int
      BY <1>1, <1>3, <2>4, <2>5
    <3> HIDE DEF new, bytes, sofar
    <3> QED
      BY <2>5, <3>1, <3>2
  <2> HIDE DEF new, bytes, time, done, sofar, next, now, moved
  <2>9. ASSUME NEW j \in 1..(l + 1) PROVE new[j].delta > 0
    <3>1. line.delta > 0
      BY <1>1, <1>3, <2>2, <2>4
    <3>2. j = l + 1 \/ j \in 1..l
      BY <1>3
    <3>3. new[j] = line \/ (j \in 1..l /\ new[j] = lines[j])
      BY <2>6, <3>2
    <3> QED
      BY <1>2, <3>1, <3>3
  <2>10. ASSUME NEW j \in 2..(l + 1) PROVE Sec(new[j].at) > Sec(new[j - 1].at)
    <3>1. CASE j = l + 1
      <4>1. l > 0 /\ l \in 1..l /\ j - 1 = l
        BY <1>3, <3>1
      <4>2. new[j] = line /\ new[j - 1] = lines[l] /\ lines[l].at = s.last
        BY <1>2, <2>6, <3>1, <4>1
      <4> QED
        BY <2>2, <2>4, <4>2
    <3>2. CASE j # l + 1
      <4>1. j \in 2..l /\ j \in 1..l /\ j - 1 \in 1..l
        BY <1>3, <3>2
      <4> QED
        BY <1>2, <2>6, <4>1
    <3> QED
      BY <3>1, <3>2
  <2>11. SumTo(DeltasOf(new), l + 1) = now - calls[1].now
    <3>1. k > 0
      <4>1. k = 0 => s.last = 0
        BY <1>2 DEF Unused
      <4>2. Sec(0) = 0
        BY SecondTicksAssumption DEF Sec
      <4> QED
        BY <1>1, <2>2, <4>1, <4>2
    <3> QED
      BY <1>1, <1>2, <1>3, <2>4, <2>5, <3>1
  <2>12. new[l + 1].at = now
    BY <2>4, <2>6
  <2> QED
    BY <1>1, <1>4, <1>5, <2>5, <2>7, <2>8, <2>9, <2>10, <2>11, <2>12 DEF ReportInv, next, call, sofar
<1>9. CASE ~ IsDue(s, now)
  <2> DEFINE last == IF Sec(s.last) = 0 THEN now ELSE s.last
  <2>1. next = [last |-> last, bytes |-> s.bytes + moved, lines |-> lines]
    BY <1>1, <1>2, <1>9, TransferTyped
  <2>2. next.last = last /\ next.bytes = s.bytes + moved /\ next.lines = lines
    BY <2>1
  <2>3. bytes \in Int /\ time \in Int
    <3>1. [bytes |-> 0, delta |-> 0, at |-> 0] \in ALine
      BY DEF ALine
    <3> HIDE DEF lines
    <3> QED
      BY <1>3, <3>1, OneMoreLine
  <2>4. bytes + (s.bytes + moved) = sofar
    BY <1>7, <2>3
  <2>5. Sec(last) > 0 /\ time = last - calls[1].now /\ (l > 0 => lines[l].at = last)
    <3>1. CASE k = 0
      <4>1. s = Unused /\ lines = <<>> /\ l = 0 /\ s.last = 0
        BY <1>2, <3>1 DEF Unused
      <4>2. Sec(0) = 0
        BY SecondTicksAssumption DEF Sec
      <4>3. last = now /\ now = calls[1].now
        BY <3>1, <4>1, <4>2
      <4>4. time = 0
        BY <4>1, SumToNone
      <4> QED
        BY <1>1, <1>5, <4>1, <4>3, <4>4
    <3>2. CASE k # 0
      <4>1. k > 0 /\ Sec(s.last) > 0
        BY <1>1, <1>2, <3>2
      <4>2. last = s.last
        BY <1>5, <4>1
      <4> QED
        BY <1>2, <4>1, <4>2
    <3> QED
      BY <3>1, <3>2
  <2> HIDE DEF next, last
  <2> QED
    BY <1>1, <1>2, <1>4, <2>2, <2>4, <2>5 DEF ReportInv, next, call
<1> QED
  BY <1>8, <1>9

\* Whatever the clock does after the first second of 1970, the lines account for
\* every byte and for the time they cover.
THEOREM LinesAccountForEveryByte == Spec => []LinesAccountForAllBytes
<1>1. Init => LinesAccountForAllBytes
  <2> SUFFICES ASSUME Init, input.kind = "calls" PROVE LinesAccountForAllBytes
    BY DEF LinesAccountForAllBytes
  <2> DEFINE calls == input.calls
  <2>1. calls \in Seq(ACall) /\ \A j \in 1..Len(calls) : calls[j].now >= SecondTicks
    <3>1. calls \in Calls
      BY DEF Init
    <3> QED
      BY <3>1, InputsAssumption DEF ACall
  <2> HIDE DEF calls
  <2>2. PICK at : /\ at[0] = Unused
                  /\ \A k \in 1..Len(calls) : at[k] = Transfer(at[k - 1], calls[k])
                  /\ AfterCalls(calls) = at[Len(calls)]
    BY <2>1, CallsTrace
  <2> DEFINE N == {k \in Nat : k <= Len(calls) => ReportInv(calls, k, at[k])}
  <2>3. 0 \in N
    <3>1. /\ Unused \in Reporting /\ Unused.lines = <<>> /\ Unused.bytes = 0
          /\ Len(<<>>) = 0
      BY DEF Unused, Reporting
    <3>2. SumTo(BytesOf(<<>>), 0) = 0 /\ SumTo(MovedBy(calls), 0) = 0
      BY SumToNone
    <3>3. ReportInv(calls, 0, Unused)
      BY <3>1, <3>2 DEF ReportInv
    <3> QED
      BY <2>2, <3>3
  <2>4. ASSUME NEW k \in Nat, k \in N PROVE k + 1 \in N
    <3> SUFFICES ASSUME k + 1 <= Len(calls) PROVE ReportInv(calls, k + 1, at[k + 1])
      OBVIOUS
    <3>1. Len(calls) \in Nat /\ k \in 0..(Len(calls) - 1) /\ k + 1 \in 1..Len(calls)
      BY <2>1
    <3>2. ReportInv(calls, k, at[k])
      BY <2>4, <3>1
    <3>3. at[k + 1] = Transfer(at[k], calls[k + 1])
      BY <2>2, <3>1
    <3> QED
      BY <2>1, <3>1, <3>2, <3>3, ReportStep
  <2> HIDE DEF N
  <2>5. Nat \subseteq N
    BY <2>3, <2>4, NumberInduction
  <2>6. Len(calls) \in Nat /\ (calls # <<>> => Len(calls) > 0)
    BY <2>1
  <2> DEFINE s == AfterCalls(calls)
             lines == s.lines
             l == Len(lines)
  <2>7. ReportInv(calls, Len(calls), s)
    BY <2>2, <2>5, <2>6 DEF N
  <2> HIDE DEF s
  <2>8. /\ SumTo(BytesOf(lines), l) + s.bytes = SumTo(MovedBy(calls), Len(calls))
        /\ \A j \in 1..l : lines[j].delta > 0
        /\ \A j \in 2..l : Sec(lines[j].at) > Sec(lines[j - 1].at)
        /\ calls # <<>> => SumTo(DeltasOf(lines), l) = s.last - calls[1].now
    BY <2>6, <2>7 DEF ReportInv
  <2>9. /\ [j \in 1..l |-> BytesOf(lines)[j]] = [j \in 1..l |-> lines[j].bytes]
        /\ [j \in 1..l |-> DeltasOf(lines)[j]] = [j \in 1..l |-> lines[j].delta]
        /\ [j \in 1..Len(calls) |-> MovedBy(calls)[j]] = [j \in 1..Len(calls) |-> calls[j].moved]
    BY DEF BytesOf, DeltasOf, MovedBy
  <2> QED
    BY <2>8, <2>9 DEF LinesAccountForAllBytes, SumTo, calls, s
<1> QED
  BY <1>1, InputKept, PTL

-----------------------------------------------------------------------------
(* The files of 11-sendfile *)

Files == [size : Nat, seekable : BOOLEAN, target : BOOLEAN, in : Int, out : Int,
          length : Int, copied : Seq(Int), died : BOOLEAN]

\* What a copy moves when the input stands at pos.
Portion(f, pos, limit) ==
    LET left == IF f.target THEN f.size - pos ELSE 0
    IN  IF f.target /\ limit < left THEN limit ELSE left

\* A copy moves its portion.
LEMMA CopyIsPortion ==
    ASSUME NEW f \in Files, NEW limit \in Nat
    PROVE  LET bytes == Portion(f, f.in, limit)
               next  == Moved(f, limit)
           IN  /\ next \in Files /\ bytes \in Int
               /\ next.size = f.size /\ next.seekable = f.seekable /\ next.target = f.target
               /\ next.in = f.in + bytes /\ next.out = f.out + bytes
               /\ next.length = IF bytes > 0 /\ f.out + bytes > f.length
                                THEN f.out + bytes ELSE f.length
               /\ next.copied = f.copied /\ next.died = f.died
<1> DEFINE bytes == Portion(f, f.in, limit)
           size == f.size
           in == f.in
           out == f.out
           length == f.length
           long == IF bytes > 0 /\ out + bytes > length THEN out + bytes ELSE length
           ahead == in + bytes
           behind == out + bytes
<1>1. /\ size \in Nat /\ f.seekable \in BOOLEAN /\ f.target \in BOOLEAN /\ in \in Int
      /\ out \in Int /\ length \in Int /\ f.copied \in Seq(Int) /\ f.died \in BOOLEAN
  BY DEF Files
<1>2. bytes \in Int
  BY <1>1 DEF Portion
<1>3. bytes = IF f.target /\ limit < Available(f) THEN limit ELSE Available(f)
  BY DEF Portion, Available
<1> HIDE DEF bytes
<1>4. ahead \in Int /\ behind \in Int /\ long \in Int
  BY <1>1, <1>2
<1>5. Moved(f, limit) = [f EXCEPT !.in = ahead, !.out = behind, !.length = long]
  BY <1>3 DEF Moved, Files
<1> HIDE DEF ahead, behind, long
<1>6. Moved(f, limit) = [size |-> f.size, seekable |-> f.seekable, target |-> f.target,
                         in |-> ahead, out |-> behind, length |-> long,
                         copied |-> f.copied, died |-> f.died]
  BY <1>5 DEF Files
<1>7. Moved(f, limit) \in Files
  BY <1>1, <1>4, <1>6 DEF Files
<1> QED
  BY <1>2, <1>6, <1>7 DEF bytes, ahead, behind, long

\* A measurement winds the input back and moves its portion, or finds that it cannot.
LEMMA MeasureIsPortion ==
    ASSUME NEW f \in Files, NEW limit \in Nat
    PROVE  LET bytes == Portion(f, 0, limit)
               next  == measure(f, limit)
           IN  /\ next \in Files /\ bytes \in Int
               /\ next.size = f.size /\ next.seekable = f.seekable /\ next.target = f.target
               /\ ~ (f.seekable /\ f.target) => next.copied = f.copied /\ next.died
               /\ f.seekable /\ f.target /\ ~ f.died =>
                     /\ next.in = bytes /\ next.out = f.out + bytes
                     /\ next.length = IF bytes > 0 /\ f.out + bytes > 0
                                      THEN f.out + bytes ELSE 0
                     /\ next.copied = Append(f.copied, bytes) /\ ~ next.died
<1> DEFINE bytes == Portion(f, 0, limit)
           reset == Reset(f)
           after == Moved(reset, limit)
           next == measure(f, limit)
<1>1. /\ f.size \in Nat /\ f.seekable \in BOOLEAN /\ f.target \in BOOLEAN /\ f.in \in Int
      /\ f.out \in Int /\ f.length \in Int /\ f.copied \in Seq(Int) /\ f.died \in BOOLEAN
  BY DEF Files
<1>2. bytes \in Int
  BY <1>1 DEF Portion
<1>3. CASE ~ (f.seekable /\ f.target)
  <2>1. reset = [f EXCEPT !.died = TRUE]
    BY <1>3 DEF Reset
  <2>2. reset = [size |-> f.size, seekable |-> f.seekable, target |-> f.target,
                 in |-> f.in, out |-> f.out, length |-> f.length,
                 copied |-> f.copied, died |-> TRUE]
    BY <2>1 DEF Files
  <2>3. next = reset
    BY <2>2 DEF measure
  <2>4. reset \in Files
    BY <1>1, <2>2 DEF Files
  <2> QED
    BY <1>2, <1>3, <2>2, <2>3, <2>4
<1>4. CASE f.seekable /\ f.target
  <2>1. reset = [f EXCEPT !.in = 0, !.length = 0]
    BY <1>4 DEF Reset
  <2>2. reset = [size |-> f.size, seekable |-> f.seekable, target |-> f.target,
                 in |-> 0, out |-> f.out, length |-> 0,
                 copied |-> f.copied, died |-> f.died]
    BY <2>1 DEF Files
  <2>3. reset \in Files
    BY <1>1, <2>2 DEF Files
  <2>4. /\ reset.size = f.size /\ reset.seekable = f.seekable /\ reset.target = f.target
        /\ reset.in = 0 /\ reset.out = f.out /\ reset.length = 0
        /\ reset.copied = f.copied /\ reset.died = f.died
    BY <2>2
  <2>5. Portion(reset, reset.in, limit) = bytes
    BY <2>4 DEF Portion
  <2>6. next = IF f.died \/ reset.died THEN reset
               ELSE [after EXCEPT !.copied = Append(@, after.in - reset.in)]
    BY DEF measure
  <2> HIDE DEF reset, next, bytes
  <2>7. /\ after \in Files
        /\ after.size = f.size /\ after.seekable = f.seekable /\ after.target = f.target
        /\ after.in = bytes /\ after.out = f.out + bytes
        /\ after.length = IF bytes > 0 /\ f.out + bytes > 0 THEN f.out + bytes ELSE 0
        /\ after.copied = f.copied /\ after.died = f.died
    <3> DEFINE moved == Portion(reset, reset.in, limit)
    <3> HIDE DEF moved, after
    <3>1. /\ after \in Files
          /\ after.size = reset.size /\ after.seekable = reset.seekable
          /\ after.target = reset.target
          /\ after.in = reset.in + moved /\ after.out = reset.out + moved
          /\ after.length = IF moved > 0 /\ reset.out + moved > reset.length
                            THEN reset.out + moved ELSE reset.length
          /\ after.copied = reset.copied /\ after.died = reset.died
      BY <2>3, CopyIsPortion, Zenon DEF moved, after
    <3>2. moved = bytes
      BY <2>5 DEF moved
    <3> QED
      BY <1>2, <2>4, <3>1, <3>2
  <2>8. CASE f.died
    <3>1. next = reset
      BY <2>6, <2>8
    <3> QED
      BY <1>2, <1>4, <2>3, <2>4, <2>8, <3>1 DEF next, bytes
  <2>9. CASE ~ f.died
    <3> DEFINE all == Append(f.copied, bytes)
    <3>1. all \in Seq(Int)
      BY <1>1, <1>2
    <3>2. after.in - reset.in = bytes
      BY <1>2, <2>4, <2>7
    <3> HIDE DEF all, after
    <3>3. next = [after EXCEPT !.copied = all]
      BY <2>4, <2>6, <2>7, <2>9, <3>2 DEF all
    <3>4. next = [size |-> after.size, seekable |-> after.seekable, target |-> after.target,
                  in |-> after.in, out |-> after.out, length |-> after.length,
                  copied |-> all, died |-> after.died]
      BY <2>7, <3>3 DEF Files
    <3>5. next \in Files
      BY <2>7, <3>1, <3>4 DEF Files
    <3> QED
      BY <1>2, <1>4, <2>7, <2>9, <3>4, <3>5 DEF all, next, bytes
  <2> QED
    BY <2>8, <2>9
<1> QED
  BY <1>1, <1>3, <1>4

\* One measurement is made after the other.
LEMMA MeasurementsTrace ==
    ASSUME NEW start \in Files, NEW limits \in Seq(Nat)
    PROVE  \E at : /\ at[0] = start
                   /\ \A k \in 1..Len(limits) : at[k] = measure(at[k - 1], limits[k])
                   /\ FoldLeft(measure, start, limits) = at[Len(limits)]
<1> DEFINE n == Len(limits)
           V == Files
           step == [k \in 1..n |-> [v \in V |-> measure(v, limits[k])]]
           S == 1..n
           IsIter(H) == H = [T \in SUBSET S |->
                               IF T = {} THEN start
                               ELSE measure(H[T \ {Greatest(T)}], limits[Greatest(T)])]
           F == CHOOSE H : IsIter(H)
<1>1. n \in Nat /\ DOMAIN limits = 1..n /\ \A k \in 1..n : limits[k] \in Nat
  OBVIOUS
<1>2. FoldLeft(measure, start, limits) = F[S]
  BY <1>1 DEF FoldLeft, MapThenFoldSet, Max, Greatest
<1> HIDE DEF n
<1>3. IsFold(n, V, start, step)
  <2>1. start \in V
    OBVIOUS
  <2>2. ASSUME NEW k \in 1..n, NEW v \in V PROVE measure(v, limits[k]) \in V
    BY <1>1, MeasureIsPortion
  <2> QED
    BY <1>1, <2>1, <2>2 DEF IsFold
<1>4. PICK G : FoldsUp(G, n, V, start, step)
  BY <1>3, FoldExists
<1>5. IsIter(G)
  <2>1. ASSUME NEW T \in SUBSET S, T # {}
        PROVE  G[T] = measure(G[T \ {Greatest(T)}], limits[Greatest(T)])
    <3>1. Greatest(T) \in S
      BY <1>1, <2>1, GreatestExists DEF Greatest
    <3>2. G[T] = step[Greatest(T)][G[T \ {Greatest(T)}]] /\ G[T \ {Greatest(T)}] \in V
      BY <1>4, <2>1 DEF FoldsUp
    <3> HIDE DEF V, S
    <3> QED
      BY <3>1, <3>2 DEF S
  <2>2. \A T \in SUBSET S : G[T] = IF T = {} THEN start
                                   ELSE measure(G[T \ {Greatest(T)}], limits[Greatest(T)])
    BY <1>4, <2>1 DEF FoldsUp
  <2>3. G \in [SUBSET S -> V]
    BY <1>4 DEF FoldsUp
  <2> QED
    BY <2>2, <2>3
<1>6. IsIter(F)
  BY <1>5
<1> HIDE DEF F, step
<1> DEFINE at == [k \in 0..n |-> F[1..k]]
<1>7. at[0] = start
  BY <1>1, <1>6
<1>8. ASSUME NEW k \in 1..n PROVE at[k] = measure(at[k - 1], limits[k])
  <2>1. k \in Nat \ {0} /\ k \in 0..n /\ k - 1 \in 0..n /\ 1..k \in SUBSET S
    BY <1>1
  <2>2. 1..k # {} /\ (1..k) \ {k} = 1..(k - 1) /\ Greatest(1..k) = k
    BY <2>1, GreatestNumber DEF Greatest
  <2>3. \A T \in SUBSET S :
           T # {} => F[T] = measure(F[T \ {Greatest(T)}], limits[Greatest(T)])
    BY <1>6
  <2> HIDE DEF S
  <2>4. F[1..k] = measure(F[(1..k) \ {Greatest(1..k)}], limits[Greatest(1..k)])
    BY <2>1, <2>2, <2>3
  <2> QED
    BY <2>1, <2>2, <2>4
<1>9. FoldLeft(measure, start, limits) = at[n]
  BY <1>1, <1>2
<1> HIDE DEF at
<1> QED
  BY <1>7, <1>8, <1>9 DEF n


\* What the k-th copy has to move.
Wanted(b) == [k \in DOMAIN b.limits |-> IF b.limits[k] < b.size THEN b.limits[k] ELSE b.size]

\* After k measurements: every copy moved what it was to move, or the program is
\* dead as soon as it measures.
MeasuredInv(b, k, f) ==
    LET wanted == Wanted(b)
    IN  /\ f \in Files
        /\ f.size = b.size /\ f.seekable = b.seekable /\ f.target = b.target
        /\ b.seekable /\ b.target =>
              /\ f.copied = [j \in 1..k |-> wanted[j + 1]]
              /\ ~ f.died
        /\ ~ (b.seekable /\ b.target) => f.copied = <<>> /\ (k > 0 <=> f.died)

ABenchmark == [size : Nat, seekable : BOOLEAN, target : BOOLEAN, rounds : Int, limits : Seq(Nat)]

\* The warm-up is not measured.
LEMMA WarmUpHolds ==
    ASSUME NEW b \in ABenchmark, Len(b.limits) >= 1
    PROVE  MeasuredInv(b, 0, Moved(Opened(b.size, b.seekable, b.target), b.limits[1]))
<1> DEFINE wanted == Wanted(b)
           limit == b.limits[1]
           f == Opened(b.size, b.seekable, b.target)
           next == Moved(f, limit)
<1>1. /\ b.size \in Nat /\ b.seekable \in BOOLEAN /\ b.target \in BOOLEAN
      /\ b.limits \in Seq(Nat)
  BY DEF ABenchmark
<1>2. limit \in Nat
  BY <1>1
<1>3. f \in Files
  BY <1>1 DEF Files, Opened
<1>4. /\ f.size = b.size /\ f.seekable = b.seekable /\ f.target = b.target
      /\ f.copied = <<>> /\ f.died = FALSE
  BY DEF Opened
<1> HIDE DEF f, limit, wanted
<1>5. /\ next \in Files
      /\ next.size = f.size /\ next.seekable = f.seekable /\ next.target = f.target
      /\ next.copied = f.copied /\ next.died = f.died
  BY <1>2, <1>3, CopyIsPortion
<1>6. [j \in 1..0 |-> wanted[j + 1]] = <<>>
  OBVIOUS
<1> HIDE DEF next
<1> QED
  BY <1>4, <1>5, <1>6 DEF MeasuredInv, next, wanted, f, limit

\* A measurement keeps it.
LEMMA MeasuredStep ==
    ASSUME NEW b \in ABenchmark, NEW k \in Nat, k + 2 <= Len(b.limits),
           NEW f, MeasuredInv(b, k, f)
    PROVE  MeasuredInv(b, k + 1, measure(f, b.limits[k + 2]))
<1> DEFINE wanted == Wanted(b)
           limit == b.limits[k + 2]
           next == measure(f, limit)
           bytes == Portion(f, 0, limit)
           l == k + 1
<1>1. /\ b.size \in Nat /\ b.seekable \in BOOLEAN /\ b.target \in BOOLEAN
      /\ b.limits \in Seq(Nat)
  BY DEF ABenchmark
<1>2. /\ DOMAIN b.limits = 1..Len(b.limits) /\ limit \in Nat /\ l \in Nat /\ l + 1 = k + 2
      /\ l + 1 \in 1..Len(b.limits) /\ 1..(l + 1) \subseteq 1..Len(b.limits)
  BY <1>1
<1>3. \A j \in 1..(l + 1) : wanted[j] \in Nat
  BY <1>1, <1>2 DEF Wanted
<1>4. wanted[l + 1] = (IF limit < b.size THEN limit ELSE b.size)
  BY <1>1, <1>2 DEF Wanted
<1>5. /\ f \in Files
      /\ f.size = b.size /\ f.seekable = b.seekable /\ f.target = b.target
      /\ b.seekable /\ b.target => f.copied = [j \in 1..k |-> wanted[j + 1]] /\ ~ f.died
      /\ ~ (b.seekable /\ b.target) => f.copied = <<>>
  BY DEF MeasuredInv
<1>6. b.seekable /\ b.target => bytes = wanted[l + 1]
  BY <1>1, <1>2, <1>4, <1>5 DEF Portion
<1> HIDE DEF limit, wanted, bytes
<1>7. /\ next \in Files
      /\ next.size = f.size /\ next.seekable = f.seekable /\ next.target = f.target
      /\ ~ (f.seekable /\ f.target) => next.copied = f.copied /\ next.died
      /\ f.seekable /\ f.target /\ ~ f.died =>
            next.copied = Append(f.copied, bytes) /\ ~ next.died
  BY <1>2, <1>5, MeasureIsPortion DEF bytes
<1>8. Append([j \in 1..k |-> wanted[j + 1]], wanted[l + 1]) = [j \in 1..l |-> wanted[j + 1]]
  <2> DEFINE s == [j \in 1..k |-> wanted[j + 1]]
             t == [j \in 1..l |-> wanted[j + 1]]
             w == wanted[l + 1]
  <2>1. \A j \in 1..l : wanted[j + 1] \in Nat
    BY <1>2, <1>3
  <2>2. s \in Seq(Nat) /\ t \in Seq(Nat) /\ Len(s) = k /\ Len(t) = l /\ w \in Nat
    BY <1>2, <2>1
  <2>3. \A j \in 1..l : t[j] = IF j = l THEN w ELSE s[j]
    BY <1>2
  <2> HIDE DEF s, t, w
  <2>4. Append(s, w) \in Seq(Nat) /\ Len(Append(s, w)) = l
    BY <2>2
  <2>5. \A j \in 1..l : Append(s, w)[j] = t[j]
    BY <2>2, <2>3
  <2> QED
    BY <2>2, <2>4, <2>5 DEF s, t, w
<1>9. l > 0
  BY <1>2
<1> HIDE DEF next, l
<1>10. CASE b.seekable /\ b.target
  <2> DEFINE one == wanted[l + 1]
             old == [j \in 1..k |-> wanted[j + 1]]
             new == [j \in 1..l |-> wanted[j + 1]]
  <2>1. f.copied = old /\ ~ f.died /\ f.seekable /\ f.target /\ bytes = one
    BY <1>5, <1>6, <1>10
  <2>2. Append(old, one) = new
    BY <1>8
  <2> HIDE DEF one, old, new
  <2>3. next.copied = new /\ ~ next.died
    BY <1>7, <2>1, <2>2
  <2> QED
    BY <1>5, <1>7, <1>10, <2>3 DEF MeasuredInv, next, limit, l, wanted, new
<1>11. CASE ~ (b.seekable /\ b.target)
  <2>1. next.copied = <<>> /\ next.died
    BY <1>5, <1>7, <1>11
  <2> QED
    BY <1>5, <1>7, <1>9, <1>11, <2>1 DEF MeasuredInv, next, limit, l
<1> QED
  BY <1>10, <1>11

\* Whatever the copies before it moved, a copy finds the whole input.
THEOREM EveryCopySeesTheWholeInput == Spec => []CopiesSeeTheWholeInput
<1>1. Init => CopiesSeeTheWholeInput
  <2> SUFFICES ASSUME Init, input.kind = "benchmark" PROVE CopiesSeeTheWholeInput
    BY DEF CopiesSeeTheWholeInput
  <2> DEFINE b == input.benchmark
             n == Measurements(b.rounds)
             start == Moved(Opened(b.size, b.seekable, b.target), b.limits[1])
             s == SubSeq(b.limits, 2, 1 + n)
             f == Benchmark(Opened(b.size, b.seekable, b.target), b.rounds, b.limits)
  <2>1. b \in ABenchmark /\ Len(b.limits) >= 1 + n
    <3>1. b \in Benchmarks
      BY DEF Init
    <3> QED
      BY <3>1, InputsAssumption DEF ABenchmark
  <2> HIDE DEF b
  <2>2. b.limits \in Seq(Nat) /\ b.rounds \in Int
    BY <2>1 DEF ABenchmark
  <2>3. n \in Nat
    BY <2>2 DEF Measurements
  <2> HIDE DEF n
  <2>4. Len(b.limits) >= 1 /\ Len(b.limits) \in Nat
    BY <2>1, <2>2, <2>3
  <2>5. s \in Seq(Nat) /\ Len(s) = n /\ \A k \in 1..n : s[k] = b.limits[k + 1]
    BY <2>1, <2>2, <2>3
  <2>6. MeasuredInv(b, 0, start)
    BY <2>1, <2>4, WarmUpHolds
  <2>7. start \in Files
    BY <2>6 DEF MeasuredInv
  <2>8. f = FoldLeft(measure, start, s)
    BY DEF Benchmark, n
  <2> HIDE DEF start, s, f
  <2>9. PICK at : /\ at[0] = start
                  /\ \A k \in 1..Len(s) : at[k] = measure(at[k - 1], s[k])
                  /\ FoldLeft(measure, start, s) = at[Len(s)]
    BY <2>5, <2>7, MeasurementsTrace
  <2> DEFINE N == {k \in Nat : k <= n => MeasuredInv(b, k, at[k])}
  <2>10. 0 \in N
    BY <2>6, <2>9
  <2>11. ASSUME NEW k \in Nat, k \in N PROVE k + 1 \in N
    <3> SUFFICES ASSUME k + 1 <= n PROVE MeasuredInv(b, k + 1, at[k + 1])
      OBVIOUS
    <3>1. k + 1 \in 1..n /\ k + 2 <= Len(b.limits) /\ (k + 1) - 1 = k /\ (k + 1) + 1 = k + 2
      BY <2>1, <2>3, <2>4
    <3>2. MeasuredInv(b, k, at[k])
      BY <2>3, <2>11, <3>1
    <3>3. at[k + 1] = measure(at[k], b.limits[k + 2])
      BY <2>5, <2>9, <3>1
    <3> QED
      BY <2>1, <3>1, <3>2, <3>3, MeasuredStep
  <2> HIDE DEF N
  <2>12. Nat \subseteq N
    BY <2>10, <2>11, NumberInduction
  <2>13. MeasuredInv(b, n, f)
    BY <2>3, <2>5, <2>8, <2>9, <2>12 DEF N
  <2> DEFINE wanted == Wanted(b)
             Asked(k) == IF b.limits[k] < b.size THEN b.limits[k] ELSE b.size
  <2>14. \A k \in 1..(n + 1) : wanted[k] = Asked(k)
    BY <2>1, <2>2, <2>3, <2>4 DEF Wanted
  <2>15. [k \in 1..n |-> wanted[k + 1]] = [k \in 1..n |-> Asked(k + 1)]
    <3>1. \A k \in 1..n : k + 1 \in 1..(n + 1)
      BY <2>3
    <3> HIDE DEF wanted, Asked
    <3> QED
      BY <2>14, <3>1
  <2> HIDE DEF wanted
  <2>16. CASE b.seekable /\ b.target
    <3>1. f.copied = [k \in 1..n |-> wanted[k + 1]]
      BY <2>13, <2>16 DEF MeasuredInv, wanted
    <3>2. f.copied = [k \in 1..n |-> Asked(k + 1)]
      <4> HIDE DEF Asked
      <4> QED
        BY <2>15, <3>1
    <3> QED
      BY <2>16, <3>2 DEF CopiesSeeTheWholeInput, b, n, f
  <2>17. CASE ~ (b.seekable /\ b.target)
    BY <2>13, <2>17 DEF MeasuredInv, CopiesSeeTheWholeInput, b, n, f
  <2> QED
    BY <2>16, <2>17
<1> QED
  BY <1>1, InputKept, PTL

-----------------------------------------------------------------------------
(* Powers *)

PowersUpTo(b, n, p) == p = [k \in 0..n |-> IF k = 0 THEN 1 ELSE b * p[k - 1]]

\* The function of the recursion exists, and is the one up to any number.
LEMMA PowersExist ==
    ASSUME NEW b \in Nat, NEW n \in Nat
    PROVE  \E p : PowersUpTo(b, n, p)
<1> DEFINE D == 0..n
           rank == [k \in D |-> k]
           before == [k \in D |-> k - 1]
           step == [k \in D |-> [v \in Nat |-> b * v]]
<1>1. \A k \in D : k # 0 => k - 1 \in D
  OBVIOUS
<1>2. \A v \in Nat : b * v \in Nat
  OBVIOUS
<1>3. IsDescent(D, Nat, rank, n, before, 1, step)
  BY <1>1, <1>2 DEF IsDescent
<1>4. PICK F : Descends(F, D, Nat, rank, before, 1, step)
  BY <1>3, Recursion
<1>5. \A k \in D : F[k] = IF k = 0 THEN 1 ELSE b * F[k - 1]
  <2>1. F \in [D -> Nat] /\ \A k \in D : F[k] = IF k = 0 THEN 1 ELSE step[k][F[k - 1]]
    BY <1>4 DEF Descends
  <2>2. ASSUME NEW k \in D, k # 0 PROVE step[k][F[k - 1]] = b * F[k - 1]
    <3>1. F[k - 1] \in Nat
      BY <1>1, <2>1, <2>2
    <3> QED
      BY <3>1
  <2> QED
    BY <2>1, <2>2
<1>6. F = [k \in D |-> IF k = 0 THEN 1 ELSE b * F[k - 1]]
  <2>1. F = [k \in D |-> F[k]]
    BY <1>4 DEF Descends
  <2> QED
    BY <1>5, <2>1
<1> QED
  BY <1>6 DEF PowersUpTo

\* Two such functions agree as far as both go.
LEMMA PowersAgree ==
    ASSUME NEW b \in Nat, NEW m \in Nat, NEW n \in Nat, m <= n, NEW p, NEW q,
           PowersUpTo(b, m, p), PowersUpTo(b, n, q)
    PROVE  p[m] = q[m] /\ q[m] \in Nat
<1> DEFINE N == {k \in Nat : k <= m => p[k] = q[k] /\ q[k] \in Nat}
<1>1. /\ \A k \in 0..m : p[k] = IF k = 0 THEN 1 ELSE b * p[k - 1]
      /\ \A k \in 0..n : q[k] = IF k = 0 THEN 1 ELSE b * q[k - 1]
  BY DEF PowersUpTo
<1>2. 0 \in N
  BY <1>1
<1>3. ASSUME NEW k \in Nat, k \in N PROVE k + 1 \in N
  <2> SUFFICES ASSUME k + 1 <= m PROVE p[k + 1] = q[k + 1] /\ q[k + 1] \in Nat
    OBVIOUS
  <2>1. k + 1 \in 0..m /\ k + 1 \in 0..n /\ k + 1 # 0 /\ (k + 1) - 1 = k /\ k <= m
    OBVIOUS
  <2>2. p[k] = q[k] /\ q[k] \in Nat
    BY <1>3, <2>1
  <2>3. p[k + 1] = b * p[k] /\ q[k + 1] = b * q[k]
    BY <1>1, <2>1
  <2> QED
    BY <2>2, <2>3
<1> HIDE DEF N
<1>4. Nat \subseteq N
  BY <1>2, <1>3, NumberInduction
<1> QED
  BY <1>4 DEF N

\* The powers of a number follow their recursion.
LEMMA PowerSteps ==
    ASSUME NEW b \in Nat
    PROVE  /\ Power(b, 0) = 1
           /\ \A n \in Nat : Power(b, n) \in Nat /\ Power(b, n + 1) = b * Power(b, n)
<1> DEFINE P(n) == CHOOSE p : PowersUpTo(b, n, p)
<1>1. ASSUME NEW n \in Nat PROVE PowersUpTo(b, n, P(n)) /\ Power(b, n) = P(n)[n]
  <2>1. PowersUpTo(b, n, P(n))
    BY PowersExist
  <2>2. Power(b, n) = P(n)[n]
    BY DEF Power, PowersUpTo
  <2> QED
    BY <2>1, <2>2
<1> HIDE DEF P
<1>2. Power(b, 0) = 1
  BY <1>1 DEF PowersUpTo
<1>3. ASSUME NEW n \in Nat PROVE Power(b, n) \in Nat /\ Power(b, n + 1) = b * Power(b, n)
  <2>1. n + 1 \in Nat /\ n <= n + 1 /\ n + 1 \in 0..(n + 1) /\ n + 1 # 0 /\ (n + 1) - 1 = n
    OBVIOUS
  <2>2. PowersUpTo(b, n, P(n)) /\ PowersUpTo(b, n + 1, P(n + 1))
    BY <1>1, <2>1
  <2>3. P(n)[n] = P(n + 1)[n] /\ P(n + 1)[n] \in Nat
    BY <2>1, <2>2, PowersAgree
  <2>4. P(n + 1)[n + 1] = b * P(n + 1)[n]
    BY <2>1, <2>2 DEF PowersUpTo
  <2> QED
    BY <1>1, <2>1, <2>3, <2>4
<1> QED
  BY <1>2, <1>3

-----------------------------------------------------------------------------
(* The checksum of 09-xattr *)

\* The word that starts in the range is a number.
LEMMA WordIsNumber ==
    ASSUME NEW memory \in Seq(0..(ByteSize - 1)), NEW p \in Nat,
           p + WordBytes <= Len(memory)
    PROVE  WordAt(memory, p) \in Int
<1> DEFINE D == 0..(WordBytes - 1)
           f == [b \in D |-> memory[p + b + 1] * Power(ByteSize, b)]
<1>1. WordBytes \in Nat /\ ByteSize \in Nat /\ IsFiniteSet(D)
  BY ChecksumAssumption, FS_Interval
<1>2. ASSUME NEW b \in D PROVE memory[p + b + 1] * Power(ByteSize, b) \in Int
  <2>1. b \in Nat /\ p + b + 1 \in 1..Len(memory)
    BY <1>1
  <2>2. memory[p + b + 1] \in Int
    <3> DEFINE V == 0..(ByteSize - 1)
               i == p + b + 1
    <3>1. memory \in Seq(V) /\ V \subseteq Int /\ i \in 1..Len(memory)
      BY <1>1, <2>1
    <3> HIDE DEF V, i
    <3>2. memory[i] \in V
      BY <3>1
    <3> QED
      BY <3>1, <3>2 DEF i
  <2>3. Power(ByteSize, b) \in Int
    BY <1>1, <2>1, PowerSteps
  <2> QED
    BY <2>2, <2>3
<1>3. f \in [D -> Int]
  BY <1>2
<1> HIDE DEF D, f
<1>4. SumFunction(f) \in Int
  BY <1>1, <1>3, SumIsInt
<1> QED
  BY <1>4 DEF WordAt, D, f

\* The first loop leaves the pointer in or behind the last byte of the range, by
\* less than a word.
LEMMA WordsCoverTheRange ==
    ASSUME NEW len \in Nat
    PROVE  /\ IsFiniteSet(WordOffsets(len))
           /\ EndOfWords(len) \in Int
           /\ EndOfWords(len) >= len /\ EndOfWords(len) < len + WordBytes
<1> DEFINE W == WordBytes
           N == {n \in Nat : LET c == Cardinality(WordOffsets(n))
                             IN  IsFiniteSet(WordOffsets(n)) /\ W * c >= n /\ W * c < n + W}
<1>1. W \in Nat \ {0}
  BY ChecksumAssumption
<1> HIDE DEF W
<1>2. 0 \in N
  <2>1. WordOffsets(0) = {}
    BY DEF WordOffsets
  <2> QED
    BY <1>1, <2>1, FS_EmptySet
<1>3. ASSUME NEW n \in Nat, n \in N PROVE n + 1 \in N
  <2> DEFINE S == WordOffsets(n)
             T == WordOffsets(n + 1)
             c == Cardinality(S)
  <2>1. IsFiniteSet(S) /\ W * c >= n /\ W * c < n + W
    BY <1>3
  <2>2. c \in Nat
    BY <2>1, FS_CardinalityType
  <2>3. n \notin S
    BY DEF WordOffsets
  <2>4. T = IF n % W = 0 THEN S \union {n} ELSE S
    BY DEF WordOffsets, W
  <2> HIDE DEF S, T, c
  <2> DEFINE d == W * c - n
  <2>5. W * c \in Nat /\ d \in 0..(W - 1) /\ W * c = n + d
    BY <1>1, <2>1, <2>2
  <2>6. n % W = 0 <=> d = 0
    <3>1. n = W * (n \div W) + (n % W) /\ n \div W \in Int /\ n % W \in 0..(W - 1)
      BY <1>1
    <3>2. ASSUME n % W = 0 PROVE d = 0
      <4> DEFINE x == W * c
                 q == n \div W
      <4>1. x = W * q + d
        BY <1>1, <2>5, <3>1, <3>2
      <4>2. 0 \in 0..(W - 1) /\ x = W * c + 0 /\ c \in Int /\ x \in Int
        BY <1>1, <2>2, <2>5
      <4>3. q \in Int /\ d \in 0..(W - 1)
        BY <2>5, <3>1
      <4> HIDE DEF d, q, x
      <4>4. x % W = d
        BY <1>1, <4>1, <4>2, <4>3, RemainderOfMultiple
      <4>5. x % W = 0
        BY <1>1, <4>2, RemainderOfMultiple
      <4> QED
        BY <4>4, <4>5
    <3>3. ASSUME d = 0 PROVE n % W = 0
      <4>1. n = W * c + 0 /\ 0 \in 0..(W - 1)
        BY <1>1, <2>5, <3>3
      <4> QED
        BY <1>1, <2>2, <4>1, RemainderOfMultiple
    <3> QED
      BY <3>2, <3>3
  <2>7. CASE n % W = 0
    <3>1. IsFiniteSet(T) /\ Cardinality(T) = c + 1
      BY <2>1, <2>3, <2>4, <2>7, FS_AddElement DEF c
    <3>2. W * (c + 1) = n + W
      BY <1>1, <2>2, <2>5, <2>6, <2>7
    <3> QED
      BY <1>1, <3>1, <3>2 DEF T
  <2>8. CASE n % W # 0
    <3>1. IsFiniteSet(T) /\ Cardinality(T) = c
      BY <2>1, <2>4, <2>8 DEF c
    <3>2. W * c >= n + 1 /\ W * c < (n + 1) + W
      BY <1>1, <2>5, <2>6, <2>8
    <3> QED
      BY <3>1, <3>2 DEF T
  <2> QED
    BY <2>7, <2>8
<1> HIDE DEF N
<1>4. Nat \subseteq N
  BY <1>2, <1>3, NumberInduction
<1>5. /\ IsFiniteSet(WordOffsets(len))
      /\ W * Cardinality(WordOffsets(len)) >= len
      /\ W * Cardinality(WordOffsets(len)) < len + W
  BY <1>4 DEF N
<1>6. Cardinality(WordOffsets(len)) \in Nat
  BY <1>5, FS_CardinalityType
<1> QED
  BY <1>1, <1>5, <1>6 DEF EndOfWords, W

\* A range of whole words gets the checksum that is described, and the second
\* loop is not entered for any range.
THEOREM EveryRangeOfWordsIsSummed == Spec => []WholeWordsAreSummed
<1>1. Init => WholeWordsAreSummed
  <2> SUFFICES ASSUME Init, input.kind = "range" PROVE WholeWordsAreSummed
    BY DEF WholeWordsAreSummed
  <2> DEFINE memory == input.memory
             len == input.len
  <2>1. memory \in Seq(0..(ByteSize - 1)) /\ len \in 0..MaxLen /\ Len(memory) >= MaxLen + WordBytes
    BY InputsAssumption DEF Init
  <2>2. MaxLen \in Nat /\ WordBytes \in Nat \ {0} /\ ByteSize \in Nat
    BY InputsAssumption, ChecksumAssumption
  <2> HIDE DEF memory, len
  <2>3. len \in Nat /\ Len(memory) \in Nat /\ len <= MaxLen
    BY <2>1, <2>2
  <2>4. Returns(len) /\ EndOfWords(len) < len + WordBytes /\ IsFiniteSet(WordOffsets(len))
    BY <2>3, WordsCoverTheRange DEF Returns
  <2>5. ASSUME len % WordBytes = 0
        PROVE  calc_checksum(memory, len) = DescribedChecksum(memory, len)
    <3> DEFINE f == [p \in WordOffsets(len) |-> WordAt(memory, p)]
               g == [p \in len..(len - 1) |-> memory[p + 1]]
    <3>1. ASSUME NEW p \in WordOffsets(len) PROVE WordAt(memory, p) \in Int
      <4>1. p \in Nat /\ p + WordBytes <= Len(memory)
        BY <2>1, <2>2, <2>3 DEF WordOffsets
      <4> QED
        BY <2>1, <4>1, WordIsNumber
    <3>2. f \in [WordOffsets(len) -> Int]
      BY <3>1
    <3>3. g = [j \in 1..0 |-> 0]
      BY <2>3
    <3>4. SumFunction(g) = 0
      <4>1. [j \in 1..0 |-> 0] = [j \in 1..0 |-> <<>>[j]]
        OBVIOUS
      <4> QED
        BY <3>3, <4>1, SumToNone DEF SumTo
    <3>5. DescribedChecksum(memory, len) = (SumFunction(f) + SumFunction(g)) % WordValues
      <4>1. len - (len % WordBytes) = len
        BY <2>3, <2>5
      <4> QED
        BY <4>1 DEF DescribedChecksum, WordOffsets
    <3>6. calc_checksum(memory, len) = SumFunction(f) % WordValues
      BY DEF calc_checksum
    <3> HIDE DEF f, g
    <3>7. SumFunction(f) \in Int
      BY <2>4, <3>2, SumIsInt
    <3>8. SumFunction(f) + SumFunction(g) = SumFunction(f)
      BY <3>4, <3>7
    <3> QED
      BY <3>5, <3>6, <3>8
  <2> QED
    BY <2>4, <2>5 DEF WholeWordsAreSummed, memory, len
<1> QED
  BY <1>1, InputKept, PTL

-----------------------------------------------------------------------------
(* The numbers of syscall_write() *)

\* A power of a positive number is positive, and grows with the number.
LEMMA PowerGrows ==
    ASSUME NEW a \in Nat \ {0}, NEW b \in Nat, a <= b, NEW n \in Nat
    PROVE  Power(a, n) \in Nat /\ Power(a, n) > 0 /\ Power(a, n) <= Power(b, n)
<1> DEFINE N == {k \in Nat : Power(a, k) > 0 /\ Power(a, k) <= Power(b, k)}
<1>1. Power(a, 0) = 1 /\ Power(b, 0) = 1
  BY PowerSteps
<1>2. \A k \in Nat : /\ Power(a, k) \in Nat /\ Power(a, k + 1) = a * Power(a, k)
                     /\ Power(b, k) \in Nat /\ Power(b, k + 1) = b * Power(b, k)
  BY PowerSteps
<1>3. 0 \in N
  BY <1>1
<1>4. ASSUME NEW k \in Nat, k \in N PROVE k + 1 \in N
  <2> DEFINE x == Power(a, k)
             y == Power(b, k)
  <2>1. x \in Nat \ {0} /\ y \in Nat /\ x <= y /\ k + 1 \in Nat
    BY <1>2, <1>4
  <2>2. Power(a, k + 1) = a * x /\ Power(b, k + 1) = b * y
    BY <1>2
  <2> HIDE DEF x, y
  <2>3. x * a <= y * a /\ a * y <= b * y
    BY <2>1, ProductIsMonotonic
  <2>4. a * x = x * a /\ a * y = y * a /\ a * x \in Nat /\ a * y \in Nat /\ b * y \in Nat
    BY <2>1
  <2>5. a * x > 0
    BY <2>1
  <2> QED
    BY <2>1, <2>2, <2>3, <2>4, <2>5
<1> HIDE DEF N
<1>5. Nat \subseteq N
  BY <1>3, <1>4, NumberInduction
<1> QED
  BY <1>2, <1>5 DEF N

\* Eight binary digits more, or three decimal ones.
LEMMA PowersOfTwoAndTen ==
    ASSUME NEW n \in Nat
    PROVE  Power(2, n + 8) = 256 * Power(2, n) /\ Power(10, n + 3) = 1000 * Power(10, n)
<1>1. \A k \in Nat : /\ Power(2, k) \in Nat /\ Power(2, k + 1) = 2 * Power(2, k)
                     /\ Power(10, k) \in Nat /\ Power(10, k + 1) = 10 * Power(10, k)
  BY PowerSteps
<1>2. Power(2, n + 1) = 2 * Power(2, n) /\ Power(10, n + 1) = 10 * Power(10, n)
  BY <1>1
<1>3. Power(2, n + 2) = 2 * Power(2, n + 1) /\ Power(10, n + 2) = 10 * Power(10, n + 1)
  <2>1. n + 1 \in Nat /\ (n + 1) + 1 = n + 2
    OBVIOUS
  <2> QED
    BY <1>1, <2>1
<1>4. Power(2, n + 3) = 2 * Power(2, n + 2) /\ Power(10, n + 3) = 10 * Power(10, n + 2)
  <2>1. n + 2 \in Nat /\ (n + 2) + 1 = n + 3
    OBVIOUS
  <2> QED
    BY <1>1, <2>1
<1>5. Power(2, n + 4) = 2 * Power(2, n + 3)
  <2>1. n + 3 \in Nat /\ (n + 3) + 1 = n + 4
    OBVIOUS
  <2> QED
    BY <1>1, <2>1
<1>6. Power(2, n + 5) = 2 * Power(2, n + 4)
  <2>1. n + 4 \in Nat /\ (n + 4) + 1 = n + 5
    OBVIOUS
  <2> QED
    BY <1>1, <2>1
<1>7. Power(2, n + 6) = 2 * Power(2, n + 5)
  <2>1. n + 5 \in Nat /\ (n + 5) + 1 = n + 6
    OBVIOUS
  <2> QED
    BY <1>1, <2>1
<1>8. Power(2, n + 7) = 2 * Power(2, n + 6)
  <2>1. n + 6 \in Nat /\ (n + 6) + 1 = n + 7
    OBVIOUS
  <2> QED
    BY <1>1, <2>1
<1>9. Power(2, n + 8) = 2 * Power(2, n + 7)
  <2>1. n + 7 \in Nat /\ (n + 7) + 1 = n + 8
    OBVIOUS
  <2> QED
    BY <1>1, <2>1
<1>10. Power(2, n) \in Nat /\ Power(10, n) \in Nat
  BY <1>1
<1> QED
  BY <1>2, <1>3, <1>4, <1>5, <1>6, <1>7, <1>8, <1>9, <1>10

\* Three digits for every byte but the last of an int are enough.
LEMMA ThreeDigitsPerByte == Power(2, IntBytes * 8 - 1) <= Power(10, IntBytes * 3 - 1)
<1> DEFINE N == {m \in Nat : Power(2, 8 * m + 15) <= Power(10, 3 * m + 5)}
<1>1. \A k \in Nat : Power(2, k) \in Nat /\ Power(10, k) \in Nat
  BY PowerSteps
<1>2. 0 \in N
  <2>1. Power(2, 7 + 8) = 256 * Power(2, 7) /\ Power(10, 2 + 3) = 1000 * Power(10, 2)
    BY PowersOfTwoAndTen
  <2>2. \A k \in Nat : Power(2, k + 1) = 2 * Power(2, k) /\ Power(10, k + 1) = 10 * Power(10, k)
    BY PowerSteps
  <2>3. Power(2, 0) = 1 /\ Power(10, 0) = 1
    BY PowerSteps
  <2>4. /\ Power(2, 0 + 1) = 2 * Power(2, 0) /\ Power(2, 1 + 1) = 2 * Power(2, 1)
        /\ Power(2, 2 + 1) = 2 * Power(2, 2) /\ Power(2, 3 + 1) = 2 * Power(2, 3)
        /\ Power(2, 4 + 1) = 2 * Power(2, 4) /\ Power(2, 5 + 1) = 2 * Power(2, 5)
        /\ Power(2, 6 + 1) = 2 * Power(2, 6)
        /\ Power(10, 0 + 1) = 10 * Power(10, 0) /\ Power(10, 1 + 1) = 10 * Power(10, 1)
    BY <2>2
  <2>5. Power(2, 7) = 128 /\ Power(10, 2) = 100
    BY <2>3, <2>4
  <2>6. Power(2, 15) = 32768 /\ Power(10, 5) = 100000
    BY <2>1, <2>5
  <2> QED
    BY <2>6
<1>3. ASSUME NEW m \in Nat, m \in N PROVE m + 1 \in N
  <2> DEFINE i == 8 * m + 15
             j == 3 * m + 5
  <2>1. i \in Nat /\ j \in Nat /\ 8 * (m + 1) + 15 = i + 8 /\ 3 * (m + 1) + 5 = j + 3
    OBVIOUS
  <2>2. Power(2, i) <= Power(10, j)
    BY <1>3
  <2> HIDE DEF i, j
  <2>3. Power(2, i + 8) = 256 * Power(2, i) /\ Power(10, j + 3) = 1000 * Power(10, j)
    BY <2>1, PowersOfTwoAndTen
  <2>4. Power(2, i + 8) <= Power(10, j + 3)
    BY <1>1, <2>1, <2>2, <2>3
  <2> QED
    BY <2>1, <2>4
<1> HIDE DEF N
<1>4. Nat \subseteq N
  BY <1>2, <1>3, NumberInduction
<1>5. IntBytes - 2 \in Nat
  BY NumberAssumption
<1>6. Power(2, 8 * (IntBytes - 2) + 15) <= Power(10, 3 * (IntBytes - 2) + 5)
  BY <1>4, <1>5 DEF N
<1>7. 8 * (IntBytes - 2) + 15 = IntBytes * 8 - 1 /\ 3 * (IntBytes - 2) + 5 = IntBytes * 3 - 1
  BY NumberAssumption
<1> QED
  BY <1>6, <1>7

\* There are numbers.
LEMMA IntsAreNumbers == IntMax \in Nat /\ IntMin = -IntMax - 1
<1>1. IntBytes * 8 - 1 \in Nat
  BY NumberAssumption
<1> DEFINE n == IntBytes * 8 - 1
<1> HIDE DEF n
<1>2. Power(2, n) \in Nat /\ Power(2, n) > 0
  <2>1. 2 \in Nat \ {0} /\ 2 <= 2 /\ n \in Nat
    BY <1>1 DEF n
  <2> QED
    BY <2>1, PowerGrows
<1> QED
  BY <1>2 DEF IntMax, IntMin, n

-----------------------------------------------------------------------------
(* What digits mean *)

ValuesUpTo(digits, base, v) ==
    v = [k \in 0..Len(digits) |-> IF k = 0 THEN 0 ELSE base * v[k - 1] + digits[k]]

Magnitude(digits, base) == (CHOOSE v : ValuesUpTo(digits, base, v))[Len(digits)]

\* Products and sums of natural numbers are natural numbers.
LEMMA StepIsNumber ==
    ASSUME NEW a \in Nat, NEW x \in Nat, NEW y \in Nat
    PROVE  a * x + y \in Nat
<1>1. a * x \in Nat
  OBVIOUS
<1> QED
  BY <1>1

\* The function of the recursion exists.
LEMMA ValuesExist ==
    ASSUME NEW digits \in Seq(Nat), NEW base \in Nat
    PROVE  \E v : ValuesUpTo(digits, base, v)
<1> DEFINE n == Len(digits)
           D == 0..n
           rank == [k \in D |-> k]
           before == [k \in D |-> k - 1]
           step == [k \in D |-> [x \in Nat |-> IF k = 0 THEN x ELSE base * x + digits[k]]]
<1>1. n \in Nat /\ \A k \in D : k # 0 => k - 1 \in D /\ digits[k] \in Nat
  OBVIOUS
<1> HIDE DEF n
<1>2. \A k \in D, x \in Nat : (IF k = 0 THEN x ELSE base * x + digits[k]) \in Nat
  BY <1>1
<1>3. IsDescent(D, Nat, rank, n, before, 0, step)
  BY <1>1, <1>2 DEF IsDescent
<1>4. PICK F : Descends(F, D, Nat, rank, before, 0, step)
  BY <1>3, Recursion
<1>5. \A k \in D : F[k] = IF k = 0 THEN 0 ELSE base * F[k - 1] + digits[k]
  <2>1. F \in [D -> Nat] /\ \A k \in D : F[k] = IF k = 0 THEN 0 ELSE step[k][F[k - 1]]
    BY <1>4 DEF Descends
  <2>2. ASSUME NEW k \in D, k # 0 PROVE step[k][F[k - 1]] = base * F[k - 1] + digits[k]
    <3>1. F[k - 1] \in Nat
      BY <1>1, <2>1, <2>2
    <3> QED
      BY <2>2, <3>1
  <2> QED
    BY <2>1, <2>2
<1>6. F = [k \in D |-> IF k = 0 THEN 0 ELSE base * F[k - 1] + digits[k]]
  <2>1. F = [k \in D |-> F[k]]
    BY <1>4 DEF Descends
  <2> QED
    BY <1>5, <2>1
<1> QED
  BY <1>6 DEF ValuesUpTo, n

\* The digits in front have the same value whatever follows.
LEMMA ValuesAgree ==
    ASSUME NEW s \in Seq(Nat), NEW t \in Seq(Nat), Len(s) <= Len(t),
           \A i \in 1..Len(s) : s[i] = t[i], NEW base \in Nat, NEW v, NEW w,
           ValuesUpTo(s, base, v), ValuesUpTo(t, base, w)
    PROVE  v[Len(s)] = w[Len(s)] /\ w[Len(s)] \in Nat
<1> DEFINE m == Len(s)
           N == {k \in Nat : k <= m => v[k] = w[k] /\ w[k] \in Nat}
<1>1. /\ m \in Nat /\ Len(t) \in Nat /\ m <= Len(t)
      /\ \A i \in 1..m : s[i] = t[i] /\ s[i] \in Nat
  OBVIOUS
<1>2. /\ \A k \in 0..m : v[k] = IF k = 0 THEN 0 ELSE base * v[k - 1] + s[k]
      /\ \A k \in 0..Len(t) : w[k] = IF k = 0 THEN 0 ELSE base * w[k - 1] + t[k]
  BY DEF ValuesUpTo
<1> HIDE DEF m
<1>3. 0 \in N
  BY <1>1, <1>2
<1>4. ASSUME NEW k \in Nat, k \in N PROVE k + 1 \in N
  <2> SUFFICES ASSUME k + 1 <= m PROVE v[k + 1] = w[k + 1] /\ w[k + 1] \in Nat
    OBVIOUS
  <2>1. /\ k + 1 \in 0..m /\ k + 1 \in 1..m /\ k + 1 \in 0..Len(t) /\ k + 1 # 0
        /\ (k + 1) - 1 = k /\ k <= m
    BY <1>1
  <2>2. v[k] = w[k] /\ w[k] \in Nat
    BY <1>4, <2>1
  <2>3. v[k + 1] = base * v[k] + s[k + 1] /\ w[k + 1] = base * w[k] + t[k + 1]
    BY <1>2, <2>1
  <2>4. s[k + 1] = t[k + 1] /\ s[k + 1] \in Nat
    BY <1>1, <2>1
  <2>5. base * w[k] + s[k + 1] \in Nat
    BY <2>2, <2>4, StepIsNumber
  <2> HIDE DEF N
  <2>6. v[k + 1] = w[k + 1]
    BY <2>2, <2>3, <2>4
  <2> QED
    BY <2>2, <2>3, <2>4, <2>5, <2>6
<1> HIDE DEF N
<1>5. Nat \subseteq N
  BY <1>3, <1>4, NumberInduction
<1> QED
  BY <1>1, <1>5 DEF N, m

\* A digit more counts, and those in front of it count base times as much.
LEMMA OneMoreDigit ==
    ASSUME NEW s \in Seq(Nat), NEW x \in Nat, NEW base \in Nat
    PROVE  /\ Magnitude(<<>>, base) = 0 /\ Magnitude(s, base) \in Nat
           /\ Magnitude(Append(s, x), base) = base * Magnitude(s, base) + x
<1> DEFINE t == Append(s, x)
           v == CHOOSE f : ValuesUpTo(s, base, f)
           w == CHOOSE f : ValuesUpTo(t, base, f)
           z == CHOOSE f : ValuesUpTo(<<>>, base, f)
<1>1. /\ t \in Seq(Nat) /\ Len(t) = Len(s) + 1 /\ Len(s) \in Nat /\ t[Len(s) + 1] = x
      /\ \A i \in 1..Len(s) : s[i] = t[i]
  OBVIOUS
<1>2. <<>> \in Seq(Nat) /\ Len(<<>>) = 0
  OBVIOUS
<1> HIDE DEF t
<1>3. ValuesUpTo(s, base, v) /\ ValuesUpTo(t, base, w) /\ ValuesUpTo(<<>>, base, z)
  BY <1>1, <1>2, ValuesExist
<1>4. /\ Magnitude(s, base) = v[Len(s)] /\ Magnitude(t, base) = w[Len(t)]
      /\ Magnitude(<<>>, base) = z[0]
  BY <1>2 DEF Magnitude
<1> HIDE DEF v, w, z
<1>5. v[Len(s)] = w[Len(s)] /\ w[Len(s)] \in Nat
  <2>1. Len(s) <= Len(t)
    BY <1>1
  <2> QED
    BY <1>1, <1>3, <2>1, ValuesAgree
<1>6. w[Len(t)] = base * w[Len(s)] + x
  <2>1. Len(t) \in 0..Len(t) /\ Len(t) # 0 /\ Len(t) - 1 = Len(s)
    BY <1>1
  <2>2. w[Len(t)] = base * w[Len(t) - 1] + t[Len(t)]
    BY <1>3, <2>1 DEF ValuesUpTo
  <2> QED
    BY <1>1, <2>1, <2>2
<1>7. z[0] = 0
  BY <1>2, <1>3 DEF ValuesUpTo
<1> QED
  BY <1>4, <1>5, <1>6, <1>7 DEF t

\* What the value of a text is.
LEMMA ValueIsMagnitude ==
    ASSUME NEW minus \in BOOLEAN, NEW digits, NEW base
    PROVE  Value(Text(minus, digits), base) =
               IF minus THEN -Magnitude(digits, base) ELSE Magnitude(digits, base)
  BY DEF Value, Text, Magnitude, ValuesUpTo

-----------------------------------------------------------------------------
(* The digits that are written *)

\* The function of the recursion exists: dividing makes a number smaller.
LEMMA DigitsSteps ==
    ASSUME NEW base \in Nat \ {0, 1}
    PROVE  LET d == DigitsOf(base)
           IN  /\ d[0] = <<>>
               /\ \A n \in 0..IntMax : d[n] \in Seq(0..(base - 1))
               /\ \A n \in 1..IntMax : n \div base \in 0..(n - 1)
                                       /\ d[n] = Append(d[n \div base], n % base)
<1> DEFINE D == 0..IntMax
           V == Seq(0..(base - 1))
           rank == [n \in D |-> n]
           before == [n \in D |-> n \div base]
           step == [n \in D |-> [s \in V |-> Append(s, n % base)]]
           IsDigits(d) == d = [n \in D |-> IF n = 0 THEN <<>> ELSE Append(d[n \div base], n % base)]
           d == DigitsOf(base)
<1>1. IntMax \in Nat
  BY IntsAreNumbers
<1>2. ASSUME NEW n \in D, n # 0 PROVE n \div base \in 0..(n - 1)
  <2> DEFINE q == n \div base
             r == n % base
  <2>1. n \in Nat \ {0}
    BY <1>1, <1>2
  <2>2. q \in Nat /\ r \in 0..(base - 1) /\ n = base * q + r
    BY <2>1
  <2> HIDE DEF q, r
  <2>3. 2 * q <= base * q
    <3>1. 2 \in Nat /\ 2 <= base
      OBVIOUS
    <3> QED
      BY <2>2, <3>1, ProductIsMonotonic
  <2>4. base * q \in Nat
    BY <2>2
  <2>5. q <= n - 1
    BY <2>1, <2>2, <2>3, <2>4
  <2> QED
    BY <2>1, <2>2, <2>5 DEF q
<1>3. \A n \in D : n # 0 => n \div base \in D /\ n \div base < n
  BY <1>1, <1>2
<1>4. \A n \in D : n % base \in 0..(base - 1)
  BY <1>1
<1>5. <<>> \in V
  OBVIOUS
<1>6. step \in [D -> [V -> V]]
  <2> DEFINE B == 0..(base - 1)
  <2>1. \A n \in D : n % base \in B
    BY <1>4
  <2> HIDE DEF B
  <2>2. \A s \in Seq(B), x \in B : Append(s, x) \in Seq(B)
    OBVIOUS
  <2>3. \A n \in D, s \in Seq(B) : Append(s, n % base) \in Seq(B)
    BY <2>1, <2>2
  <2>4. V = Seq(B)
    BY DEF B
  <2> HIDE DEF V, D
  <2> QED
    BY <2>3, <2>4
<1> HIDE DEF V
<1>7. IsDescent(D, V, rank, IntMax, before, <<>>, step)
  <2>1. rank \in [D -> 0..IntMax]
    OBVIOUS
  <2>2. \A n \in D : rank[n] # 0 => before[n] \in D /\ rank[before[n]] < rank[n]
    BY <1>3
  <2> HIDE DEF D, rank, before, step
  <2> QED
    BY <1>1, <1>5, <1>6, <2>1, <2>2 DEF IsDescent
<1>8. PICK F : Descends(F, D, V, rank, before, <<>>, step)
  BY <1>7, Recursion
<1>9. F \in [D -> V] /\ \A n \in D : F[n] = IF n = 0 THEN <<>> ELSE step[n][F[n \div base]]
  BY <1>8 DEF Descends
<1>10. \A n \in D : F[n] = IF n = 0 THEN <<>> ELSE Append(F[n \div base], n % base)
  <2>1. ASSUME NEW n \in D, n # 0 PROVE step[n][F[n \div base]] = Append(F[n \div base], n % base)
    <3>1. F[n \div base] \in V
      BY <1>3, <1>9, <2>1
    <3> HIDE DEF D
    <3> QED
      BY <3>1
  <2> QED
    BY <1>9, <2>1
<1>11. IsDigits(F)
  <2>1. F = [n \in D |-> F[n]]
    BY <1>9
  <2> QED
    BY <1>10, <2>1
<1>12. d = CHOOSE f : IsDigits(f)
  BY DEF DigitsOf
<1> HIDE DEF d
<1>13. IsDigits(d)
  BY <1>11, <1>12
<1>14. \A n \in D : d[n] = IF n = 0 THEN <<>> ELSE Append(d[n \div base], n % base)
  BY <1>13
<1> DEFINE N == {m \in Nat : \A n \in D : n <= m => d[n] = F[n]}
<1>15. 0 \in N
  BY <1>10, <1>14
<1>16. ASSUME NEW m \in Nat, m \in N PROVE m + 1 \in N
  <2> SUFFICES ASSUME NEW n \in D, n <= m + 1 PROVE d[n] = F[n]
    OBVIOUS
  <2>1. CASE n = 0
    BY <1>10, <1>14, <2>1
  <2>2. CASE n # 0
    <3>1. n \div base \in D /\ n \div base <= m
      BY <1>1, <1>2, <1>3, <2>2
    <3>2. d[n \div base] = F[n \div base]
      BY <1>16, <3>1
    <3> QED
      BY <1>10, <1>14, <2>2, <3>2
  <2> QED
    BY <2>1, <2>2
<1> HIDE DEF N
<1>17. Nat \subseteq N
  BY <1>15, <1>16, NumberInduction
<1>18. \A n \in D : d[n] \in V
  BY <1>1, <1>9, <1>17 DEF N
<1>19. 0 \in D /\ \A n \in 1..IntMax : n \in D /\ n # 0
  BY <1>1
<1> HIDE DEF D
<1>20. /\ d[0] = <<>>
       /\ \A n \in 1..IntMax : n \div base \in 0..(n - 1)
                               /\ d[n] = Append(d[n \div base], n % base)
  BY <1>2, <1>14, <1>19
<1> QED
  BY <1>18, <1>20 DEF d, D, V

\* What is written of a number that is not negative.
NumeralOf(digits, base, n) ==
    /\ digits \in Seq(0..(base - 1)) /\ digits \in Seq(Nat)
    /\ Magnitude(digits, base) = n
    /\ n > 0 => Len(digits) > 0 /\ digits[1] # 0
    /\ \A k \in Nat : n < Power(base, k) => Len(digits) <= k

\* The digits of a number are its numeral, with no more digits than it needs.
LEMMA DigitsAreNumeral ==
    ASSUME NEW base \in Nat \ {0, 1}, NEW n \in 0..IntMax
    PROVE  NumeralOf(DigitsOf(base)[n], base, n)
<1> DEFINE d == DigitsOf(base)
           D == 0..IntMax
           B == 0..(base - 1)
           N == {m \in Nat : \A i \in D : i <= m => NumeralOf(d[i], base, i)}
<1>1. /\ d[0] = <<>> /\ \A i \in D : d[i] \in Seq(B)
      /\ \A i \in 1..IntMax : i \div base \in 0..(i - 1)
                              /\ d[i] = Append(d[i \div base], i % base)
  BY DigitsSteps
<1>2. IntMax \in Nat
  BY IntsAreNumbers
<1>3. B \subseteq Nat /\ \A s \in Seq(B) : s \in Seq(Nat)
  <2>1. B \subseteq Nat
    OBVIOUS
  <2> HIDE DEF B
  <2> QED
    BY <2>1, SeqMonotonic
<1> HIDE DEF d
<1>4. NumeralOf(d[0], base, 0)
  <2>1. <<>> \in Seq(B) /\ <<>> \in Seq(Nat) /\ Len(<<>>) = 0
    OBVIOUS
  <2>2. Magnitude(<<>>, base) = 0
    BY <2>1, OneMoreDigit
  <2> QED
    BY <1>1, <2>1, <2>2 DEF NumeralOf
<1>5. 0 \in N
  BY <1>4
<1>6. ASSUME NEW m \in Nat, m \in N PROVE m + 1 \in N
  <2> SUFFICES ASSUME NEW i \in D, i <= m + 1 PROVE NumeralOf(d[i], base, i)
    OBVIOUS
  <2> DEFINE q == i \div base
             r == i % base
             s == d[q]
             t == Append(s, r)
  <2>1. CASE i = 0
    BY <1>4, <2>1
  <2>2. CASE i # 0
    <3>1. i \in 1..IntMax /\ i \in Nat
      BY <1>2, <2>2
    <3>2. q \in 0..(i - 1) /\ d[i] = t
      BY <1>1, <3>1
    <3>3. q \in D /\ q <= m /\ q \in Nat
      BY <1>2, <3>1, <3>2
    <3>4. NumeralOf(s, base, q)
      BY <1>6, <3>3
    <3>5. r \in B /\ i = base * q + r
      BY <3>1
    <3> HIDE DEF q, r, s, t, B, N
    <3>6. /\ s \in Seq(B) /\ s \in Seq(Nat) /\ Magnitude(s, base) = q /\ Len(s) \in Nat
          /\ q > 0 => Len(s) > 0 /\ s[1] # 0
          /\ \A k \in Nat : q < Power(base, k) => Len(s) <= k
      <4>1. /\ s \in Seq(B) /\ s \in Seq(Nat) /\ Magnitude(s, base) = q
            /\ q > 0 => Len(s) > 0 /\ s[1] # 0
            /\ \A k \in Nat : q < Power(base, k) => Len(s) <= k
        BY <3>4 DEF NumeralOf, B
      <4> QED
        BY <4>1
    <3>7. t \in Seq(B) /\ t \in Seq(Nat) /\ Len(t) = Len(s) + 1
      BY <1>3, <3>5, <3>6 DEF t
    <3>8. Magnitude(t, base) = i
      <4>1. r \in Nat
        BY <1>3, <3>5
      <4> QED
        BY <3>5, <3>6, <4>1, OneMoreDigit DEF t
    <3>9. t[1] # 0
      <4>1. CASE q > 0
        <5>1. t[1] = s[1]
          BY <1>3, <3>5, <3>6, <4>1 DEF t
        <5> QED
          BY <3>6, <4>1, <5>1
      <4>2. CASE q = 0
        <5>1. r = i
          <6>1. base * 0 = 0 /\ r \in Nat
            BY <1>3, <3>5
          <6> QED
            BY <3>1, <3>5, <4>2, <6>1
        <5>2. Power(base, 0) = 1 /\ 0 \in Nat
          BY PowerSteps
        <5>3. Len(s) <= 0
          BY <3>6, <4>2, <5>2
        <5>4. t[1] = r
          BY <1>3, <3>5, <3>6, <5>3 DEF t
        <5> QED
          BY <2>2, <5>1, <5>4
      <4> QED
        BY <3>3, <4>1, <4>2
    <3>10. ASSUME NEW k \in Nat, i < Power(base, k) PROVE Len(t) <= k
      <4>1. k # 0
        <5>1. Power(base, 0) = 1
          BY PowerSteps
        <5> QED
          BY <2>2, <3>1, <3>10, <5>1
      <4> DEFINE j == k - 1
                 p == Power(base, j)
      <4>2. j \in Nat /\ j + 1 = k
        BY <4>1
      <4>3. p \in Nat /\ Power(base, j + 1) = base * p
        BY <4>2, PowerSteps
      <4>4. r \in Nat
        BY <1>3, <3>5
      <4> HIDE DEF p, j
      <4>5. ASSUME p <= q PROVE FALSE
        <5>1. p * base <= q * base
          BY <3>3, <4>3, <4>5, ProductIsMonotonic
        <5>2. p * base = base * p /\ q * base = base * q /\ base * p \in Nat /\ base * q \in Nat
          BY <3>3, <4>3
        <5>3. i < base * p
          BY <3>10, <4>2, <4>3
        <5> QED
          BY <3>1, <3>5, <4>4, <5>1, <5>2, <5>3
      <4>6. q < p
        BY <3>3, <4>3, <4>5
      <4>7. Len(s) <= j
        BY <3>6, <4>2, <4>6 DEF p
      <4> QED
        BY <3>6, <3>7, <4>2, <4>7
    <3>11. Len(t) > 0
      BY <3>6, <3>7
    <3>12. NumeralOf(t, base, i)
      BY <3>7, <3>8, <3>9, <3>10, <3>11 DEF NumeralOf, B
    <3> QED
      BY <3>2, <3>12
  <2> QED
    BY <2>1, <2>2
<1> HIDE DEF N
<1>7. Nat \subseteq N
  BY <1>5, <1>6, NumberInduction
<1> QED
  BY <1>2, <1>7 DEF N, d

\* The numeral 0.
LEMMA ZeroIsNumeral ==
    ASSUME NEW base \in Nat \ {0, 1}
    PROVE  /\ <<0>> \in Seq(0..(base - 1)) /\ <<0>> \in Seq(Nat) /\ Len(<<0>>) = 1
           /\ Magnitude(<<0>>, base) = 0
<1>1. 0 \in 0..(base - 1)
  OBVIOUS
<1>2. <<>> \in Seq(Nat) /\ Append(<<>>, 0) = <<0>> /\ 0 \in Nat
  OBVIOUS
<1>3. Magnitude(<<>>, base) = 0 /\ Magnitude(Append(<<>>, 0), base) = base * Magnitude(<<>>, base) + 0
  BY <1>2, OneMoreDigit
<1>4. base * 0 + 0 = 0
  OBVIOUS
<1>5. Magnitude(<<0>>, base) = 0
  BY <1>2, <1>3, <1>4
<1> QED
  BY <1>1, <1>5

\* Both functions write a sign and the digits of the magnitude, at least one.
LEMMA TextsAreNumerals ==
    ASSUME NEW number \in Numbers, number # IntMin, NEW base \in 2..16
    PROVE  LET n == IF number < 0 THEN -number ELSE number
           IN  /\ n \in 0..IntMax
               /\ Decimal(number) = Text(number < 0, DigitsOrZero(10, n))
               /\ InBase(number, base) = Text(number < 0, DigitsOrZero(base, n))
<1> DEFINE n == IF number < 0 THEN -number ELSE number
<1>1. IntMax \in Nat /\ IntMin = -IntMax - 1 /\ number \in IntMin..IntMax
  BY IntsAreNumbers DEF Numbers
<1>2. n \in 0..IntMax /\ n \in Nat /\ number \in Int /\ (n = 0 <=> number = 0)
  BY <1>1
<1>3. n = IF number < 0 THEN Negate(number) ELSE number
  BY DEF Negate
<1> HIDE DEF n
<1>4. Decimal(number) = Text(number < 0, DigitsOrZero(10, n))
  <2>1. CASE number = 0
    <3>1. (number < 0) = FALSE /\ n = 0
      BY <1>2, <2>1
    <3>2. Decimal(number) = Text(FALSE, <<0>>) /\ DigitsOrZero(10, n) = <<0>>
      BY <2>1, <3>1 DEF Decimal, DigitsOrZero
    <3> QED
      BY <3>1, <3>2, Zenon
  <2>2. CASE number # 0
    <3>1. n > 0 /\ n # 0
      BY <1>2, <2>2
    <3>2. Decimal(number) = Text(number < 0, IF n > 0 THEN DigitsOf(10)[n] ELSE <<>>)
      BY <1>3, <2>2 DEF Decimal
    <3>3. DigitsOrZero(10, n) = DigitsOf(10)[n]
      BY <3>1 DEF DigitsOrZero
    <3>4. (IF n > 0 THEN DigitsOf(10)[n] ELSE <<>>) = DigitsOf(10)[n]
      BY <3>1
    <3> QED
      BY <3>2, <3>3, <3>4, Zenon
  <2> QED
    BY <2>1, <2>2
<1>5. InBase(number, base) = Text(number < 0, DigitsOrZero(base, n))
  <2>1. ~ (n < 0)
    BY <1>2
  <2> QED
    BY <1>3, <2>1 DEF InBase
<1> QED
  BY <1>2, <1>4, <1>5 DEF n

\* What is written for a magnitude: its digits, of which there are as few as can be.
LEMMA DigitsOrZeroAreNumeral ==
    ASSUME NEW base \in Nat \ {0, 1}, NEW n \in 0..IntMax, NEW minus \in BOOLEAN
    PROVE  LET text == Text(minus, DigitsOrZero(base, n))
           IN  /\ IsNumeral(text, base)
               /\ Value(text, base) = IF minus THEN -n ELSE n
               /\ \A k \in Nat \ {0} : n < Power(base, k) => Room(text) <= k + 1
<1> DEFINE digits == DigitsOrZero(base, n)
           text == Text(minus, digits)
           B == 0..(base - 1)
<1>1. NumeralOf(DigitsOf(base)[n], base, n) /\ n \in Nat
  BY DigitsAreNumeral
<1>2. /\ digits \in Seq(B) /\ Magnitude(digits, base) = n /\ Len(digits) > 0
      /\ digits[1] = 0 => Len(digits) = 1
      /\ \A k \in Nat \ {0} : n < Power(base, k) => Len(digits) <= k
  <2>1. CASE n = 0
    <3>1. digits = <<0>>
      BY <2>1 DEF DigitsOrZero
    <3> HIDE DEF digits
    <3> QED
      BY <2>1, <3>1, ZeroIsNumeral
  <2>2. CASE n # 0
    <3>1. digits = DigitsOf(base)[n] /\ n > 0
      BY <1>1, <2>2 DEF DigitsOrZero
    <3> HIDE DEF digits
    <3> QED
      BY <1>1, <3>1 DEF NumeralOf
  <2> QED
    BY <2>1, <2>2
<1>3. Value(text, base) = IF minus THEN -Magnitude(digits, base) ELSE Magnitude(digits, base)
  BY ValueIsMagnitude
<1>4. text.digits = digits
  BY DEF Text
<1> HIDE DEF digits, text, B
<1>5. Len(digits) \in Nat /\ digits # <<>> /\ \A i \in 1..Len(digits) : digits[i] \in B
  BY <1>2
<1>6. IsNumeral(text, base)
  BY <1>2, <1>4, <1>5 DEF IsNumeral, B
<1>7. ASSUME NEW k \in Nat \ {0}, n < Power(base, k) PROVE Room(text) <= k + 1
  BY <1>2, <1>4, <1>5, <1>7 DEF Room
<1> QED
  BY <1>2, <1>3, <1>6, <1>7 DEF text, digits

\* Every number but the smallest is written as its numeral.
THEOREM EveryNumberIsPrinted == Spec => []PrintsTheNumber
<1>1. Init => PrintsTheNumber
  <2> SUFFICES ASSUME Init, input.kind = "number", input.number # IntMin PROVE PrintsTheNumber
    BY DEF PrintsTheNumber
  <2> DEFINE number == input.number
             base == input.base
             n == IF number < 0 THEN -number ELSE number
             minus == number < 0
  <2>1. number \in Numbers /\ base \in 2..16 /\ number # IntMin
    BY NumberAssumption DEF Init
  <2> HIDE DEF number, base
  <2>2. /\ n \in 0..IntMax
        /\ Decimal(number) = Text(minus, DigitsOrZero(10, n))
        /\ InBase(number, base) = Text(minus, DigitsOrZero(base, n))
    BY <2>1, TextsAreNumerals
  <2>3. number \in Int /\ number = IF minus THEN -n ELSE n
    BY <2>1, IntsAreNumbers DEF Numbers
  <2>4. base \in Nat \ {0, 1} /\ 10 \in Nat \ {0, 1} /\ minus \in BOOLEAN
    BY <2>1
  <2> HIDE DEF n, minus
  <2>5. /\ IsNumeral(Text(minus, DigitsOrZero(10, n)), 10)
        /\ Value(Text(minus, DigitsOrZero(10, n)), 10) = IF minus THEN -n ELSE n
    BY <2>2, <2>4, DigitsOrZeroAreNumeral
  <2>6. /\ IsNumeral(Text(minus, DigitsOrZero(base, n)), base)
        /\ Value(Text(minus, DigitsOrZero(base, n)), base) = IF minus THEN -n ELSE n
    BY <2>2, <2>4, DigitsOrZeroAreNumeral
  <2> QED
    BY <2>2, <2>3, <2>5, <2>6 DEF PrintsTheNumber, number, base
<1> QED
  BY <1>1, InputKept, PTL

\* A buffer holds the text of every number but the smallest.
LEMMA NumbersFit ==
    ASSUME NEW number \in Numbers, number # IntMin, NEW base \in 2..16
    PROVE  /\ Room(Decimal(number)) <= DecimalBuffer
           /\ Room(InBase(number, base)) <= InBaseBuffer
<1> DEFINE n == IF number < 0 THEN -number ELSE number
           minus == number < 0
           bits == IntBytes * 8 - 1
           places == IntBytes * 3 - 1
<1>1. /\ n \in 0..IntMax
      /\ Decimal(number) = Text(minus, DigitsOrZero(10, n))
      /\ InBase(number, base) = Text(minus, DigitsOrZero(base, n))
  BY TextsAreNumerals
<1>2. /\ bits \in Nat \ {0} /\ places \in Nat \ {0}
      /\ bits + 1 = InBaseBuffer /\ places + 1 = DecimalBuffer
  BY NumberAssumption DEF InBaseBuffer, DecimalBuffer
<1>3. /\ base \in Nat \ {0, 1} /\ 10 \in Nat \ {0, 1} /\ minus \in BOOLEAN
      /\ 2 \in Nat \ {0} /\ 2 <= base /\ base \in Nat
  OBVIOUS
<1>4. IntMax = Power(2, bits) - 1 /\ Power(2, bits) <= Power(10, places)
  BY ThreeDigitsPerByte DEF IntMax
<1> HIDE DEF n, bits, places, minus
<1>5. Power(2, bits) \in Nat /\ Power(2, bits) <= Power(base, bits)
  BY <1>2, <1>3, PowerGrows
<1>6. Power(base, bits) \in Nat /\ Power(10, places) \in Nat
  BY <1>2, <1>3, PowerSteps
<1>7. n < Power(base, bits) /\ n < Power(10, places)
  BY <1>1, <1>4, <1>5, <1>6
<1>8. Room(Text(minus, DigitsOrZero(10, n))) <= places + 1
  BY <1>1, <1>2, <1>3, <1>7, DigitsOrZeroAreNumeral
<1>9. Room(Text(minus, DigitsOrZero(base, n))) <= bits + 1
  BY <1>1, <1>2, <1>3, <1>7, DigitsOrZeroAreNumeral
<1> QED
  BY <1>1, <1>2, <1>8, <1>9

\* Two sequences one behind the other.
LEMMA Joined ==
    ASSUME NEW s \in Seq(Nat), NEW t \in Seq(Nat)
    PROVE  /\ s \o t \in Seq(Nat) /\ Len(s \o t) = Len(s) + Len(t)
           /\ \A i \in 1..Len(s) : (s \o t)[i] = s[i]
           /\ Len(t) > 0 => (s \o t)[Len(s) + 1] = t[1]
<1> DEFINE w == s \o t
<1>1. /\ w \in Seq(Nat) /\ Len(w) = Len(s) + Len(t)
      /\ \A i \in 1..Len(s) + Len(t) : w[i] = IF i <= Len(s) THEN s[i] ELSE t[i - Len(s)]
  BY ConcatProperties
<1>2. Len(s) \in Nat /\ Len(t) \in Nat
  OBVIOUS
<1> HIDE DEF w
<1>3. ASSUME Len(t) > 0 PROVE w[Len(s) + 1] = t[1]
  <2>1. /\ Len(s) + 1 \in 1..Len(s) + Len(t) /\ ~ (Len(s) + 1 <= Len(s))
        /\ Len(s) + 1 - Len(s) = 1
    BY <1>2, <1>3
  <2> QED
    BY <1>1, <2>1
<1>4. ASSUME NEW i \in 1..Len(s) PROVE w[i] = s[i]
  <2>1. i \in 1..Len(s) + Len(t) /\ i <= Len(s)
    BY <1>2
  <2> QED
    BY <1>1, <2>1
<1> QED
  BY <1>1, <1>3, <1>4 DEF w

\* What execname() leaves in a buffer: as much of the path as fits, terminated.
LEMMA NamesFit ==
    ASSUME NEW link \in Seq(Nat \ {Nul}), link # Gone, NEW buf \in Seq(Nat), Len(buf) > 1
    PROVE  LET r    == execname(link, buf)
               name == StringIn(r.buf)
           IN  /\ Len(r.buf) = Len(buf) /\ r.name = r.buf
               /\ IsPrefix(name, link)
               /\ name = link \/ Len(name) = Len(r.buf) - 1
<1> DEFINE b == Len(buf)
           l == Len(link)
           len == IF l <= b - 1 THEN l ELSE b - 1
           head == SubSeq(link, 1, len)
           tail == SubSeq(buf, len + 2, b)
           filled == head \o <<Nul>> \o tail
           r == execname(link, buf)
           First(n) == n \in DOMAIN filled /\ filled[n] = Nul
                       /\ \A m \in 1..(n - 1) : filled[m] # Nul
<1>1. b \in Nat \ {0} /\ l \in Nat /\ len \in Nat /\ len <= l /\ len <= b - 1
  OBVIOUS
<1>2. r.name = filled /\ r.buf = filled
  <2>1. LinkIsRead(link, buf)
    BY DEF LinkIsRead, RoomForName
  <2> QED
    BY <2>1 DEF execname, RoomForName
<1>3. link \in Seq(Nat) /\ \A i \in 1..l : link[i] \in Nat /\ link[i] # Nul
  OBVIOUS
<1>4. (len = l \/ len = b - 1) /\ Nul \in Nat
  BY DEF Nul
<1> HIDE DEF len, l, b
<1>5. head \in Seq(Nat) /\ Len(head) = len /\ \A i \in 1..len : head[i] = link[i]
  BY <1>1, <1>3 DEF l
<1>6. tail \in Seq(Nat) /\ Len(tail) = b - len - 1
  BY <1>1 DEF b
<1> HIDE DEF head, tail, r
<1>7. /\ filled \in Seq(Nat) /\ Len(filled) = b /\ DOMAIN filled = 1..b
      /\ \A i \in 1..len : filled[i] = head[i]
      /\ filled[len + 1] = Nul
  <2> DEFINE z == <<Nul>>
             s == head \o z
  <2>1. /\ s \in Seq(Nat) /\ Len(s) = len + 1 /\ s[len + 1] = Nul
        /\ \A i \in 1..len : s[i] = head[i]
    <3>1. z \in Seq(Nat) /\ Len(z) = 1 /\ z[1] = Nul /\ Len(z) > 0
      BY <1>4
    <3> HIDE DEF z
    <3>2. /\ s \in Seq(Nat) /\ Len(s) = Len(head) + Len(z)
          /\ \A i \in 1..Len(head) : s[i] = head[i]
          /\ s[Len(head) + 1] = z[1]
      BY <1>5, <3>1, Joined, Zenon
    <3> HIDE DEF s
    <3> QED
      BY <1>1, <1>5, <3>1, <3>2
  <2> HIDE DEF s
  <2>2. /\ s \o tail \in Seq(Nat) /\ Len(s \o tail) = len + 1 + (b - len - 1)
        /\ \A i \in 1..(len + 1) : (s \o tail)[i] = s[i]
    <3> DEFINE w == s \o tail
    <3>1. /\ w \in Seq(Nat) /\ Len(w) = Len(s) + Len(tail)
          /\ \A i \in 1..Len(s) : w[i] = s[i]
      BY <1>6, <2>1, Joined
    <3> HIDE DEF w
    <3>2. /\ w \in Seq(Nat) /\ Len(w) = len + 1 + (b - len - 1)
          /\ \A i \in 1..(len + 1) : w[i] = s[i]
      BY <1>6, <2>1, <3>1
    <3> QED
      BY <3>2 DEF w
  <2>3. len + 1 + (b - len - 1) = b /\ len + 1 \in 1..(len + 1) /\ 1..len \subseteq 1..(len + 1)
    BY <1>1
  <2>4. DOMAIN (s \o tail) = 1..Len(s \o tail)
    BY <2>2
  <2>5. filled = s \o tail
    BY DEF s, z, filled
  <2> HIDE DEF filled
  <2> QED
    BY <2>1, <2>2, <2>3, <2>4, <2>5
<1> HIDE DEF filled
<1>8. First(len + 1)
  <2>1. \A m \in 1..len : filled[m] # Nul
    BY <1>1, <1>3, <1>5, <1>7
  <2> QED
    BY <1>1, <1>7, <2>1
<1>9. ASSUME NEW n, First(n) PROVE n = len + 1
  <2>1. n \in Nat \ {0}
    BY <1>1, <1>7, <1>9
  <2>2. ~ (n \in 1..len)
    BY <1>1, <1>3, <1>5, <1>7, <1>9
  <2>3. ~ (len + 1 \in 1..(n - 1))
    BY <1>7, <1>9
  <2> QED
    BY <1>1, <2>1, <2>2, <2>3
<1>10. StringIn(filled) = SubSeq(filled, 1, len)
  <2>1. (CHOOSE n \in DOMAIN filled : filled[n] = Nul /\ \A m \in 1..(n - 1) : filled[m] # Nul)
            = len + 1
    BY <1>8, <1>9
  <2>2. (len + 1) - 1 = len
    BY <1>1
  <2> QED
    BY <2>1, <2>2 DEF StringIn
<1> DEFINE name == SubSeq(filled, 1, len)
<1>11. name \in Seq(Nat) /\ Len(name) = len /\ \A i \in 1..len : name[i] = link[i]
  BY <1>1, <1>5, <1>7
<1> HIDE DEF name
<1>12. /\ SubSeq(link, 1, len) \in Seq(Nat) /\ Len(SubSeq(link, 1, len)) = len
       /\ \A i \in 1..len : SubSeq(link, 1, len)[i] = link[i]
  BY <1>1, <1>3 DEF l
<1>13. IsPrefix(name, link)
  <2>1. name = SubSeq(name, 1, len)
    BY <1>1, <1>11
  <2>2. name = SubSeq(link, 1, len)
    BY <1>11, <1>12, SeqEqual
  <2> QED
    BY <1>1, <1>11, <2>1, <2>2 DEF IsPrefix, l
<1>14. name = link \/ Len(name) = b - 1
  <2>1. ASSUME len = l PROVE name = link
    <3>1. Len(name) = Len(link)
      BY <1>11, <2>1 DEF l
    <3> QED
      BY <1>3, <1>11, <3>1, SeqEqual
  <2> QED
    BY <1>4, <1>11, <2>1
<1> QED
  BY <1>2, <1>7, <1>10, <1>13, <1>14 DEF r, name, b

\* The buffers of syscall_write() are large enough, whatever the number and its base
\* are; execname() keeps to any buffer, terminates what it reads, and leaves a buffer
\* that has room for the terminator only as it was.
THEOREM EveryTextFits == Spec => []TextsFitTheirBuffers
<1>1. Init => TextsFitTheirBuffers
  <2> SUFFICES ASSUME Init PROVE TextsFitTheirBuffers
    OBVIOUS
  <2>1. ASSUME input.kind = "number", input.number # IntMin
        PROVE  /\ Room(Decimal(input.number)) <= DecimalBuffer
               /\ Room(InBase(input.number, input.base)) <= InBaseBuffer
    <3>1. input.number \in Numbers /\ input.base \in 2..16
      BY <2>1, NumberAssumption DEF Init
    <3> QED
      BY <2>1, <3>1, NumbersFit
  <2>2. ASSUME input.kind = "link"
        PROVE  LET link == input.link
                   r    == execname(link, input.buf)
                   name == StringIn(r.buf)
               IN  /\ Len(r.buf) = Len(input.buf)
                   /\ IF link = Gone \/ Len(input.buf) = 1
                      THEN r.buf = input.buf /\ r.name = NULL
                      ELSE /\ r.name = r.buf
                           /\ IsPrefix(name, link)
                           /\ name = link \/ Len(name) = Len(r.buf) - 1
    <3>1. input.link \in Seq(Nat \ {Nul}) /\ input.buf \in Seq(Nat) /\ input.buf # <<>>
      BY <2>2, InputsAssumption DEF Init
    <3> DEFINE link == input.link
               buf  == input.buf
               size == Len(buf)
    <3>0. size \in Nat \ {0}
      BY <3>1
    <3> HIDE DEF link, buf, size
    <3>2. CASE link = Gone \/ size = 1
      <4>1. ~ LinkIsRead(link, buf)
        <5>1. link = Gone \/ ~ (size - 1 > 0)
          BY <3>2
        <5> QED
          BY <5>1 DEF LinkIsRead, RoomForName, size
      <4>2. execname(link, buf) = [name |-> NULL, buf |-> buf]
        BY <4>1 DEF execname
      <4> QED
        BY <3>2, <4>2 DEF link, buf, size
    <3>3. CASE ~ (link = Gone \/ size = 1)
      <4>1. link \in Seq(Nat \ {Nul}) /\ buf \in Seq(Nat)
        BY <3>1 DEF link, buf
      <4>2. size > 1 /\ link # Gone
        BY <3>0, <3>3
      <4> QED
        BY <3>3, <4>1, <4>2, NamesFit DEF link, buf, size
    <3> QED
      BY <3>2, <3>3
  <2> QED
    BY <2>1, <2>2 DEF TextsFitTheirBuffers
<1> QED
  BY <1>1, InputKept, PTL
=============================================================================
