-------------------------- MODULE BufferPoolProofs --------------------------
(***************************************************************************)
(* Theorems about BufferPool, for any set of buffers: what holds whatever  *)
(* the callers and the kernel do, and that callers which behave see a      *)
(* last-in-first-out pool of exclusive buffers.                            *)
(***************************************************************************)
EXTENDS BufferPool, SequenceTheorems, TLAPS

\* The stack without its top.
LEMMA PopProperties ==
    ASSUME NEW s \in Seq(Buffers)
    PROVE  /\ SubSeq(s, 1, Len(s) - 1) \in Seq(Buffers)
           /\ s # <<>> => Len(SubSeq(s, 1, Len(s) - 1)) = Len(s) - 1
           /\ \A k \in 1..(Len(s) - 1) : SubSeq(s, 1, Len(s) - 1)[k] = s[k]
<1>1. \A k \in 1..(Len(s) - 1) : s[k] \in Buffers
  OBVIOUS
<1>2. Len(s) \in Nat /\ (s # <<>> => Len(s) > 0)
  OBVIOUS
<1> DEFINE t == SubSeq(s, 1, Len(s) - 1)
<1>3. t \in Seq(Buffers)
  BY <1>1, <1>2, SubSeqProperties
<1>4. Len(t) = IF 1 <= Len(s) - 1 THEN Len(s) - 1 - 1 + 1 ELSE 0
  BY <1>1, <1>2, SubSeqProperties
<1>5. \A k \in 1..(Len(s) - 1 - 1 + 1) : t[k] = s[1 + k - 1]
  BY <1>1, <1>2, SubSeqProperties
<1> HIDE DEF t
<1>6. ASSUME s # <<>> PROVE Len(t) = Len(s) - 1
  <2>1. Len(s) \in Nat \ {0}
    BY <1>2, <1>6
  <2>2. ASSUME NEW m \in Nat \ {0}
        PROVE  (IF 1 <= m - 1 THEN m - 1 - 1 + 1 ELSE 0) = m - 1
    OBVIOUS
  <2>3. QED
    BY <1>4, <2>1, <2>2
<1>7. ASSUME NEW k \in 1..(Len(s) - 1) PROVE t[k] = s[k]
  <2>1. k \in 1..(Len(s) - 1 - 1 + 1) /\ 1 + k - 1 = k
    BY <1>2
  <2>2. QED
    BY <2>1, <1>5
<1>8. QED
  BY <1>3, <1>6, <1>7 DEF t

\* Every variable keeps its type, whatever callers and kernel do.
THEOREM PoolTypeCorrect == Spec => []TypeOK
<1>1. Init => TypeOK
  BY BuffersAssumption DEF Init, TypeOK, Pointers
<1>2. TypeOK /\ [Next]_vars => TypeOK'
  <2> SUFFICES ASSUME TypeOK, [Next]_vars PROVE TypeOK'
    OBVIOUS
  <2> USE DEF TypeOK, Pointers
  <2>1. CASE AllocFails
    <3>1. owners' \in [Buffers -> Nat]
      BY <2>1 DEF AllocFails, StackIsEmpty, Born
    <3>2. fate' \in {"running", "wild"}
      BY <2>1 DEF AllocFails, StackIsEmpty
    <3>3. UNCHANGED <<faults, free_buffers, next, canary, life, stack, stray>>
      BY <2>1 DEF AllocFails, StackIsEmpty
    <3>4. QED
      BY <3>1, <3>2, <3>3
  <2>2. CASE AllocPop
    <3>1. SubSeq(stack, 1, Len(stack) - 1) \in Seq(Buffers)
      BY PopProperties
    <3>2. stack' \in Seq(Buffers) /\ next' = next /\ faults' = faults /\ stray' = stray
      BY <2>2, <3>1 DEF AllocPop, CanaryIntact, CanaryTaken
    <3>3. free_buffers' \in Pointers /\ fate' \in {"running", "aborted"}
      BY <2>2 DEF AllocPop, CanaryIntact, CanaryTaken
    <3>4. canary' \in [Buffers -> {"CANARY", "zero", "data"}]
      BY <2>2 DEF AllocPop, CanaryIntact, CanaryTaken
    <3>5. owners' \in [Buffers -> Nat]
      <4>1. owners' \in {owners, [owners EXCEPT ![free_buffers] = @ + 1]}
        BY <2>2 DEF AllocPop, CanaryIntact, CanaryTaken
      <4>2. QED
        BY <4>1
    <3>6. life' \in [Buffers -> {"unborn", "used", "freed", "soiled"}]
      BY <2>2 DEF AllocPop, CanaryIntact, CanaryTaken
    <3>7. QED
      BY <3>2, <3>3, <3>4, <3>5, <3>6
  <2>3. CASE AllocWild
    BY <2>3 DEF AllocWild
  <2>4. ASSUME NEW b \in Buffers, BufferNext(b) PROVE TypeOK'
    <3>1. CASE AllocFresh(b)
      BY <3>1 DEF AllocFresh, StackIsEmpty
    <3>2. CASE Free(b)
      BY <3>2 DEF Free, Push, WithCanary, WithLink
    <3>3. CASE FreeAgain(b)
      BY <3>3 DEF FreeAgain, Push, WithCanary, WithLink
    <3>4. CASE Fill(b)
      BY <3>4 DEF Fill, Soil, Born
    <3>5. CASE LateWrite(b)
      BY <3>5 DEF LateWrite, Soil, Born
    <3>6. QED
      BY <2>4, <3>1, <3>2, <3>3, <3>4, <3>5 DEF BufferNext
  <2>5. CASE Ended \/ UNCHANGED vars
    BY <2>5 DEF Ended, vars
  <2>6. QED
    BY <2>1, <2>2, <2>3, <2>4, <2>5 DEF Next
<1>3. QED
  BY <1>1, <1>2, PTL DEF Spec

\* The faults of a run are given at its start.
LEMMA FaultsAreConstant ==
    ASSUME [Next]_vars
    PROVE  faults' = faults
BY DEF Next, BufferNext, AllocFails, StackIsEmpty, AllocPop, CanaryIntact, CanaryTaken, AllocWild, AllocFresh, Free, FreeAgain,
       Fill, LateWrite, Ended, vars

\* Why a buffer has one owner at most: handing it out takes the canary away,
\* without which it is not handed out again; only a free through a stale pointer
\* sets the canary of a buffer that somebody has.
CanaryMeansFree ==
    "no_memory" \notin faults =>
        \A b \in Buffers \ stray :
            /\ canary[b] = "CANARY" => owners[b] = 0 /\ life[b] # "unborn"
            /\ life[b] = "unborn" => owners[b] = 0

StrayNeedsFault == "stale_free" \notin faults => stray = {}

\* The same, for the proofs below.
LEMMA OwnershipInvariant == Spec => [](ExclusiveOwnership /\ CanaryMeansFree /\ StrayNeedsFault)
<1> DEFINE Inv == ExclusiveOwnership /\ CanaryMeansFree /\ StrayNeedsFault
<1> USE DEF ExclusiveOwnership, CanaryMeansFree, StrayNeedsFault
<1>1. Init => Inv
  BY DEF Init
<1>2. TypeOK /\ Inv /\ [Next]_vars => Inv'
  <2> SUFFICES ASSUME TypeOK, Inv, [Next]_vars PROVE Inv'
    OBVIOUS
  <2>0. faults' = faults
    BY FaultsAreConstant
  <2>1. CASE AllocFails
    BY <2>0, <2>1 DEF AllocFails, StackIsEmpty
  <2>2. CASE AllocPop
    <3>1. CASE canary[free_buffers] = "CANARY"
      <4>1. /\ canary' = [canary EXCEPT ![free_buffers] = "zero"]
            /\ owners' = [owners EXCEPT ![free_buffers] = @ + 1]
            /\ life' = [life EXCEPT ![free_buffers] = "used"]
        BY <2>2, <3>1 DEF AllocPop, CanaryIntact, CanaryTaken
      <4>2. stray' = stray /\ free_buffers \in Buffers
        BY <2>2 DEF AllocPop
      <4>3. "no_memory" \notin faults /\ free_buffers \notin stray =>
                owners[free_buffers] = 0 /\ life[free_buffers] # "unborn"
        BY <3>1, <4>2
      <4>4. QED
        BY <2>0, <4>1, <4>2, <4>3 DEF TypeOK
    <3>2. CASE canary[free_buffers] # "CANARY"
      BY <2>0, <2>2, <3>2 DEF AllocPop, CanaryIntact, CanaryTaken
    <3>3. QED
      BY <3>1, <3>2
  <2>3. CASE AllocWild
    BY <2>0, <2>3 DEF AllocWild
  <2>4. ASSUME NEW b \in Buffers, BufferNext(b) PROVE Inv'
    <3>1. CASE AllocFresh(b)
      BY <2>0, <3>1 DEF AllocFresh, StackIsEmpty, TypeOK
    <3>2. CASE Free(b)
      BY <2>0, <3>2 DEF Free, Push, WithCanary, WithLink, TypeOK
    <3>3. CASE FreeAgain(b)
      BY <2>0, <3>3 DEF FreeAgain, Push, WithCanary, WithLink, Born, Owned, TypeOK
    <3>4. CASE Fill(b)
      BY <2>0, <3>4 DEF Fill, Soil, TypeOK
    <3>5. CASE LateWrite(b)
      BY <2>0, <3>5 DEF LateWrite, Soil, TypeOK
    <3>6. QED
      BY <2>4, <3>1, <3>2, <3>3, <3>4, <3>5 DEF BufferNext
  <2>5. CASE Ended \/ UNCHANGED vars
    BY <2>5 DEF Ended, vars
  <2>6. QED
    BY <2>1, <2>2, <2>3, <2>4, <2>5 DEF Next
<1>3. QED
  BY <1>1, <1>2, PoolTypeCorrect, PTL DEF Spec

\* While memory lasts a second owner means a free through a stale pointer: double
\* frees of free buffers and writes of the kernel into the list never lead to one.
THEOREM OwnershipIsExclusive == Spec => []ExclusiveOwnership
BY OwnershipInvariant, PTL

-----------------------------------------------------------------------------
(* Callers that behave *)

\* alloc_buffer() keeps the list linked: with an empty stack it leaves it alone,
\* else it removes the top.
LEMMA AllocKeepsLinked ==
    ASSUME TypeOK, ListIsStack,
           AllocPop \/ \E b \in Buffers : AllocFresh(b)
    PROVE  ListIsStack' /\ fate' = "running"
<1> DEFINE n == Len(stack)
<1>1. n \in Nat /\ \A k \in 1..n : stack[k] \in Buffers
  BY DEF TypeOK
<1>2. ASSUME NEW b \in Buffers, AllocFresh(b) PROVE ListIsStack' /\ fate' = "running"
  <2>1. n = 0
    BY <1>1, <1>2, BuffersAssumption DEF AllocFresh, StackIsEmpty, ListIsStack
  <2>2. Born' = Born \union {b}
    BY <1>2 DEF AllocFresh, StackIsEmpty, Born, TypeOK
  <2>3. \A c \in Born' : owners'[c] # 0
    BY <1>2, <2>1, <2>2 DEF AllocFresh, StackIsEmpty, ListIsStack, Born, TypeOK
  <2>4. QED
    BY <1>2, <2>1, <2>3 DEF AllocFresh, StackIsEmpty, ListIsStack
<1>3. CASE AllocPop
  <2> DEFINE top == free_buffers
  <2>1. n > 0 /\ top = stack[n]
    BY <1>1, <1>3, BuffersAssumption DEF AllocPop, CanaryIntact, CanaryTaken, ListIsStack
  <2>2. canary[top] = "CANARY" /\ owners[top] = 0
    BY <1>1, <2>1 DEF ListIsStack
  <2>3. /\ free_buffers' = next[top]
        /\ canary' = [canary EXCEPT ![top] = "zero"]
        /\ owners' = [owners EXCEPT ![top] = @ + 1]
        /\ life' = [life EXCEPT ![top] = "used"]
        /\ stack' = SubSeq(stack, 1, Len(stack) - 1)
        /\ fate' = fate
        /\ next' = next
    BY <1>3, <2>2 DEF AllocPop, CanaryIntact, CanaryTaken
  <2>4. stack # <<>> /\ stack \in Seq(Buffers)
    BY <1>1, <2>1 DEF TypeOK
  <2>5. Len(stack') = n - 1 /\ \A k \in 1..(n - 1) : stack'[k] = stack[k]
    BY <2>3, <2>4, PopProperties
  <2>6. \A k \in 1..(n - 1) : stack[k] # top
    BY <1>1, <2>1 DEF ListIsStack
  <2>7. free_buffers' = IF n - 1 = 0 THEN NULL ELSE stack'[n - 1]
    BY <1>1, <2>1, <2>3, <2>5 DEF ListIsStack
  <2>8. \A k \in 1..(n - 1) : /\ next'[stack'[k]] = IF k = 1 THEN NULL ELSE stack'[k - 1]
                              /\ canary'[stack'[k]] = "CANARY"
                              /\ owners'[stack'[k]] = 0
    BY <1>1, <2>1, <2>3, <2>5, <2>6 DEF ListIsStack, TypeOK
  <2>9. \A j, k \in 1..(n - 1) : j # k => stack'[j] # stack'[k]
    BY <1>1, <2>1, <2>5 DEF ListIsStack
  <2>10. \A c \in Born' : owners'[c] = 0 => \E k \in 1..(n - 1) : stack'[k] = c
    <3>1. SUFFICES ASSUME NEW c \in Born', owners'[c] = 0
                   PROVE  \E k \in 1..(n - 1) : stack'[k] = c
      OBVIOUS
    <3>2. c # top /\ c \in Born /\ owners[c] = 0
      BY <1>3, <2>3, <3>1 DEF AllocPop, CanaryIntact, CanaryTaken, Born, TypeOK
    <3>3. PICK k \in 1..n : stack[k] = c
      BY <3>2 DEF ListIsStack
    <3>4. QED
      BY <1>1, <2>1, <2>5, <3>2, <3>3
  <2>11. QED
    BY <1>3, <2>3, <2>5, <2>7, <2>8, <2>9, <2>10 DEF ListIsStack, AllocPop, CanaryIntact, CanaryTaken
<1>4. QED
  BY <1>2, <1>3

\* free_buffer() keeps the list linked, if its caller owns the buffer.
LEMMA FreeKeepsLinked ==
    ASSUME WellBehaved, TypeOK, ListIsStack, ExclusiveOwnership, StrayNeedsFault,
           NEW b \in Buffers, Free(b)
    PROVE  ListIsStack'
<1> DEFINE n == Len(stack)
<1>1. n \in Nat /\ \A k \in 1..n : stack[k] \in Buffers
  BY DEF TypeOK
<1>2. /\ free_buffers' = b
      /\ canary' = [canary EXCEPT ![b] = "CANARY"]
      /\ next' = [next EXCEPT ![b] = free_buffers]
      /\ owners' = [owners EXCEPT ![b] = @ - 1]
      /\ life' = [life EXCEPT ![b] = "freed"]
      /\ stack' = Append(stack, b)
      /\ owners[b] > 0
  BY DEF Free, Push, WithCanary, WithLink
<1>3. /\ Len(stack') = n + 1
      /\ \A k \in 1..n : stack'[k] = stack[k]
      /\ stack'[n + 1] = b
  BY <1>2, AppendProperties DEF TypeOK
<1>4. owners'[b] = 0
  <2>1. stray = {} /\ "no_memory" \notin faults
    BY DEF StrayNeedsFault, WellBehaved
  <2>2. owners[b] \in Nat /\ owners[b] <= 1
    BY <2>1 DEF ExclusiveOwnership, TypeOK
  <2>3. QED
    BY <1>2, <2>2 DEF TypeOK
<1>5. \A k \in 1..n : stack[k] # b
  BY <1>1, <1>2 DEF ListIsStack
<1>6. free_buffers' = IF n + 1 = 0 THEN NULL ELSE stack'[n + 1]
  BY <1>1, <1>2, <1>3
<1>7. ASSUME NEW k \in 1..(n + 1)
      PROVE  /\ next'[stack'[k]] = IF k = 1 THEN NULL ELSE stack'[k - 1]
             /\ canary'[stack'[k]] = "CANARY"
             /\ owners'[stack'[k]] = 0
  <2>1. CASE k = n + 1
    BY <1>1, <1>2, <1>3, <1>4, <2>1 DEF ListIsStack, TypeOK
  <2>2. CASE k \in 1..n
    BY <1>1, <1>2, <1>3, <1>5, <2>2 DEF ListIsStack, TypeOK
  <2>3. QED
    BY <1>1, <2>1, <2>2
<1>8. \A j, k \in 1..(n + 1) : j # k => stack'[j] # stack'[k]
  BY <1>1, <1>3, <1>5 DEF ListIsStack
<1>9. \A c \in Born' : owners'[c] = 0 => \E k \in 1..(n + 1) : stack'[k] = c
  <2>1. SUFFICES ASSUME NEW c \in Born', owners'[c] = 0, c # b
                 PROVE  \E k \in 1..(n + 1) : stack'[k] = c
    BY <1>1, <1>3
  <2>2. c \in Born /\ owners[c] = 0
    BY <1>2, <2>1 DEF Born, TypeOK
  <2>3. PICK k \in 1..n : stack[k] = c
    BY <2>2 DEF ListIsStack
  <2>4. QED
    BY <1>1, <1>3, <2>3
<1>10. QED
  BY <1>3, <1>6, <1>7, <1>8, <1>9 DEF ListIsStack

\* An owner that fills its buffer does not reach the list.
LEMMA FillKeepsLinked ==
    ASSUME TypeOK, ListIsStack, NEW b \in Buffers, Fill(b)
    PROVE  ListIsStack'
<1> DEFINE n == Len(stack)
<1>1. \A k \in 1..n : stack[k] \in Buffers /\ stack[k] # b
  BY DEF TypeOK, Fill, ListIsStack
<1>2. /\ \A c \in Buffers : c # b => next'[c] = next[c] /\ canary'[c] = canary[c]
      /\ UNCHANGED <<free_buffers, owners, stack>>
  BY DEF Fill, TypeOK
<1>3. Born' = Born
  BY DEF Fill, Soil, Born, TypeOK
<1>4. QED
  BY <1>1, <1>2, <1>3 DEF ListIsStack

\* The steps a well-behaved program can take.
LEMMA WellBehavedSteps ==
    ASSUME WellBehaved, TypeOK, ListIsStack, fate = "running", [Next]_vars
    PROVE  \/ AllocPop
           \/ \E b \in Buffers : AllocFresh(b) \/ Free(b) \/ Fill(b)
           \/ UNCHANGED vars
<1>1. free_buffers # Garbage
  BY BuffersAssumption DEF ListIsStack, TypeOK
<1>2. QED
  BY <1>1 DEF WellBehaved, Next, BufferNext, AllocFails, StackIsEmpty, AllocWild, FreeAgain,
              LateWrite, Ended

\* One step keeps list and stack in agreement and never trips the canary.
LEMMA LinkedStep ==
    ASSUME TypeOK, Linked, NoFalseAlarm, ExclusiveOwnership, StrayNeedsFault, [Next]_vars
    PROVE  Linked' /\ NoFalseAlarm'
<1> SUFFICES ASSUME WellBehaved PROVE ListIsStack' /\ fate' = "running"
  BY FaultsAreConstant DEF Linked, NoFalseAlarm, WellBehaved
<1> USE DEF Linked, NoFalseAlarm
<1>1. CASE AllocPop \/ \E b \in Buffers : AllocFresh(b)
  BY <1>1, AllocKeepsLinked
<1>2. ASSUME NEW b \in Buffers, Free(b) PROVE ListIsStack' /\ fate' = "running"
  BY <1>2, FreeKeepsLinked DEF Free
<1>3. ASSUME NEW b \in Buffers, Fill(b) PROVE ListIsStack' /\ fate' = "running"
  BY <1>3, FillKeepsLinked DEF Fill
<1>4. CASE UNCHANGED vars
  BY <1>4 DEF vars, ListIsStack, Born
<1>5. QED
  BY <1>1, <1>2, <1>3, <1>4, WellBehavedSteps

\* List and stack agree and the canary is quiet, together.
LEMMA ListInvariant == Spec => [](Linked /\ NoFalseAlarm)
<1>1. Init => Linked /\ NoFalseAlarm
  BY DEF Init, Linked, ListIsStack, NoFalseAlarm, Born
<1>2. TypeOK /\ ExclusiveOwnership /\ StrayNeedsFault /\ (Linked /\ NoFalseAlarm) /\ [Next]_vars
        => (Linked /\ NoFalseAlarm)'
  BY LinkedStep
<1>3. QED
  BY <1>1, <1>2, OwnershipInvariant, PoolTypeCorrect, PTL DEF Spec

\* For callers that behave the list in the buffers' memory is the stack of free
\* buffers: none is lost, listed twice, or listed while it has an owner.
THEOREM ListIsTheStack == Spec => []Linked
BY ListInvariant, PTL

\* For callers that behave the assertion in alloc_buffer() never fails.
THEOREM CanaryIsQuiet == Spec => []NoFalseAlarm
BY ListInvariant, PTL

\* For callers that behave the pool is a last-in-first-out stack of exclusive
\* buffers which takes new memory only when no used buffer is left.
THEOREM PoolImplementsFreeStack == Spec => ImplementsFreeStack
<1> USE DEF Pool!vars
<1>1. Init => Pool!Init
  BY DEF Init, Pool!Init, Owned
<1>2. ASSUME TypeOK, Linked, NoFalseAlarm, ExclusiveOwnership, StrayNeedsFault, [Next]_vars
      PROVE  [Pool!Next]_(Pool!vars)
  <2>1. WellBehaved' = WellBehaved
    BY <1>2, FaultsAreConstant DEF WellBehaved
  <2>2. CASE ~WellBehaved
    BY <2>1, <2>2
  <2> SUFFICES ASSUME WellBehaved PROVE [Pool!Next]_(Pool!vars)
    BY <2>2
  <2>3. ListIsStack /\ fate = "running" /\ WellBehaved'
    BY <1>2, <2>1 DEF Linked, NoFalseAlarm
  <2>4. CASE AllocPop
    <3>1. Len(stack) > 0 /\ free_buffers = stack[Len(stack)] /\ stack # <<>>
      BY <1>2, <2>3, <2>4, BuffersAssumption DEF AllocPop, CanaryIntact, CanaryTaken, ListIsStack, TypeOK
    <3>2. canary[free_buffers] = "CANARY"
      BY <1>2, <2>3, <3>1 DEF ListIsStack, TypeOK
    <3>3. /\ owners' = [owners EXCEPT ![free_buffers] = @ + 1]
          /\ stack' = SubSeq(stack, 1, Len(stack) - 1)
      BY <2>4, <3>2 DEF AllocPop, CanaryIntact, CanaryTaken
    <3>4. Owned' = Owned \union {free_buffers}
      BY <1>2, <2>4, <3>3 DEF Owned, TypeOK, AllocPop, CanaryIntact, CanaryTaken
    <3>5. QED
      BY <2>3, <3>1, <3>3, <3>4 DEF Pool!Next, Pool!AllocUsed
  <2>5. ASSUME NEW b \in Buffers, AllocFresh(b) PROVE [Pool!Next]_(Pool!vars)
    <3>1. stack = <<>>
      BY <1>2, <2>3, <2>5, BuffersAssumption DEF AllocFresh, StackIsEmpty, ListIsStack, TypeOK
    <3>2. Owned' = Owned \union {b} /\ stack' = stack
      BY <1>2, <2>5 DEF AllocFresh, StackIsEmpty, Owned, TypeOK
    <3>3. CASE b \in Owned
      BY <2>3, <3>2, <3>3
    <3>4. CASE b \notin Owned
      BY <2>3, <3>1, <3>2, <3>4 DEF Pool!Next, Pool!AllocNew
    <3>5. QED
      BY <3>3, <3>4
  <2>6. ASSUME NEW b \in Buffers, Free(b) PROVE [Pool!Next]_(Pool!vars)
    <3>1. owners[b] = 1
      BY <1>2, <2>6 DEF Free, TypeOK, ExclusiveOwnership, StrayNeedsFault, WellBehaved
    <3>2. b \in Owned /\ Owned' = Owned \ {b}
      BY <1>2, <2>6, <3>1 DEF Free, Owned, TypeOK
    <3>3. Pool!GiveBack(b)
      BY <2>3, <2>6, <3>2 DEF Pool!GiveBack, Free, Push, WithCanary, WithLink
    <3>4. QED
      BY <3>3 DEF Pool!Next
  <2>7. ASSUME NEW b \in Buffers, Fill(b) PROVE [Pool!Next]_(Pool!vars)
    BY <2>3, <2>7 DEF Fill, Owned
  <2>8. CASE UNCHANGED vars
    BY <2>3, <2>8 DEF vars, Owned
  <2>9. QED
    BY <1>2, <2>3, <2>4, <2>5, <2>6, <2>7, <2>8, WellBehavedSteps
<1>3. QED
  BY <1>1, <1>2, PoolTypeCorrect, ListInvariant, OwnershipInvariant, PTL
     DEF Spec, ImplementsFreeStack, Pool!Spec

-----------------------------------------------------------------------------
(* The canary *)

\* A late write that reaches the canary is always noticed, also after double
\* frees: a buffer overwritten while it was free is never handed out.  (Where
\* memory runs out this is model-checked only.)
THEOREM CanaryDetectsOverwrites ==
    ASSUME \A f \in FaultSets : "no_memory" \notin f
    PROVE  Spec => OverwritesAreNoticed
<1> DEFINE Inv == /\ "no_memory" \notin faults
                  /\ "overwrite_link" \notin faults =>
                        \A b \in Buffers : life[b] = "soiled" => canary[b] # "CANARY"
<1>1. Init => Inv
  BY DEF Init
<1>2. TypeOK /\ Inv /\ [Next]_vars => Inv'
  <2> SUFFICES ASSUME TypeOK, Inv, [Next]_vars, "overwrite_link" \notin faults,
                      NEW c \in Buffers, life'[c] = "soiled"
               PROVE  canary'[c] # "CANARY"
    BY FaultsAreConstant
  <2>1. CASE AllocFails
    BY <2>1 DEF AllocFails, StackIsEmpty
  <2>2. CASE AllocPop
    BY <2>2 DEF AllocPop, CanaryIntact, CanaryTaken, TypeOK
  <2>3. CASE AllocWild
    BY <2>3 DEF AllocWild
  <2>4. ASSUME NEW b \in Buffers, BufferNext(b) PROVE canary'[c] # "CANARY"
    <3>1. CASE AllocFresh(b)
      BY <3>1 DEF AllocFresh, StackIsEmpty, TypeOK
    <3>2. CASE Free(b)
      BY <3>2 DEF Free, Push, WithCanary, WithLink, TypeOK
    <3>3. CASE FreeAgain(b)
      BY <3>3 DEF FreeAgain, Push, WithCanary, WithLink, TypeOK
    <3>4. CASE Fill(b)
      BY <3>4 DEF Fill, Soil, TypeOK
    <3>5. CASE LateWrite(b)
      BY <3>5 DEF LateWrite, Soil, TypeOK
    <3>6. QED
      BY <2>4, <3>1, <3>2, <3>3, <3>4, <3>5 DEF BufferNext
  <2>5. CASE Ended \/ UNCHANGED vars
    BY <2>5 DEF Ended, vars
  <2>6. QED
    BY <2>1, <2>2, <2>3, <2>4, <2>5 DEF Next
<1>3. TypeOK /\ Inv /\ [Next]_vars =>
        [ReusesOverwritten => "overwrite_link" \in faults]_vars
  <2> SUFFICES ASSUME TypeOK, Inv, Next, "overwrite_link" \notin faults,
                      NEW c \in Buffers, HandedOut(c)
               PROVE  life[c] # "soiled"
    BY DEF ReusesOverwritten
  <2> USE DEF HandedOut
  <2>1. CASE AllocPop
    <3>1. canary[free_buffers] = "CANARY" /\ owners' = [owners EXCEPT ![free_buffers] = @ + 1]
      BY <2>1 DEF AllocPop, CanaryIntact, CanaryTaken, TypeOK
    <3>2. c = free_buffers
      BY <3>1 DEF TypeOK
    <3>3. QED
      BY <3>1, <3>2
  <2>2. ASSUME NEW b \in Buffers, BufferNext(b) PROVE life[c] # "soiled"
    BY <2>2 DEF BufferNext, AllocFresh, StackIsEmpty, Free, FreeAgain, Fill, LateWrite, TypeOK
  <2>3. CASE AllocFails \/ AllocWild \/ Ended
    BY <2>3 DEF AllocFails, StackIsEmpty, AllocWild, Ended, vars, TypeOK
  <2>4. QED
    BY <2>1, <2>2, <2>3 DEF Next
<1>4. QED
  BY <1>1, <1>2, <1>3, PoolTypeCorrect, PTL DEF Spec, OverwritesAreNoticed
=============================================================================
