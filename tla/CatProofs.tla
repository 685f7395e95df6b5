----------------------------- MODULE CatProofs -----------------------------
(***************************************************************************)
(* Proofs about Cat, for every number and size of files and every size of  *)
(* the buffer: the output is in order, and complete if nothing was said.   *)
(***************************************************************************)
EXTENDS Cat, SequenceTheorems, TLAPS

USE CatAssumption

Saying == {"Failed to open file", "Failed to close file", "Read failed!",
           "Failed to write bytes", "Failed to write all read bytes"}

\* The file that is being copied, and the bytes of it that are in the buffer.
Position ==
    /\ pc \in {"read", "write", "close"} => idx <= Len(args) /\ pos <= Len(args[idx].data)
    /\ pc = "write" => /\ Len(buf) <= pos
                       /\ \A m \in 1..Len(buf) : buf[m] = args[idx].data[pos - Len(buf) + m]
    /\ pc = "close" => pos = Len(args[idx].data)

\* What the type invariant says about numbers.
LEMMA Numbers ==
    ASSUME TypeOK
    PROVE  /\ Len(args) \in Nat /\ idx \in 1..(Len(args) + 1)
           /\ Len(buf) \in Nat /\ Len(buf) <= BufSize /\ Len(out) \in Nat
           /\ pos \in Nat /\ fd \in -1..3 /\ BufSize \in Nat \ {0}
<1>1. Len(args) \in Nat /\ Len(buf) \in Nat /\ Len(out) \in Nat
  BY LenProperties DEF TypeOK
<1> QED BY <1>1 DEF TypeOK

LEMMA DataIsSeq ==
    ASSUME TypeOK, NEW a \in 1..Len(args)
    PROVE  args[a].data \in Seq(Bytes) /\ Len(args[a].data) \in Nat
<1>1. args[a] \in Files
  BY ElementOfSeq DEF TypeOK
<1>2. args[a] \in File
  BY <1>1
<1> QED BY <1>2 DEF File

LEMMA LowestFreeType ==
    ASSUME open \subseteq 0..3, NEW o \in 0..3, o \notin open
    PROVE  LowestFree \in (0..3) \ open
<1>1. \E d \in (0..3) \ open : \A e \in (0..3) \ open : d <= e
  <2>1. (0 \in (0..3) \ open) \/ (1 \in (0..3) \ open) \/ (2 \in (0..3) \ open) \/ (3 \in (0..3) \ open)
    OBVIOUS
  <2> DEFINE S == (0..3) \ open
  <2>2. CASE 0 \in S
    BY <2>2
  <2>3. CASE 0 \notin S /\ 1 \in S
    BY <2>3
  <2>4. CASE 0 \notin S /\ 1 \notin S /\ 2 \in S
    BY <2>4
  <2>5. CASE 0 \notin S /\ 1 \notin S /\ 2 \notin S /\ 3 \in S
    BY <2>5
  <2> QED BY <2>1, <2>2, <2>3, <2>4, <2>5
<1> QED BY <1>1 DEF LowestFree

-----------------------------------------------------------------------------
(* Types *)

\* Descriptor 3 is the highest that is ever used: it is free between two files.
Spare == 3 \in open => fd = 3 /\ pc \in {"read", "write", "close"}

Typed == TypeOK /\ Spare /\ Position

LEMMA TypedInit == Init => Typed
<1> SUFFICES ASSUME Init PROVE Typed
  OBVIOUS
<1>1. args \in Seq(Files)
  <2>1. PICK len \in 0..MaxArgs : args \in [1..len -> Files]
    BY DEF Init
  <2> QED BY <2>1
<1>2. open \subseteq 0..3 /\ 3 \notin open
  BY DEF Init
<1> QED BY <1>1, <1>2 DEF Init, Typed, TypeOK, Spare, Position

LEMMA ReadBytesTyped ==
    ASSUME Typed, NEW n \in 1..BufSize, ReadBytes(n)
    PROVE  Typed'
<1> USE DEF Typed
<1> DEFINE data == args[idx].data
<1>1. idx \in 1..Len(args) /\ pos \in Nat /\ n \in Nat /\ n <= Len(data) - pos /\ pc = "read"
  <2>1. pc = "read" /\ n <= Len(data) - pos
    BY DEF ReadBytes, Remaining
  <2>2. idx <= Len(args)
    BY <2>1 DEF Position
  <2> QED BY <2>1, <2>2, Numbers
<1>2. data \in Seq(Bytes) /\ Len(data) \in Nat
  BY <1>1, DataIsSeq
<1> HIDE DEF data
<1>3. Chunk(n) = SubSeq(data, pos + 1, pos + n)
  BY DEF Chunk, data
<1>4. /\ Chunk(n) \in Seq(Bytes)
      /\ Len(Chunk(n)) = n
      /\ \A m \in 1..n : Chunk(n)[m] = data[pos + m]
  BY <1>1, <1>2, <1>3, SubSeqProperties
<1>5. /\ buf' = Chunk(n) /\ pos' = pos + n /\ pc' = "write"
      /\ UNCHANGED <<args, idx, open, fd, out, said, failures>>
  BY DEF ReadBytes
<1>6. TypeOK'
  <2>1. args' \in Seq(Files) /\ out' \in Seq(Bytes) /\ open' \subseteq 0..3
    BY <1>5 DEF TypeOK
  <2>2. buf' \in Seq(Bytes) /\ Len(buf') <= BufSize
    BY <1>4, <1>5, Numbers
  <2>3. idx' \in 1..(Len(args') + 1) /\ fd' \in -1..3 /\ pos' \in Nat
    BY <1>1, <1>5, Numbers
  <2>4. said' \subseteq Saying
    BY <1>5 DEF TypeOK, Saying
  <2> QED BY <1>5, <2>1, <2>2, <2>3, <2>4 DEF TypeOK, Saying
<1>7. Spare'
  BY <1>1, <1>5 DEF Spare
<1>8. Position'
  BY <1>1, <1>2, <1>4, <1>5 DEF Position, data
<1> QED BY <1>6, <1>7, <1>8

LEMMA TypedStep == Typed /\ [Next]_vars => Typed'
<1> SUFFICES ASSUME Typed, [Next]_vars PROVE Typed'
  OBVIOUS
<1> USE DEF Typed
<1>0. buf \in Seq(Bytes) /\ out \in Seq(Bytes)
  BY DEF TypeOK
<1>1. CASE OpenSucceeds
  <2>0. pc = "open" /\ idx <= Len(args)
    BY <1>1 DEF OpenSucceeds
  <2>1. LowestFree \in (0..3) \ open
    <3>1. 3 \notin open
      BY <2>0 DEF Spare
    <3>2. open \subseteq 0..3
      BY DEF TypeOK
    <3> QED BY <3>1, <3>2, LowestFreeType
  <2>2. /\ fd' = LowestFree /\ open' = open \union {LowestFree} /\ pos' = 0
        /\ args' = args /\ buf' = buf /\ out' = out
        /\ (idx' = idx /\ pc' = "read") \/ (idx' = idx + 1 /\ pc' = "open")
    <3> HIDE DEF LowestFree
    <3>1. CASE fd' > 0
      BY <1>1, <3>1 DEF OpenSucceeds
    <3>2. CASE ~(fd' > 0)
      BY <1>1, <3>2 DEF OpenSucceeds
    <3> QED BY <3>1, <3>2
  <2>3. (fd' = 3 => pc' = "read") /\ said' \subseteq said \union {"Failed to open file"}
    <3>1. 3 > 0
      OBVIOUS
    <3>2. CASE fd' > 0
      BY <1>1, <3>2 DEF OpenSucceeds
    <3>3. CASE ~(fd' > 0)
      BY <1>1, <3>1, <3>3 DEF OpenSucceeds
    <3> QED BY <3>2, <3>3
  <2>4. idx \in 1..Len(args) /\ Len(args) \in Nat
    BY <2>0, Numbers
  <2>5. Len(args[idx].data) \in Nat
    BY <2>4, DataIsSeq
  <2> HIDE DEF LowestFree
  <2>6. TypeOK'
    <3>1. args' \in Seq(Files) /\ out' \in Seq(Bytes) /\ buf' \in Seq(Bytes) /\ Len(buf') <= BufSize
      BY <2>2 DEF TypeOK
    <3>2. open' \subseteq 0..3 /\ fd' \in -1..3
      <4>1. open \subseteq 0..3
        BY DEF TypeOK
      <4>2. open' = open \union {LowestFree} /\ fd' = LowestFree
        BY <2>2
      <4> QED BY <2>1, <4>1, <4>2
    <3>3. idx' \in 1..(Len(args') + 1) /\ pos' \in Nat
      <4>1. (idx' = idx \/ idx' = idx + 1) /\ pos' = 0 /\ args' = args
        BY <2>2
      <4> QED BY <2>4, <4>1
    <3>4. said' \subseteq Saying /\ pc' \in {"open", "read", "write", "close", "exited"}
      BY <2>2, <2>3 DEF TypeOK, Saying
    <3>5. failures' \in 0..1
      BY <1>1 DEF OpenSucceeds, TypeOK
    <3> QED BY <3>1, <3>2, <3>3, <3>4, <3>5 DEF TypeOK, Saying
  <2>7. Spare'
    BY <2>0, <2>1, <2>2, <2>3 DEF Spare
  <2>8. Position'
    <3>1. pos' = 0 /\ args' = args
      BY <2>2
    <3>2. CASE pc' = "read" /\ idx' = idx
      BY <2>4, <2>5, <3>1, <3>2 DEF Position
    <3>3. CASE pc' = "open"
      BY <3>3 DEF Position
    <3> QED BY <2>2, <3>2, <3>3
  <2> QED BY <2>6, <2>7, <2>8
<1>2. CASE OpenFails
  <2>1. pc = "open" /\ pc' = "open" /\ idx <= Len(args) /\ idx' = idx + 1 /\ args' = args
    BY <1>2 DEF OpenFails
  <2>2. fd' = -1 /\ open' = open /\ pos' = pos /\ buf' = buf /\ out' = out
    BY <1>2 DEF OpenFails
  <2>3. said' = said \union {"Failed to open file"}
    BY <1>2 DEF OpenFails
  <2>4. idx' \in 1..(Len(args') + 1)
    BY <2>1, Numbers
  <2>5. said' \subseteq Saying
    BY <2>3 DEF TypeOK, Saying
  <2>6. args' \in Seq(Files) /\ out' \in Seq(Bytes) /\ buf' \in Seq(Bytes) /\ Len(buf') <= BufSize
        /\ open' \subseteq 0..3 /\ pos' \in Nat
    <3>1. args' = args /\ out' = out /\ buf' = buf /\ open' = open /\ pos' = pos
      BY <2>1, <2>2
    <3> QED BY <3>1 DEF TypeOK
  <2>7. TypeOK'
    <3>1. fd' \in -1..3 /\ pc' \in {"open", "read", "write", "close", "exited"}
      BY <2>1, <2>2
    <3>2. failures' \in 0..1
      BY <1>2 DEF OpenFails, TypeOK
    <3> QED BY <2>4, <2>5, <2>6, <3>1, <3>2 DEF TypeOK, Saying
  <2> QED BY <2>1, <2>2, <2>7 DEF Spare, Position
<1>3. CASE Close
  <2>1. pc = "close" /\ pc' = "open" /\ idx' = idx + 1 /\ args' = args
    BY <1>3 DEF Close
  <2>2. open' = open \ {fd} /\ fd' = fd /\ pos' = pos /\ buf' = buf /\ out' = out
    BY <1>3 DEF Close
  <2>3. said' \subseteq said \union {"Failed to close file"}
    BY <1>3 DEF Close
  <2>4. idx' \in 1..(Len(args') + 1)
    BY <2>1, Numbers DEF Position
  <2>5. said' \subseteq Saying
    BY <2>3 DEF TypeOK, Saying
  <2>6. open' \subseteq 0..3
    BY <2>2 DEF TypeOK
  <2>7. TypeOK'
    <3>1. failures' \in 0..1
      BY <1>3 DEF Close, TypeOK
    <3> QED BY <2>1, <2>2, <2>4, <2>5, <2>6, <3>1 DEF TypeOK, Saying
  <2> QED BY <2>1, <2>2, <2>7 DEF Spare, Position
<1>4. CASE Exit
  BY <1>4 DEF Exit, TypeOK, Spare, Position
<1>5. CASE ReadEnd
  <2>1. pc = "read" /\ Len(args[idx].data) - pos = 0
    BY <1>5 DEF ReadEnd, AtEnd, Remaining
  <2>2. idx \in 1..Len(args) /\ pos \in Nat
    BY <2>1, Numbers DEF Position
  <2>3. Len(args[idx].data) \in Nat
    BY <2>2, DataIsSeq
  <2>4. pos = Len(args[idx].data)
    BY <2>1, <2>2, <2>3
  <2>5. pc' = "close" /\ UNCHANGED <<args, idx, open, fd, pos, buf, out, said, failures>>
    BY <1>5 DEF ReadEnd
  <2>6. TypeOK' /\ Spare'
    BY <2>1, <2>5 DEF TypeOK, Spare
  <2>7. Position'
    BY <2>1, <2>4, <2>5 DEF Position
  <2> QED BY <2>6, <2>7
<1>6. CASE ReadFails
  <2>1. failures \in 0..1 /\ failures' = 1 - failures
    BY <1>6 DEF ReadFails, TypeOK
  <2>2. failures' \in 0..1
    BY <2>1
  <2>3. TypeOK'
    BY <1>6, <2>2 DEF ReadFails, TypeOK
  <2>4. Spare' /\ Position'
    BY <1>6 DEF ReadFails, Spare, Position
  <2> QED BY <2>3, <2>4
<1>7. CASE WriteAll
  <2>1. out \o buf \in Seq(Bytes)
    BY <1>0
  <2> QED BY <1>7, <2>1 DEF WriteAll, TypeOK, Spare, Position
<1>8. CASE WriteFails
  BY <1>8 DEF WriteFails, FailedWrite, TypeOK, Spare, Position
<1>9. ASSUME NEW n \in 1..BufSize, ReadBytes(n) PROVE Typed'
  BY <1>9, ReadBytesTyped
<1>10. ASSUME NEW n \in 1..BufSize, WritePart(n) PROVE Typed'
  <2>1. n \in Int /\ 1 <= n /\ n <= Len(buf)
    BY <1>0, <1>10 DEF WritePart
  <2>2. SubSeq(buf, 1, n) \in Seq(Bytes)
    BY <1>0, <2>1, SubSeqProperties
  <2>3. out \o SubSeq(buf, 1, n) \in Seq(Bytes)
    BY <1>0, <2>2
  <2> QED BY <1>10, <2>3 DEF WritePart, ShortWrite, TypeOK, Spare, Position
<1>11. CASE UNCHANGED vars
  BY <1>11 DEF vars, TypeOK, Spare, Position
<1> QED
  BY <1>1, <1>2, <1>3, <1>4, <1>5, <1>6, <1>7, <1>8, <1>9, <1>10, <1>11 DEF Next, Step, Exited

LEMMA TypedInvariant == Spec => []Typed
BY TypedInit, TypedStep, PTL DEF Spec

\* The buffer never holds more than its size, no descriptor above 3 is used
\* and the loop index stays within the arguments.
THEOREM CatTypeCorrect == Spec => []TypeOK
<1>1. Typed => TypeOK
  BY DEF Typed
<1> QED BY <1>1, TypedInvariant, PTL

-----------------------------------------------------------------------------
(* The output *)

\* How much of the current file has left the buffer, and so which of the wanted
\* bytes have been passed: written or given up.
Copied == IF pc = "write" THEN pos - Len(buf) ELSE IF pc \in {"read", "close"} THEN pos ELSE 0

Passed(x) == x[1] < idx \/ (x[1] = idx /\ x[2] <= Copied)

\* The inductive invariant: the output is explained by bytes that were passed,
\* and by all of them as long as nothing was said.
Accounts(at) ==
    /\ Explains(at)
    /\ \A m \in 1..Len(out) : Passed(at[m])
    /\ said = {} => \A x \in Wanted : Passed(x) => \E m \in 1..Len(out) : at[m] = x

InOrder == \E at \in [1..Len(out) -> Wanted] : Accounts(at)

LEMMA InOrderInit == Init => InOrder
<1> SUFFICES ASSUME Init PROVE InOrder
  OBVIOUS
<1> DEFINE at == [m \in 1..Len(out) |-> <<1, 1>>]
<1>1. out = <<>> /\ Len(out) = 0 /\ idx = 1 /\ pc = "open"
  BY DEF Init
<1>2. at \in [1..Len(out) -> Wanted]
  BY <1>1
<1>3. \A x \in Wanted : ~Passed(x)
  <2>1. ASSUME NEW x \in Wanted PROVE x[1] >= 1 /\ x[2] >= 1 /\ x[1] \in Int /\ x[2] \in Int
    <3>1. PICK a \in 1..Len(args) : x \in {a} \X (1..Len(args[a].data))
      BY DEF Wanted
    <3> QED BY <3>1
  <2> QED BY <1>1, <2>1 DEF Passed, Copied
<1>4. Accounts(at)
  BY <1>1, <1>3 DEF Accounts, Explains
<1> QED BY <1>2, <1>4 DEF InOrder

\* A step that writes nothing keeps the explanation if it passes no byte, or
\* says that it does.
LEMMA NothingWritten ==
    ASSUME InOrder, out' = out, args' = args,
           \A x \in Wanted : Passed(x) => Passed(x)',
           said' = {} => said = {} /\ \A x \in Wanted : Passed(x)' => Passed(x)
    PROVE  InOrder'
<1>1. PICK at \in [1..Len(out) -> Wanted] : Accounts(at)
  BY DEF InOrder
<1>2. Wanted' = Wanted
  BY DEF Wanted
<1>3. at \in [1..Len(out') -> Wanted']
  BY <1>2
<1>4. Accounts(at)'
  <2>1. Explains(at)'
    BY <1>1 DEF Accounts, Explains, Before
  <2>2. \A m \in 1..Len(out') : Passed(at[m])'
    BY <1>1 DEF Accounts
  <2>3. said' = {} => \A x \in Wanted' : Passed(x)' => \E m \in 1..Len(out') : at[m] = x
    BY <1>1, <1>2 DEF Accounts
  <2> QED BY <2>1, <2>2, <2>3 DEF Accounts
<1> QED BY <1>3, <1>4 DEF InOrder

\* A write that accepts the first n bytes of the buffer extends the explanation
\* by the next n bytes of the file.
LEMMA SomeWritten ==
    ASSUME Typed, InOrder, pc = "write", pc' = "read", NEW n \in 0..Len(buf),
           out' = out \o SubSeq(buf, 1, n), args' = args, idx' = idx, pos' = pos,
           said' = {} => said = {} /\ n = Len(buf)
    PROVE  InOrder'
<1> DEFINE data == args[idx].data
           start == pos - Len(buf)
           len == Len(out)
<1>1. PICK at \in [1..len -> Wanted] : Accounts(at)
  BY DEF InOrder
<1>2. /\ Len(buf) \in Nat /\ len \in Nat /\ pos \in Nat /\ n \in Nat /\ n <= Len(buf)
      /\ idx \in 1..Len(args) /\ Len(buf) <= pos /\ pos <= Len(data)
      /\ \A m \in 1..Len(buf) : buf[m] = data[start + m]
  <2>1. TypeOK
    BY DEF Typed
  <2>2. Len(args) \in Nat /\ idx \in 1..(Len(args) + 1) /\ Len(buf) \in Nat /\ len \in Nat /\ pos \in Nat
    BY <2>1, Numbers
  <2>3. idx <= Len(args) /\ pos <= Len(data) /\ Len(buf) <= pos
        /\ \A m \in 1..Len(buf) : buf[m] = data[start + m]
    BY DEF Typed, Position
  <2> QED BY <2>2, <2>3
<1>3. Len(data) \in Nat
  BY <1>2, DataIsSeq DEF Typed
<1>4. /\ Len(out') = len + n
      /\ \A m \in 1..len : out'[m] = out[m]
      /\ \A m \in (len + 1)..(len + n) : out'[m] = data[start + (m - len)]
  <2>1. buf \in Seq(Bytes) /\ out \in Seq(Bytes)
    BY DEF Typed, TypeOK
  <2>2. \A m \in 1..n : buf[m] \in Bytes
    BY <1>2, <2>1, ElementOfSeq
  <2>3. /\ SubSeq(buf, 1, n) \in Seq(Bytes) /\ Len(SubSeq(buf, 1, n)) = n
        /\ \A m \in 1..n : SubSeq(buf, 1, n)[m] = buf[m]
    BY <1>2, <2>2, SubSeqProperties
  <2> DEFINE part == SubSeq(buf, 1, n)
  <2> HIDE DEF part
  <2>4. Len(out \o part) = len + n
        /\ \A m \in 1..(len + n) : (out \o part)[m] = IF m <= len THEN out[m] ELSE part[m - len]
    BY <2>1, <2>3, ConcatProperties DEF part
  <2>5. out' = out \o part
    BY DEF part
  <2> HIDE DEF data, start, len
  <2>6. \A m \in 1..n : part[m] = data[start + m]
    <3> SUFFICES ASSUME NEW m \in 1..n PROVE part[m] = data[start + m]
      OBVIOUS
    <3>1. m \in 1..Len(buf)
      BY <1>2
    <3>2. part[m] = buf[m]
      BY <2>3 DEF part
    <3> QED BY <1>2, <3>1, <3>2
  <2>7. \A m \in (len + 1)..(len + n) : m - len \in 1..n /\ m \in 1..(len + n) /\ ~(m <= len)
    BY <1>2
  <2>8. \A m \in 1..len : m \in 1..(len + n) /\ m <= len
    BY <1>2
  <2> QED BY <2>4, <2>5, <2>6, <2>7, <2>8
<1>5. Wanted' = Wanted
  BY DEF Wanted
<1>13. /\ start \in Nat /\ start + Len(buf) = pos
       /\ pc = "write" => pos - Len(buf) = start
       /\ Len(out) = len /\ args[idx].data = data
  BY <1>2
<1> HIDE DEF data, start, len
<1>6. ASSUME NEW p \in 1..Len(data) PROVE <<idx, p>> \in Wanted
  BY <1>2, <1>6 DEF Wanted, data
<1>16. PICK ext : ext = [m \in 1..(len + n) |-> IF m <= len THEN at[m] ELSE <<idx, start + (m - len)>>]
  OBVIOUS
<1> USE <1>16
<1>7. ext \in [1..(len + n) -> Wanted]
  <2> SUFFICES ASSUME NEW m \in 1..(len + n) PROVE ext[m] \in Wanted
    OBVIOUS
  <2>1. CASE m <= len
    BY <1>1, <1>2, <2>1
  <2>2. CASE ~(m <= len)
    <3>1. start + (m - len) \in 1..Len(data)
      BY <1>2, <1>3, <1>13, <2>2
    <3> QED BY <1>6, <2>2, <3>1
  <2> QED BY <2>1, <2>2
<1>8. Copied = start /\ Copied' = pos
  BY <1>13 DEF Copied
<1>14. /\ \A l, m \in 1..len : l < m => Before(at[l], at[m])
       /\ \A m \in 1..len : out[m] = args[at[m][1]].data[at[m][2]]
       /\ \A m \in 1..len : Passed(at[m])
       /\ said = {} => \A x \in Wanted : Passed(x) => \E m \in 1..len : at[m] = x
  BY <1>1 DEF Accounts, Explains, len
<1>9. Explains(ext)'
  <2>1. ASSUME NEW l \in 1..(len + n), NEW m \in 1..(len + n), l < m
        PROVE  Before(ext[l], ext[m])
    <3>1. CASE m <= len
      <4>1. l \in 1..len /\ m \in 1..len /\ l <= len
        BY <1>2, <2>1, <3>1
      <4>2. Before(at[l], at[m])
        BY <1>14, <2>1, <4>1
      <4> QED BY <3>1, <4>1, <4>2
    <3>2. CASE ~(m <= len) /\ l <= len
      <4>1. l \in 1..len
        BY <1>2, <3>2
      <4>2. Passed(at[l]) /\ ext[l] = at[l] /\ ext[m] = <<idx, start + (m - len)>>
        BY <1>14, <3>2, <4>1
      <4>3. at[l][1] < idx \/ (at[l][1] = idx /\ at[l][2] <= start)
        BY <1>8, <4>2 DEF Passed
      <4>4. at[l] \in Wanted
        BY <1>1, <4>1
      <4>5. at[l][2] \in Int
        <5>1. PICK a \in 1..Len(args) : at[l] \in {a} \X (1..Len(args[a].data))
          BY <4>4 DEF Wanted
        <5> QED BY <5>1
      <4>6. start < start + (m - len) /\ start \in Int
        BY <1>2, <1>13, <3>2
      <4>7. at[l][1] < idx \/ (at[l][1] = idx /\ at[l][2] < start + (m - len))
        BY <1>2, <4>3, <4>5, <4>6
      <4> QED BY <4>2, <4>7 DEF Before
    <3>3. CASE ~(m <= len) /\ ~(l <= len)
      <4>1. ext[l] = <<idx, start + (l - len)>> /\ ext[m] = <<idx, start + (m - len)>>
        BY <3>3
      <4>2. start + (l - len) < start + (m - len)
        BY <1>2, <1>13, <2>1
      <4> QED BY <4>1, <4>2 DEF Before
    <3> QED BY <1>2, <2>1, <3>1, <3>2, <3>3
  <2>2. ASSUME NEW m \in 1..(len + n)
        PROVE  out'[m] = args'[ext[m][1]].data[ext[m][2]]
    <3>1. CASE m <= len
      <4>1. m \in 1..len /\ ext[m] = at[m]
        BY <1>2, <3>1
      <4>2. args' = args
        OBVIOUS
      <4> QED BY <1>4, <1>14, <4>1, <4>2
    <3>2. CASE ~(m <= len)
      <4>1. m \in (len + 1)..(len + n)
        BY <1>2, <3>2
      <4>2. ext[m] = <<idx, start + (m - len)>>
        BY <3>2
      <4>3. out'[m] = data[start + (m - len)]
        BY <1>4, <4>1
      <4>4. args'[idx].data = data
        BY DEF data
      <4>5. ext[m][1] = idx /\ ext[m][2] = start + (m - len)
        BY <4>2
      <4> QED BY <4>3, <4>4, <4>5
    <3> QED BY <3>1, <3>2
  <2>3. Len(out') = len + n
    BY <1>4
  <2> QED BY <2>1, <2>2, <2>3 DEF Explains, Before
<1>10. \A m \in 1..Len(out') : Passed(ext[m])'
  <2> SUFFICES ASSUME NEW m \in 1..(len + n) PROVE Passed(ext[m])'
    BY <1>4
  <2>1. CASE m <= len
    <3>1. m \in 1..len /\ ext[m] = at[m]
      BY <1>2, <2>1
    <3>2. at[m][1] < idx \/ (at[m][1] = idx /\ at[m][2] <= start)
      BY <1>8, <1>14, <3>1 DEF Passed
    <3>3. at[m] \in Wanted
      BY <1>1, <3>1
    <3>4. at[m][2] \in Int
      <4>1. PICK a \in 1..Len(args) : at[m] \in {a} \X (1..Len(args[a].data))
        BY <3>3 DEF Wanted
      <4> QED BY <4>1
    <3>5. at[m][1] < idx \/ (at[m][1] = idx /\ at[m][2] <= pos)
      BY <1>2, <1>13, <3>2, <3>4
    <3>6. Copied' = pos /\ idx' = idx
      BY <1>8
    <3> QED BY <3>1, <3>5, <3>6 DEF Passed
  <2>2. CASE ~(m <= len)
    <3>1. ext[m] = <<idx, start + (m - len)>>
      BY <2>2
    <3>2. start + (m - len) <= pos
      BY <1>2, <1>13
    <3>3. Copied' = pos /\ idx' = idx
      BY <1>8
    <3> QED BY <3>1, <3>2, <3>3 DEF Passed
  <2> QED BY <2>1, <2>2
<1>11. ASSUME said' = {}, NEW x \in Wanted, Passed(x)'
       PROVE  \E m \in 1..(len + n) : ext[m] = x
  <2>1. said = {} /\ n = Len(buf)
    BY <1>11
  <2>2. x[1] < idx \/ (x[1] = idx /\ x[2] <= pos)
    BY <1>8, <1>11 DEF Passed
  <2>3. PICK a \in 1..Len(args) : x \in {a} \X (1..Len(args[a].data))
    BY DEF Wanted
  <2>4. x = <<x[1], x[2]>> /\ x[2] \in Int
    BY <2>3
  <2>5. CASE Passed(x)
    <3>1. PICK m \in 1..len : at[m] = x
      BY <1>14, <2>1, <2>5
    <3>2. m \in 1..(len + n) /\ ext[m] = x
      BY <1>2, <3>1
    <3> QED BY <3>2
  <2>6. CASE ~Passed(x)
    <3>1. x[1] = idx /\ start < x[2] /\ x[2] <= pos
      BY <1>2, <1>8, <1>13, <2>2, <2>4, <2>6 DEF Passed
    <3>2. PICK k \in Int : k = x[2] - start
      BY <1>13, <2>4
    <3>3. k \in 1..n /\ start + k = x[2]
      <4>1. start \in Int /\ start + n = pos
        BY <1>13, <2>1
      <4>2. x[2] \in Int /\ start < x[2] /\ x[2] <= pos /\ n \in Nat
        BY <1>2, <2>4, <3>1
      <4>3. PICK y \in Int : y = x[2]
        BY <4>2
      <4>4. start < y /\ y <= start + n /\ k = y - start
        BY <3>2, <4>1, <4>2, <4>3
      <4> HIDE <1>16
      <4> QED BY <4>1, <4>2, <4>3, <4>4
    <3>4. PICK m \in Int : m = len + k
      BY <1>2
    <3>5. m \in 1..(len + n) /\ ~(m <= len) /\ m - len = k
      BY <1>2, <3>3, <3>4
    <3>6. ext[m] = <<idx, start + k>>
      BY <3>5
    <3> QED BY <2>4, <3>1, <3>3, <3>5, <3>6
  <2> QED BY <2>5, <2>6
<1>12. Accounts(ext)'
  <2>1. Len(out') = len + n
    BY <1>4
  <2>2. said' = {} => \A x \in Wanted' : Passed(x)' => \E m \in 1..Len(out') : ext[m] = x
    BY <1>5, <1>11, <2>1
  <2> QED BY <1>9, <1>10, <2>2 DEF Accounts
<1>15. ext \in [1..Len(out') -> Wanted']
  BY <1>4, <1>5, <1>7
<1> QED BY <1>12, <1>15 DEF InOrder

LEMMA InOrderStep == Typed /\ InOrder /\ [Next]_vars => InOrder'
<1> SUFFICES ASSUME Typed, InOrder, [Next]_vars PROVE InOrder'
  OBVIOUS
<1>1. /\ Len(args) \in Nat /\ idx \in 1..(Len(args) + 1) /\ Len(buf) \in Nat /\ pos \in Nat
      /\ buf \in Seq(Bytes)
  BY Numbers DEF Typed, TypeOK
<1>2. ASSUME NEW x \in Wanted
      PROVE  /\ x[1] \in Int /\ x[1] <= Len(args)
             /\ x[2] \in Int /\ 1 <= x[2] /\ x[2] <= Len(args[x[1]].data)
  <2>1. PICK a \in 1..Len(args) : x \in {a} \X (1..Len(args[a].data))
    BY DEF Wanted
  <2>2. Len(args[a].data) \in Nat
    BY DataIsSeq DEF Typed
  <2> QED BY <1>1, <2>1, <2>2
\* What is passed after a step that leaves the current file, or passes nothing.
<1>3. ASSUME out' = out, args' = args, said' = said, idx' = idx, Copied' = Copied
      PROVE  InOrder'
  <2>1. \A x \in Wanted : Passed(x)' <=> Passed(x)
    BY <1>3 DEF Passed
  <2> QED BY <1>3, <2>1, NothingWritten
<1>4. ASSUME out' = out, args' = args, said' # {}, idx' = idx, Copied \in Int, Copied' \in Int, Copied <= Copied'
      PROVE  InOrder'
  <2>1. \A x \in Wanted : Passed(x) => Passed(x)'
    <3> SUFFICES ASSUME NEW x \in Wanted, Passed(x) PROVE Passed(x)'
      OBVIOUS
    <3>1. x[1] < idx \/ (x[1] = idx /\ x[2] <= Copied)
      BY DEF Passed
    <3>2. x[1] < idx \/ (x[1] = idx /\ x[2] <= Copied')
      BY <1>2, <1>4, <3>1
    <3> QED BY <1>4, <3>2 DEF Passed
  <2> QED BY <1>4, <2>1, NothingWritten
<1>5. ASSUME out' = out, args' = args, idx' = idx + 1, Copied' = 0,
             said' = {} => said = {} /\ Copied = Len(args[idx].data)
      PROVE  InOrder'
  <2>1. \A x \in Wanted : Passed(x)' <=> x[1] < idx + 1
    BY <1>1, <1>2, <1>5 DEF Passed
  <2>2. \A x \in Wanted : Passed(x) => Passed(x)'
    <3> SUFFICES ASSUME NEW x \in Wanted, Passed(x) PROVE x[1] < idx + 1
      BY <2>1
    <3>1. x[1] < idx \/ x[1] = idx
      BY DEF Passed
    <3> QED BY <1>1, <1>2, <3>1
  <2>3. said' = {} => said = {} /\ \A x \in Wanted : Passed(x)' => Passed(x)
    <3> SUFFICES ASSUME said' = {}, NEW x \in Wanted, x[1] < idx + 1 PROVE Passed(x)
      BY <1>5, <2>1
    <3>1. x[1] < idx \/ x[1] = idx
      BY <1>1, <1>2
    <3>2. x[1] = idx => x[2] <= Copied
      BY <1>2, <1>5
    <3> QED BY <3>1, <3>2 DEF Passed
  <2> QED BY <1>5, <2>2, <2>3, NothingWritten
<1>6. CASE OpenSucceeds
  <2>1. pc = "open" /\ out' = out /\ args' = args /\ pos' = 0 /\ Copied = 0
    BY <1>6 DEF OpenSucceeds, Copied
  <2>2. CASE fd' > 0
    <3>1. pc' = "read" /\ idx' = idx /\ said' = said
      BY <1>6, <2>2 DEF OpenSucceeds
    <3>2. Copied' = 0
      BY <2>1, <3>1 DEF Copied
    <3> QED BY <1>3, <2>1, <3>1, <3>2
  <2>3. CASE ~(fd' > 0)
    <3>1. pc' = "open" /\ idx' = idx + 1 /\ said' # {}
      BY <1>6, <2>3 DEF OpenSucceeds
    <3>2. Copied' = 0
      BY <3>1 DEF Copied
    <3> QED BY <1>5, <2>1, <3>1, <3>2
  <2> QED BY <2>2, <2>3
<1>7. CASE OpenFails
  <2>1. pc' = "open" /\ out' = out /\ args' = args /\ idx' = idx + 1 /\ said' # {}
    BY <1>7 DEF OpenFails
  <2>2. Copied' = 0
    BY <2>1 DEF Copied
  <2> QED BY <1>5, <2>1, <2>2
<1>8. CASE Close
  <2>1. pc = "close" /\ pc' = "open" /\ out' = out /\ args' = args /\ idx' = idx + 1
    BY <1>8 DEF Close
  <2>2. said' = {} => said = {}
    BY <1>8 DEF Close
  <2>3. Copied = Len(args[idx].data) /\ Copied' = 0
    BY <2>1 DEF Copied, Typed, Position
  <2> QED BY <1>5, <2>1, <2>2, <2>3
<1>9. CASE Exit
  BY <1>3, <1>9 DEF Exit, Copied
<1>10. CASE ReadEnd
  BY <1>3, <1>10 DEF ReadEnd, Copied
<1>11. CASE ReadFails
  <2>1. pc = "read" /\ pc' = "read" /\ pos' = pos /\ out' = out /\ args' = args /\ idx' = idx /\ said' # {}
    BY <1>11 DEF ReadFails
  <2>2. Copied = pos /\ Copied' = pos
    BY <2>1 DEF Copied
  <2> QED BY <1>1, <1>4, <2>1, <2>2
<1>12. CASE WriteAll
  <2>1. /\ pc = "write" /\ pc' = "read" /\ out' = out \o buf
        /\ args' = args /\ idx' = idx /\ pos' = pos /\ said' = said
    BY <1>12 DEF WriteAll
  <2>2. SubSeq(buf, 1, Len(buf)) = buf
    BY <1>1
  <2>3. Len(buf) \in 0..Len(buf)
    BY <1>1
  <2> QED BY <2>1, <2>2, <2>3, SomeWritten
<1>13. CASE WriteFails
  <2>1. pc = "write" /\ pc' = "read" /\ pos' = pos /\ out' = out /\ args' = args /\ idx' = idx /\ said' # {}
    BY <1>13 DEF WriteFails, FailedWrite
  <2>2. Copied = pos - Len(buf) /\ Copied' = pos
    BY <2>1 DEF Copied
  <2>3. Copied \in Int /\ Copied' \in Int /\ Copied <= Copied'
    BY <1>1, <2>2
  <2> QED BY <1>4, <2>1, <2>3
<1>14. ASSUME NEW n \in 1..BufSize, ReadBytes(n) PROVE InOrder'
  <2>1. /\ pc = "read" /\ pc' = "write" /\ buf' = Chunk(n) /\ pos' = pos + n
        /\ out' = out /\ args' = args /\ idx' = idx /\ said' = said /\ n <= Remaining
    BY <1>14 DEF ReadBytes
  <2>2. idx \in 1..Len(args)
    BY <1>1, <2>1 DEF Typed, Position
  <2> DEFINE data == args[idx].data
  <2>3. data \in Seq(Bytes) /\ Len(data) \in Nat
    BY <2>2, DataIsSeq DEF Typed
  <2>4. n <= Len(data) - pos /\ n \in Nat /\ 1 <= n
    BY <2>1, Numbers DEF Remaining, Typed
  <2> HIDE DEF data
  <2>5. Len(SubSeq(data, pos + 1, pos + n)) = n
    BY <1>1, <2>3, <2>4, SubSeqProperties
  <2>6. Len(buf') = n
    BY <2>1, <2>5 DEF Chunk, data
  <2>7. Copied = pos /\ Copied' = (pos + n) - n
    BY <2>1, <2>6 DEF Copied
  <2>8. Copied' = Copied
    BY <1>1, <2>4, <2>7
  <2> QED BY <1>3, <2>1, <2>8
<1>15. ASSUME NEW n \in 1..BufSize, WritePart(n) PROVE InOrder'
  <2>1. /\ pc = "write" /\ pc' = "read" /\ out' = out \o SubSeq(buf, 1, n) /\ n < Len(buf)
        /\ args' = args /\ idx' = idx /\ pos' = pos /\ said' # {}
    BY <1>15 DEF WritePart, ShortWrite
  <2>2. n \in 0..Len(buf)
    BY <1>1, <2>1, Numbers DEF Typed
  <2> QED BY <2>1, <2>2, SomeWritten
<1>16. CASE UNCHANGED vars
  BY <1>3, <1>16 DEF vars, Copied
<1> QED
  BY <1>6, <1>7, <1>8, <1>9, <1>10, <1>11, <1>12, <1>13, <1>14, <1>15, <1>16 DEF Next, Step, Exited

\* main() ends after the last argument.
Ended == pc = "exited" => idx > Len(args)

LEMMA InOrderInvariant == Spec => [](Typed /\ InOrder)
BY TypedInit, TypedStep, InOrderInit, InOrderStep, PTL DEF Spec

\* Short reads, failing reads, short and failing writes, and descriptors that
\* are missing or reused only ever leave bytes out of the output.
THEOREM CatOutputIsInOrder == Spec => []OutputIsInOrder
<1>1. InOrder => OutputIsInOrder
  BY DEF InOrder, Accounts, OutputIsInOrder
<1> QED BY <1>1, InOrderInvariant, PTL

\* If the program ends and perror() was never called then the output is whole.
THEOREM CatSilentMeansComplete == Spec => []SilentMeansComplete
<1>1. Ended /\ Typed /\ InOrder => SilentMeansComplete
  <2> SUFFICES ASSUME Ended, Typed, InOrder, pc = "exited", said = {}
               PROVE  \E at \in [1..Len(out) -> Wanted] :
                          Explains(at) /\ \A x \in Wanted : \E m \in 1..Len(out) : at[m] = x
    BY DEF SilentMeansComplete
  <2>1. PICK at \in [1..Len(out) -> Wanted] : Accounts(at)
    BY DEF InOrder
  <2>2. ASSUME NEW x \in Wanted PROVE Passed(x)
    <3>1. PICK a \in 1..Len(args) : x \in {a} \X (1..Len(args[a].data))
      BY DEF Wanted
    <3>2. x[1] = a /\ Len(args) \in Nat /\ idx \in Int /\ idx > Len(args)
      BY <3>1, Numbers DEF Typed, Ended
    <3> QED BY <3>2 DEF Passed
  <2> QED BY <2>1, <2>2 DEF Accounts
<1>2. Init => Ended
  BY DEF Init, Ended
<1>3. Typed /\ Ended /\ [Next]_vars => Ended'
  <2> SUFFICES ASSUME Typed, Ended, [Next]_vars, pc' = "exited" PROVE idx' > Len(args')
    BY DEF Ended
  <2>1. Exit \/ UNCHANGED vars
    BY DEF Next, Step, Exited, OpenSucceeds, OpenFails, Close, ReadEnd, ReadFails,
           WriteAll, WriteFails, FailedWrite, ReadBytes, WritePart, ShortWrite
  <2> QED BY <2>1 DEF Exit, Ended, vars
<1> QED BY <1>1, <1>2, <1>3, InOrderInvariant, PTL DEF Spec
=============================================================================
