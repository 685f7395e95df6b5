-------------------------------- MODULE Cat --------------------------------
(***************************************************************************)
(* 01-open/cat.c: main() opens the files named on the command line one     *)
(* after the other, cat() copies each to descriptor 1 through a buffer.    *)
(* Everything that goes wrong is reported with perror() and passed over;   *)
(* the exit status is always 0.                                            *)
(*                                                                         *)
(* The kernel may deliver fewer bytes than the buffer holds, accept fewer  *)
(* than it was given, or accept none.  open() returns the lowest free      *)
(* descriptor, which is below 3 if the program was started without one of  *)
(* the standard ones.                                                      *)
(***************************************************************************)
EXTENDS Integers, Sequences

CONSTANTS Bytes,         \* contents of files
          BufSize,       \* sizeof(buf): 4096
          Files,         \* what an argument may name (records as in File below)
          MaxArgs,       \* bound: number of arguments
          StdioSets,     \* which of 0, 1, 2 are open when the program starts
          ReadTrouble,   \* may read() fail on a file that can be read (EIO, EINTR)?
          WriteTrouble,  \* may write() fail or accept only a part?
          CloseFails     \* may close() fail?

\* A missing file cannot be opened; a directory can, but not read (EISDIR).
File == [kind : {"regular", "directory", "missing"}, data : Seq(Bytes)]

ASSUME CatAssumption ==
    /\ BufSize \in Nat \ {0}
    /\ Files \subseteq File
    /\ MaxArgs \in Nat
    /\ StdioSets \subseteq SUBSET (0..2)
    /\ ReadTrouble \in BOOLEAN
    /\ WriteTrouble \in BOOLEAN
    /\ CloseFails \in BOOLEAN

VARIABLES args,     \* argv[1], argv[2], ...
          pc,       \* where the program is
          idx,      \* loop index of main()
          open,     \* the descriptors below 4 that are in use
          fd,       \* result of open()
          pos,      \* offset of fd
          buf,      \* the bytes that were just read: buf[0 .. bytes_read-1]
          out,      \* what has been written to descriptor 1
          said,     \* the messages given to perror() so far
          failures  \* history: the number of reads that failed, modulo 2

vars == <<args, pc, idx, open, fd, pos, buf, out, said, failures>>

Init ==
    /\ \E len \in 0..MaxArgs : args \in [1..len -> Files]
    /\ pc = "open"
    /\ idx = 1
    /\ open \in StdioSets
    /\ fd = -1
    /\ pos = 0
    /\ buf = <<>>
    /\ out = <<>>
    /\ said = {}
    /\ failures = 0

-----------------------------------------------------------------------------
(* main() *)

LowestFree == CHOOSE d \in (0..3) \ open : \A e \in (0..3) \ open : d <= e

\* Descriptor 0 is taken for a failure and stays open.
OpenSucceeds ==
    /\ pc = "open"
    /\ idx <= Len(args)
    /\ args[idx].kind # "missing"
    /\ fd' = LowestFree
    /\ open' = open \union {LowestFree}
    /\ pos' = 0
    /\ IF fd' > 0
       THEN pc' = "read" /\ UNCHANGED <<idx, said>>
       ELSE idx' = idx + 1 /\ said' = said \union {"Failed to open file"} /\ UNCHANGED pc
    /\ UNCHANGED <<args, buf, out, failures>>

OpenFails ==
    /\ pc = "open"
    /\ idx <= Len(args)
    /\ args[idx].kind = "missing"
    /\ fd' = -1
    /\ said' = said \union {"Failed to open file"}
    /\ idx' = idx + 1
    /\ UNCHANGED <<args, pc, open, pos, buf, out, failures>>

Close ==
    /\ pc = "close"
    /\ \/ said' = said
       \/ CloseFails /\ said' = said \union {"Failed to close file"}
    /\ open' = open \ {fd}
    /\ idx' = idx + 1
    /\ pc' = "open"
    /\ UNCHANGED <<args, fd, pos, buf, out, failures>>

Exit ==
    /\ pc = "open"
    /\ idx > Len(args)
    /\ pc' = "exited"
    /\ UNCHANGED <<args, idx, open, fd, pos, buf, out, said, failures>>

-----------------------------------------------------------------------------
(* cat() *)

Remaining == Len(args[idx].data) - pos

\* Mutant: one byte more than the buffer holds.
ChunkPastBuffer(n) == SubSeq(args[idx].data, pos + 1, pos + n + (IF n < Remaining THEN 1 ELSE 0))

Chunk(n) == SubSeq(args[idx].data, pos + 1, pos + n)

ReadBytes(n) ==
    /\ pc = "read"
    /\ args[idx].kind = "regular"
    /\ n <= Remaining
    /\ buf' = Chunk(n)
    /\ pos' = pos + n
    /\ pc' = "write"
    /\ UNCHANGED <<args, idx, open, fd, out, said, failures>>

AtEnd == args[idx].kind = "regular" /\ Remaining = 0

ReadEnd ==
    /\ pc = "read"
    /\ AtEnd
    /\ pc' = "close"
    /\ UNCHANGED <<args, idx, open, fd, pos, buf, out, said, failures>>

\* The loop only ends on 0, so the program reads again.  Nothing limits how often
\* that fails: a failure is a step also if it was reported before.
ReadFails ==
    /\ pc = "read"
    /\ args[idx].kind = "directory" \/ ReadTrouble
    /\ said' = said \union {"Read failed!"}
    /\ failures' = 1 - failures
    /\ UNCHANGED <<args, pc, idx, open, fd, pos, buf, out>>

\* Without a descriptor 1, or if it is the file being read, write() fails.
Writable == 1 \in open /\ fd # 1

WriteAll ==
    /\ pc = "write"
    /\ Writable
    /\ out' = out \o buf
    /\ pc' = "read"
    /\ UNCHANGED <<args, idx, open, fd, pos, buf, said, failures>>

\* Mutant: a write that failed is repeated.
FailedWriteRetried == pc' = "write"

\* What could not be written is given up.
FailedWrite == pc' = "read"

WriteFails ==
    /\ pc = "write"
    /\ WriteTrouble \/ ~Writable
    /\ said' = said \union {"Failed to write bytes"}
    /\ FailedWrite
    /\ UNCHANGED <<args, idx, open, fd, pos, buf, out, failures>>

\* Mutants: the short write is not reported, or the whole buffer written again.
ShortWriteUnnoticed == said' = said /\ pc' = "read"
ShortWriteRetried   == said' = said \union {"Failed to write all read bytes"} /\ pc' = "write"

\* The rest of the buffer is dropped.
ShortWrite == said' = said \union {"Failed to write all read bytes"} /\ pc' = "read"

WritePart(n) ==
    /\ pc = "write"
    /\ WriteTrouble
    /\ Writable
    /\ n < Len(buf)
    /\ out' = out \o SubSeq(buf, 1, n)
    /\ ShortWrite
    /\ UNCHANGED <<args, idx, open, fd, pos, buf, failures>>

-----------------------------------------------------------------------------
Exited == pc = "exited" /\ UNCHANGED vars

Step ==
    \/ OpenSucceeds \/ OpenFails \/ Close \/ Exit
    \/ ReadEnd \/ ReadFails \/ WriteAll \/ WriteFails
    \/ \E n \in 1..BufSize : ReadBytes(n) \/ WritePart(n)

Next == Step \/ Exited

Spec == Init /\ [][Next]_vars /\ WF_vars(Step)

-----------------------------------------------------------------------------
(* Properties *)

TypeOK ==
    /\ args \in Seq(Files)
    /\ pc \in {"open", "read", "write", "close", "exited"}
    /\ idx \in 1..(Len(args) + 1)
    /\ open \subseteq 0..3
    /\ fd \in -1..3
    /\ pos \in Nat
    /\ buf \in Seq(Bytes) /\ Len(buf) <= BufSize
    /\ out \in Seq(Bytes)
    /\ failures \in 0..1
    /\ said \subseteq {"Failed to open file", "Failed to close file", "Read failed!",
                       "Failed to write bytes", "Failed to write all read bytes"}

\* The bytes the arguments name, <<argument, offset>>, and their order.
Wanted == UNION {{a} \X (1..Len(args[a].data)) : a \in 1..Len(args)}
Before(x, y) == x[1] < y[1] \/ (x[1] = y[1] /\ x[2] < y[2])

\* The output consists of the wanted bytes that "at" lists, in their order.
Explains(at) ==
    /\ \A m, n \in 1..Len(out) : m < n => Before(at[m], at[n])
    /\ \A m \in 1..Len(out) : out[m] = args[at[m][1]].data[at[m][2]]

\* Whatever goes wrong, bytes are only ever left out: the output is what was
\* wanted without some of the bytes, never reordered, repeated or invented.
OutputIsInOrder == \E at \in [1..Len(out) -> Wanted] : Explains(at)

\* The exit status says nothing, so the messages must: if the program ends
\* without a message then no wanted byte is missing from the output.
SilentMeansComplete ==
    (pc = "exited" /\ said = {}) =>
        \E at \in [1..Len(out) -> Wanted] :
            Explains(at) /\ \A x \in Wanted : \E m \in 1..Len(out) : at[m] = x

\* There is one way not to end: reads that fail again and again for ever.  Writes
\* that fail or are short, closes that fail, files that cannot be opened and reads
\* that fail any finite number of times only delay the end.
EndsUnlessReadsKeepFailing == <>(pc = "exited") \/ []<><<ReadFails>>_vars

\* "we have to iterate over all command-line arguments" (cat.c:35): the program
\* gets to every argument and ends.
EveryArgumentIsReached == <>(pc = "exited")
=============================================================================
