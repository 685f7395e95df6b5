------------------------------ MODULE Checksum ------------------------------
(***************************************************************************)
(* calc_checksum() of 09-xattr: the sum of a range of memory, taken word   *)
(* by word and then byte by byte.                                          *)
(*                                                                         *)
(* Memory is a sequence of bytes; the range is its first len bytes, what   *)
(* lies behind is whatever happens to be there.  main() is a stub that     *)
(* does not get as far as calling the function.                            *)
(***************************************************************************)
EXTENDS Integers, FiniteSets, Functions, Powers

CONSTANTS WordBytes,    \* sizeof(uint64_t)
          ByteSize      \* number of values of a byte

ASSUME ChecksumAssumption == WordBytes \in Nat \ {0} /\ ByteSize \in Nat \ {0, 1}

WordValues == Power(ByteSize, WordBytes)

\* The word that starts behind the first p bytes, least significant byte first.
WordAt(memory, p) ==
    SumFunction([b \in 0..(WordBytes - 1) |-> memory[p + b + 1] * Power(ByteSize, b)])

\* Mutant: <= for <.
WordOffsetsUpTo(len) == {p \in 0..len : p % WordBytes = 0}

\* Where the first loop reads words: while the next one begins in the range.
WordOffsets(len) == {p \in 0..(len - 1) : p % WordBytes = 0}

\* Where it leaves ptr, which is where the second loop starts.
EndOfWords(len) == WordBytes * Cardinality(WordOffsets(len))

\* The second loop does not advance cptr: entered, it does not end.
Returns(len) == EndOfWords(len) >= len

calc_checksum(memory, len) ==
    SumFunction([p \in WordOffsets(len) |-> WordAt(memory, p)]) % WordValues

-----------------------------------------------------------------------------
(* What the comments describe: whole words, then the rest byte by byte. *)

DescribedChecksum(memory, len) ==
    LET rest == len - (len % WordBytes)
        words == {p \in 0..(rest - 1) : p % WordBytes = 0}
    IN  ( SumFunction([p \in words |-> WordAt(memory, p)])
            + SumFunction([p \in rest..(len - 1) |-> memory[p + 1]]) ) % WordValues
=============================================================================
