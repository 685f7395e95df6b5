---------------------------- MODULE NumberOutput ----------------------------
(***************************************************************************)
(* The two versions of syscall_write(), which write a message and a number *)
(* with write(2) only: of 02-clone (an int, in decimal) and of 06-sigaction*)
(* (an int64_t, in any base).  Each fills a buffer from its end.           *)
(*                                                                         *)
(* A text is a sequence of digits after an optional sign; the message and  *)
(* the newline are only counted.                                           *)
(***************************************************************************)
EXTENDS Integers, Sequences, Powers

CONSTANTS IntBytes,     \* sizeof(number): 4 in 02-clone, 8 in 06-sigaction
          Bases         \* the bases that are tried

\* An int has 16 bits at least; a buffer for a number of one byte would be too
\* small, its digits are as many as the buffer has bytes.
ASSUME NumberAssumption ==
    /\ IntBytes \in Nat \ {0, 1}
    /\ Bases \subseteq 2..16

IntMax  == Power(2, IntBytes * 8 - 1) - 1
IntMin  == -IntMax - 1
Numbers == IntMin..IntMax

\* number *= -1; the smallest int has no counterpart and wraps around to itself.
Negate(n) == IF n = IntMin THEN n ELSE -n

Text(sign, digits) == [minus |-> sign, digits |-> digits]

\* The digits of a number that is not negative, most significant first; as many
\* as the loop of 02-clone writes (none for 0) ...
DigitsOf(base) ==
    LET d[n \in 0..IntMax] ==
            IF n = 0 THEN <<>> ELSE Append(d[n \div base], n % base)
    IN  d

\* ... and at least one, as the do-while loop of 06-sigaction does.
DigitsOrZero(base, n) == IF n = 0 THEN <<0>> ELSE DigitsOf(base)[n]

\* Mutant: the loop that writes nothing for 0 is used for every number.
DecimalWithoutZero(number) ==
    LET n == IF number < 0 THEN Negate(number) ELSE number
    IN  Text(number < 0, IF n > 0 THEN DigitsOf(10)[n] ELSE <<>>)

\* 02-clone: 0 is a case of its own; a number that is still negative after its
\* sign was changed does not enter the loop.
Decimal(number) ==
    IF number = 0 THEN Text(FALSE, <<0>>)
    ELSE LET n == IF number < 0 THEN Negate(number) ELSE number
         IN  Text(number < 0, IF n > 0 THEN DigitsOf(10)[n] ELSE <<>>)

\* Mutant: two bytes of buffer for a byte of the number.
NarrowBuffer == IntBytes * 2

DecimalBuffer == IntBytes * 3

\* 06-sigaction: the digits of a negative n are looked up with negative indices,
\* sooner or later.
Undefined == Text(TRUE, <<-1>>)

\* Mutant: the sign is written but not taken away.
InBaseKeepingSign(number, base) ==
    IF number < 0 THEN Undefined ELSE Text(FALSE, DigitsOrZero(base, number))

InBase(number, base) ==
    LET n == IF number < 0 THEN Negate(number) ELSE number
    IN  IF n < 0 THEN Undefined ELSE Text(number < 0, DigitsOrZero(base, n))

InBaseBuffer == IntBytes * 8

\* Bytes of the buffer that a text and its newline take; 0 does not use it.
Room(text) == Len(text.digits) + 1

-----------------------------------------------------------------------------
(* What a text means *)

Value(text, base) ==
    LET v[k \in 0..Len(text.digits)] ==
            IF k = 0 THEN 0 ELSE base * v[k - 1] + text.digits[k]
        magnitude == v[Len(text.digits)]
    IN  IF text.minus THEN -magnitude ELSE magnitude
=============================================================================
