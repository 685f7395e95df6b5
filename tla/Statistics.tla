----------------------------- MODULE Statistics -----------------------------
(***************************************************************************)
(* The loop of main() in 16-iouring, as far as it is there: it submits and *)
(* reaps nothing (stubs), looks at the clock and prints a line when a new  *)
(* second has begun.  The clock may be set, also back.                     *)
(***************************************************************************)
EXTENDS Integers, SequencesExt

\* now is in seconds (tv_sec); of a line, only when it is printed is recorded.
LoopStart(time) == [now |-> time, lines |-> <<>>]

\* Mutant: <= for <.
NewSecondOrSame(s, now2) == s.now <= now2

NewSecond(s, now2) == s.now < now2

Iteration(s, now2) ==
    [now |-> now2,
     lines |-> IF NewSecond(s, now2) THEN Append(s.lines, now2) ELSE s.lines]

\* The clock is read once before the loop and once in every iteration.
AfterIterations(times) ==
    FoldLeft(Iteration, LoopStart(times[1]), Tail(times))
=============================================================================
