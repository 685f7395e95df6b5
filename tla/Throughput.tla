----------------------------- MODULE Throughput -----------------------------
(***************************************************************************)
(* print_throughput() of 10-epoll as a function of its history of calls.   *)
(* The real-time clock it reads may be set, also back; that the program    *)
(* ends if it cannot be read is left out.                                  *)
(*                                                                         *)
(* Times are ticks since the epoch.  The elements of the array of counters *)
(* are treated alike, one of them is modelled.                             *)
(***************************************************************************)
EXTENDS Integers, SequencesExt

CONSTANT SecondTicks    \* ticks of tv_nsec in a second

ASSUME SecondTicksAssumption == SecondTicks \in Nat \ {0}

Sec(time) == time \div SecondTicks

\* last, a static variable, is zero; nothing was transferred or printed.
Unused == [last |-> 0, bytes |-> 0, lines |-> <<>>]

\* A line: what was transferred in how much time, and when it was printed.
Line(s, now) == [bytes |-> s.bytes, delta |-> now - s.last, at |-> now]

\* Mutant: the counters are not cleared.
PrintKeepingBytes(s, now) ==
    [last |-> now, bytes |-> s.bytes, lines |-> Append(s.lines, Line(s, now))]

PrintLine(s, now) ==
    [last |-> now, bytes |-> 0, lines |-> Append(s.lines, Line(s, now))]

\* Another second has begun, and the first call has been.
IsDue(s, now) == Sec(now) > Sec(s.last) /\ Sec(s.last) > 0

print_throughput(s, now) ==
    IF IsDue(s, now) THEN PrintLine(s, now)
    ELSE IF Sec(s.last) = 0 THEN [s EXCEPT !.last = now]
    ELSE s

\* The copying loop adds to the counter and calls print_throughput().
AfterCalls(calls) ==
    FoldLeft(LAMBDA s, call :
                 print_throughput([s EXCEPT !.bytes = @ + call.moved], call.now),
             Unused, calls)
=============================================================================
