--------------------------- MODULE AtomicCounters ---------------------------
(***************************************************************************)
(* What the CPU-local counters of 23-rseq promise to their users: an array *)
(* of words, one per slot, which threads increment by one in single,       *)
(* indivisible steps.  Which slot a step uses is up to the implementation  *)
(* (the CPU a thread runs on); that no increment is lost is not.           *)
(***************************************************************************)
EXTENDS Integers

CONSTANTS Threads,    \* the threads that increment
          Slots,      \* the indices of the counter array
          WordSize    \* number of values of a counter (2^64 for uint64_t)

VARIABLES value,      \* value[s]: the counter in slot s
          completed   \* completed[t]: increments thread t has performed

vars == <<value, completed>>

Init == /\ value \in [Slots -> 0..(WordSize - 1)]
        /\ completed = [t \in Threads |-> 0]

Increment(t, s) ==
    /\ value' = [value EXCEPT ![s] = (@ + 1) % WordSize]
    /\ completed' = [completed EXCEPT ![t] = @ + 1]

Next == \E t \in Threads, s \in Slots : Increment(t, s)

Spec == Init /\ [][Next]_vars
=============================================================================
