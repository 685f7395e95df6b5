----------------------------- MODULE FreeStack -----------------------------
(***************************************************************************)
(* What the buffer allocator of 16-iouring promises its callers: a buffer  *)
(* has at most one owner, a buffer that was given back is reused before    *)
(* new memory is taken, and the buffer used last is reused first.          *)
(***************************************************************************)
EXTENDS Sequences, Integers

CONSTANT Buffers

VARIABLES used,     \* the buffers that somebody owns
          free      \* the buffers that were given back, oldest first

vars == <<used, free>>

Init == used = {} /\ free = <<>>

AllocNew ==
    /\ free = <<>>
    /\ \E b \in Buffers \ used : used' = used \union {b}
    /\ UNCHANGED free

AllocUsed ==
    /\ free # <<>>
    /\ used' = used \union {free[Len(free)]}
    /\ free' = SubSeq(free, 1, Len(free) - 1)

GiveBack(b) ==
    /\ b \in used
    /\ used' = used \ {b}
    /\ free' = Append(free, b)

Next == AllocNew \/ AllocUsed \/ \E b \in Buffers : GiveBack(b)

Spec == Init /\ [][Next]_vars
=============================================================================
