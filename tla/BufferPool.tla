----------------------------- MODULE BufferPool -----------------------------
(***************************************************************************)
(* The buffer allocator of 16-iouring (alloc_buffer, free_buffer): a stack *)
(* of free buffers that is linked through the memory of the buffers        *)
(* themselves, with a canary word behind the link.                         *)
(*                                                                         *)
(* The repository ships the callers as stubs, so the module lets a caller  *)
(* do what the interface offers - allocate, fill, free - and, where the    *)
(* constants allow it, what free_buffer()'s comment is about: free a       *)
(* buffer through a pointer that was freed before, whoever has the buffer  *)
(* by then, or have the kernel overwrite one that is already free.         *)
(* Data never contains the canary's bit pattern by chance.                 *)
(***************************************************************************)
EXTENDS Integers, Sequences

CONSTANTS Buffers,      \* the memory posix_memalign() can hand out
          NULL,
          Garbage,      \* a pointer to no buffer
          FaultSets,    \* the combinations of faults (see below) that are tried
          MaxFree,      \* bound: frees on record while stale pointers are freed
          MaxOwners     \* bound: owners of one buffer after failed allocations or stray frees

\* What may go wrong around the allocator: the kernel overwrites a free buffer
\* entirely, or only the link, its first 8 bytes; a pointer is freed a second time,
\* while the buffer is still free or when it belongs to somebody else;
\* posix_memalign() fails.
Faults == {"overwrite", "overwrite_link", "double_free", "stale_free", "no_memory"}

ASSUME BuffersAssumption ==
    /\ NULL \notin Buffers /\ Garbage \notin Buffers /\ NULL # Garbage
    /\ FaultSets \subseteq SUBSET Faults
    /\ MaxFree \in Nat
    /\ MaxOwners \in Nat

VARIABLES faults,       \* the faults of this run of the program
          free_buffers, \* top of the stack of free buffers
          next,         \* next[b]: b->next, or the data in its place
          canary,       \* canary[b]: "CANARY", "zero", or "data"
          owners,       \* owners[b]: how many callers think they own b
          life,         \* history: what was last done to b
          stack,        \* history: buffers freed and not handed out, oldest first
          stray,        \* history: buffers that were freed by others than their owner
          fate          \* "running", or how the program ended

vars == <<faults, free_buffers, next, canary, owners, life, stack, stray, fate>>

Born     == {b \in Buffers : life[b] # "unborn"}
Pointers == Buffers \union {NULL, Garbage}
Owned    == {b \in Buffers : owners[b] > 0}

Init ==
    /\ faults \in FaultSets
    /\ free_buffers = NULL
    /\ next = [b \in Buffers |-> Garbage]
    /\ canary = [b \in Buffers |-> "data"]
    /\ owners = [b \in Buffers |-> 0]
    /\ life = [b \in Buffers |-> "unborn"]
    /\ stack = <<>>
    /\ stray = {}
    /\ fate = "running"

-----------------------------------------------------------------------------
(* alloc_buffer() *)

\* Mutant: new memory is taken although there are free buffers.
StackIsEmptyUnchecked == TRUE

StackIsEmpty == free_buffers = NULL

AllocFresh(b) ==
    /\ fate = "running"
    /\ StackIsEmpty
    /\ life[b] = "unborn"
    /\ life' = [life EXCEPT ![b] = "used"]
    /\ owners' = [owners EXCEPT ![b] = 1]
    /\ UNCHANGED <<faults, free_buffers, next, canary, stack, stray, fate>>

\* posix_memalign() reports failure with a positive number, so the test for a
\* negative one lets it pass and ret is returned as it was: uninitialised.
\* It may still point to a buffer of an earlier call; any other pointer
\* brings the program down when the caller uses it.
AllocFails ==
    /\ fate = "running"
    /\ StackIsEmpty
    /\ "no_memory" \in faults
    /\ \/ \E b \in Born : /\ owners[b] < MaxOwners
                          /\ owners' = [owners EXCEPT ![b] = @ + 1]
                          /\ UNCHANGED fate
       \/ fate' = "wild" /\ UNCHANGED owners
    /\ UNCHANGED <<faults, free_buffers, next, canary, life, stack, stray>>

\* Mutant: the canary is not looked at.
CanaryUnchecked == TRUE

CanaryIntact == canary[free_buffers] = "CANARY"

\* Mutant: the canary is not taken away.
CanaryKept == canary

CanaryTaken == [canary EXCEPT ![free_buffers] = "zero"]

\* The buffer is popped before its canary is looked at.
AllocPop ==
    /\ fate = "running"
    /\ free_buffers \in Buffers
    /\ free_buffers' = next[free_buffers]
    /\ IF CanaryIntact
       THEN /\ canary' = CanaryTaken
            /\ owners' = [owners EXCEPT ![free_buffers] = @ + 1]
            /\ life' = [life EXCEPT ![free_buffers] = "used"]
            /\ stack' = SubSeq(stack, 1, Len(stack) - 1)
            /\ UNCHANGED fate
       ELSE /\ fate' = "aborted"
            /\ UNCHANGED <<canary, owners, life, stack>>
    /\ UNCHANGED <<faults, next, stray>>

\* free_buffers->next through a pointer that is no buffer.
AllocWild ==
    /\ fate = "running"
    /\ free_buffers = Garbage
    /\ fate' = "wild"
    /\ UNCHANGED <<faults, free_buffers, next, canary, owners, life, stack, stray>>

-----------------------------------------------------------------------------
(* free_buffer() *)

\* Mutants: the canary is not set, or the link takes its place.
WithoutCanary(b) == canary
LinkAsCanary(b)  == [canary EXCEPT ![b] = free_buffers]

WithCanary(b) == [canary EXCEPT ![b] = "CANARY"]

\* Mutant: the link is not set.
WithoutLink(b) == next

WithLink(b) == [next EXCEPT ![b] = free_buffers]

Push(b) ==
    /\ canary' = WithCanary(b)
    /\ next' = WithLink(b)
    /\ free_buffers' = b
    /\ life' = [life EXCEPT ![b] = "freed"]
    /\ stack' = Append(stack, b)

Free(b) ==
    /\ fate = "running"
    /\ owners[b] > 0
    /\ owners' = [owners EXCEPT ![b] = @ - 1]
    /\ Push(b)
    /\ UNCHANGED <<faults, stray, fate>>

\* A caller frees a buffer that it has freed before.  Nothing checks whether it
\* was handed out in between: if so, its owner keeps using a buffer in the list.
FreeAgain(b) ==
    /\ fate = "running"
    /\ b \in Born
    /\ (IF b \in Owned THEN "stale_free" ELSE "double_free") \in faults
    /\ Len(stack) < MaxFree
    /\ owners[b] < MaxOwners
    /\ Push(b)
    /\ stray' = stray \union ({b} \intersect Owned)
    /\ UNCHANGED <<faults, owners, fate>>

-----------------------------------------------------------------------------
(* Writes to the memory of a buffer *)

\* Whether the write hits a buffer that lies in the stack.
Soil(b) == life' = [life EXCEPT ![b] = IF @ = "freed" THEN "soiled" ELSE @]

\* The owner, or the kernel on its behalf, fills the buffer.
Fill(b) ==
    /\ fate = "running"
    /\ owners[b] > 0
    /\ \E p \in Born \union {NULL, Garbage} : next' = [next EXCEPT ![b] = p]
    /\ canary' = [canary EXCEPT ![b] = "data"]
    /\ Soil(b)
    /\ UNCHANGED <<faults, free_buffers, owners, stack, stray, fate>>

\* A read that was still in flight when its buffer was freed completes.
LateWrite(b) ==
    /\ fate = "running"
    /\ life[b] = "freed"
    /\ \E p \in Born \union {NULL, Garbage} : next' = [next EXCEPT ![b] = p]
    /\ \/ "overwrite" \in faults /\ canary' = [canary EXCEPT ![b] = "data"]
       \/ "overwrite_link" \in faults /\ UNCHANGED canary
    /\ Soil(b)
    /\ UNCHANGED <<faults, free_buffers, owners, stack, stray, fate>>

-----------------------------------------------------------------------------
Ended == fate # "running" /\ UNCHANGED vars

BufferNext(b) ==
    AllocFresh(b) \/ Free(b) \/ FreeAgain(b) \/ Fill(b) \/ LateWrite(b)

Next ==
    \/ AllocFails \/ AllocPop \/ AllocWild
    \/ \E b \in Buffers : BufferNext(b)
    \/ Ended

Spec == Init /\ [][Next]_vars

-----------------------------------------------------------------------------
(* Properties *)

\* Callers and kernel keep to the rules and memory lasts.
WellBehaved == faults = {}

TypeOK ==
    /\ faults \subseteq Faults
    /\ free_buffers \in Pointers
    /\ next \in [Buffers -> Pointers]
    /\ canary \in [Buffers -> {"CANARY", "zero", "data"}]
    /\ owners \in [Buffers -> Nat]
    /\ life \in [Buffers -> {"unborn", "used", "freed", "soiled"}]
    /\ stack \in Seq(Buffers)
    /\ stray \subseteq Buffers
    /\ fate \in {"running", "aborted", "wild"}

\* The list that is threaded through the free buffers is the stack of the
\* buffers that were freed and not handed out since: none is lost, none is in
\* it twice, none of them has an owner, and all carry the canary.
ListIsStack ==
    LET n == Len(stack)
    IN  /\ free_buffers = IF n = 0 THEN NULL ELSE stack[n]
        /\ \A k \in 1..n : /\ next[stack[k]] = IF k = 1 THEN NULL ELSE stack[k - 1]
                           /\ canary[stack[k]] = "CANARY"
                           /\ owners[stack[k]] = 0
        /\ \A j, k \in 1..n : j # k => stack[j] # stack[k]
        /\ \A b \in Born : owners[b] = 0 => \E k \in 1..n : stack[k] = b

Linked == WellBehaved => ListIsStack

\* The assertion in alloc_buffer() never stops a program whose callers behave:
\* free_buffer() restores the words an owner wrote over link and canary.
NoFalseAlarm == WellBehaved => fate = "running"

\* Callers that behave see a last-in-first-out pool of exclusive buffers; under
\* a fault nothing of the kind is promised and the mapping shows an empty pool.
Pool == INSTANCE FreeStack WITH
    used <- IF WellBehaved THEN Owned ELSE {},
    free <- IF WellBehaved THEN stack ELSE <<>>

ImplementsFreeStack == Pool!Spec

\* While memory lasts a buffer gets a second owner in one way only: it is freed
\* through a stale pointer while somebody has it.  Freeing one again that is still
\* free is not enough, nor are writes of the kernel into free ones, in any order:
\* handing a buffer out takes the canary that it needs to be handed out again.
ExclusiveOwnership ==
    "no_memory" \notin faults => \A b \in Buffers : owners[b] > 1 => b \in stray

HandedOut(b) == owners'[b] > owners[b]

ReusesOverwritten == \E b \in Buffers : life[b] = "soiled" /\ HandedOut(b)

\* "if the kernel overwrites a buffer, while it is in the free stack ..., the
\* canary will detect that" (iouring.c:83): true of writes that reach the canary
\* - a buffer they hit while it was free is not handed out -, but not of a write
\* of the first eight bytes, which the canary does not cover.
OverwritesAreNoticed == [][ReusesOverwritten => "overwrite_link" \in faults]_vars

-----------------------------------------------------------------------------
(* What the comments of iouring.c promise and the code does not keep *)

\* "If the stack is empty, we allocate a new buffer and give it to the caller"
\* (iouring.c:61): what the caller gets belongs to nobody else.
NewBufferIsExclusive == \A b \in Buffers : owners[b] <= 1
=============================================================================
