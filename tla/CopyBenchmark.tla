--------------------------- MODULE CopyBenchmark ---------------------------
(***************************************************************************)
(* measure() and main() of 11-sendfile: what the measurements do to the    *)
(* two files whose descriptors they share.                                 *)
(*                                                                         *)
(* The copy functions are a parameter of measure(), and stubs in this      *)
(* repository that move nothing.  Here a copy moves some number of bytes   *)
(* from where the input stands to where the output stands, as read(2),     *)
(* write(2) and sendfile(2) do.  Clock and division are left out, and      *)
(* that a clock which cannot be read ends the program.                     *)
(***************************************************************************)
EXTENDS Integers, SequencesExt

\* size, seekable: of the input; in: its offset.  target: whether memfd_create()
\* succeeded; out, length: offset and size of that file.  copied: what the
\* measured copies returned.
Opened(size, seekable, target) ==
    [size |-> size, seekable |-> seekable, target |-> target,
     in |-> 0, out |-> 0, length |-> 0, copied |-> <<>>, died |-> FALSE]

\* What is left of the input; nothing can be copied to a target there is not.
Available(f) == IF f.target THEN f.size - f.in ELSE 0

\* A copy of at most limit bytes; writing behind the end leaves a hole.
Moved(f, limit) ==
    LET bytes == IF f.target /\ limit < Available(f) THEN limit ELSE Available(f)
    IN  [f EXCEPT !.in = @ + bytes, !.out = @ + bytes,
                  !.length = IF bytes > 0 /\ f.out + bytes > @ THEN f.out + bytes ELSE @]

\* Mutant: the input is not wound back.
ResetTarget(f) ==
    IF f.seekable /\ f.target THEN [f EXCEPT !.length = 0]
    ELSE [f EXCEPT !.died = TRUE]

\* lseek() and ftruncate(); the latter does not move the offset of the output.
\* Either failing ends the program - memfd_create() failing, which main() does
\* not look at, at the latest here.
Reset(f) ==
    IF f.seekable /\ f.target THEN [f EXCEPT !.in = 0, !.length = 0]
    ELSE [f EXCEPT !.died = TRUE]

measure(f, limit) ==
    LET reset == Reset(f)
        after == Moved(reset, limit)
    IN  IF f.died \/ reset.died THEN reset
        ELSE [after EXCEPT !.copied = Append(@, after.in - reset.in)]

\* main(): one copy to warm up, then twice rounds measurements; atoi() may give
\* rounds that are negative.  limits[1] is the warm-up's.
Measurements(rounds) == IF rounds > 0 THEN 2 * rounds ELSE 0

Benchmark(f, rounds, limits) ==
    FoldLeft(measure, Moved(f, limits[1]), SubSeq(limits, 2, 1 + Measurements(rounds)))
=============================================================================
