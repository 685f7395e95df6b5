------------------------------- MODULE MCCat -------------------------------
(* Model-checking instances of Cat. *)
EXTENDS Cat

Regular(bytes) == [kind |-> "regular", data |-> bytes]

\* Around the size of the buffer (2): empty, one short of it and one over; no
\* byte occurs twice, so order and repetition show.
MCRegular == {Regular(<<>>), Regular(<<1>>), Regular(<<2, 3, 4>>)}
MCMissing   == [kind |-> "missing", data |-> <<>>]
MCDirectory == [kind |-> "directory", data |-> <<>>]

MCAllFiles  == MCRegular \union {MCMissing, MCDirectory}
MCSmallOrDirectory == {Regular(<<1>>), MCDirectory}

MCAllStdio == SUBSET (0..2)
MCStdio    == {0..2}
=============================================================================
