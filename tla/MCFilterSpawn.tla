--------------------------- MODULE MCFilterSpawn ---------------------------
(* Model-checking instances of FilterSpawn. *)
EXTENDS FilterSpawn

MCAllStdio    == SUBSET (0..2)
MCUsualStdio  == {0..2}
=============================================================================
