------------------------------- MODULE Powers -------------------------------
(***************************************************************************)
(* Powers of natural numbers, by their recursion: the provers know nothing *)
(* of the operator ^.                                                      *)
(***************************************************************************)
EXTENDS Integers

Power(b, n) ==
    LET p[k \in 0..n] == IF k = 0 THEN 1 ELSE b * p[k - 1]
    IN  p[n]
=============================================================================
