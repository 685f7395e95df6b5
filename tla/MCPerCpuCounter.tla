--------------------------- MODULE MCPerCpuCounter ---------------------------
(* Model-checking instances of PerCpuCounter. *)
EXTENDS PerCpuCounter

MCSparseCpus == {0, 1, 3}    \* CPU 2 is offline
MCOneCpu     == {0}
=============================================================================
