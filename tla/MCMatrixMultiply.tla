-------------------------- MODULE MCMatrixMultiply --------------------------
(* Model-checking instance of MatrixMultiply. *)
EXTENDS MatrixMultiply

\* With blocks of 2 and 128 values of an unsigned: nothing, less than a block, one,
\* two and four blocks in a row, a square that overflows (16, and 64 written as a
\* negative number), and two numbers that are rejected.
MCDimArgs == {0, 1, 2, 3, 4, 8, 16, -1, -64}
=============================================================================
