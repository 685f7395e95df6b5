---------------------------- MODULE MCBufferPool ----------------------------
(* Model-checking instances of BufferPool. *)
EXTENDS BufferPool, TLC

\* Callers that behave; double frees with every kind of late write; double and
\* stale frees with those the canary can notice; late reads while memory runs out.
MCFaultSets == {{}, {"overwrite", "overwrite_link", "double_free"},
                {"overwrite", "double_free", "stale_free"}, {"overwrite", "no_memory"}}
MCNoMemory  == {{"no_memory"}}

\* No definition tells one buffer from another, and no property is a liveness
\* property: permuted states behave alike.
Symmetry == Permutations(Buffers)
=============================================================================
