------------------------- MODULE MCPreferenceMemory -------------------------
(* PreferenceMemory on small instances: interchangeable users and executions. *)
EXTENDS PreferenceMemory, TLC

Symmetry == Permutations(Users) \cup Permutations(Streams) \cup Permutations(Accepts)

\* What went into a prompt as summary memory is read by no step, and its type is
\* all that the run claims of it.
View == <<rows, inputs, pc, creation, recalled>>
=============================================================================
