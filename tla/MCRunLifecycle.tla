--------------------------- MODULE MCRunLifecycle ---------------------------
(* RunLifecycle on small instances: interchangeable ids for the safety runs. *)
EXTENDS RunLifecycle, TLC

Symmetry == Permutations(Runs) \cup Permutations(Streams)
            \cup Permutations(Posts) \cup Permutations(Ctls)

\* What an ended handler still holds is read by no step and by no property.
View == <<tables, redis, pc, kind, target,
          [s \in Streams |-> IF pc[s] = "done" THEN <<>> ELSE <<count[s], event[s]>>],
          postPc, ctlPc,
          [c \in Ctls |-> IF ctlPc[c] = "done" THEN <<>>
                                              ELSE <<ctlKind[c], ctlRun[c]>>]>>
=============================================================================
