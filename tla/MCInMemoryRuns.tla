---------------------------- MODULE MCInMemoryRuns ----------------------------
(* Two messages and the session's own text; the first and the last share a key. *)
EXTENDS InMemoryRuns, TLC

CONSTANTS r1, r2

MCTextOf ==
    [r \in RunIds |-> CASE r = r1 -> "remember"
                        [] r = r2 -> "policy"
                        [] OTHER  -> "style"]

MCSymmetry == Permutations(Streams)
=============================================================================
