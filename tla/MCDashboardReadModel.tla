------------------------ MODULE MCDashboardReadModel ------------------------
(***************************************************************************)
(* Small instances of DashboardReadModel for TLC: one district, whose four *)
(* scopes have rows of their own, and one sensor.                          *)
(***************************************************************************)
EXTENDS DashboardReadModel, TLC
CONSTANTS i1, i2, s1, s2, v1, v2, r1, r2
OnlyMetrics == SubSeq(RefreshAllOrder, 1, 1)
TwoModels == SubSeq(RefreshAllOrder, 1, 2)
ReaderSymmetry == Permutations(Readers)
OneArea == {370102}
\* The sensor is there from the start, and a refresh that fails takes the place of one
\* of the summaries that are asked for.
Focus == (\A s \in Sensors : sensor[s] # None) /\ calls + failures <= MaxCalls
=============================================================================
