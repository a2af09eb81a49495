-------------------------- MODULE RuntimeContract --------------------------
(***************************************************************************)
(* What the handlers of a run rely on when they iterate over               *)
(* AgentRuntimeService.run_analysis: events come one after the other; the  *)
(* event after which the iteration ends is the one that derives the run's  *)
(* status; without such an event the iteration ends only by an exception,  *)
(* or because the handler itself stops listening.                          *)
(***************************************************************************)

VARIABLES
    said,      \* the kind of the latest event
    outcome    \* how the iteration stands

Deciding == {"run_completed", "run_failed", "awaiting_user"}

Init == said = "nothing" /\ outcome = "running"

Say ==
    /\ outcome = "running"
    /\ said \notin Deciding
    /\ said' \in {"step"} \cup Deciding
    /\ UNCHANGED outcome

Return ==
    /\ outcome = "running"
    /\ said \in Deciding
    /\ outcome' = "returned"
    /\ UNCHANGED said

Raise ==
    /\ outcome = "running"
    /\ said \notin Deciding
    /\ outcome' = "raised"
    /\ UNCHANGED said

Abandon ==
    /\ outcome = "running"
    /\ outcome' = "abandoned"
    /\ UNCHANGED said

Next == Say \/ Return \/ Raise \/ Abandon

Spec == Init /\ [][Next]_<<said, outcome>>
=============================================================================
