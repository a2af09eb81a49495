---------------------------- MODULE MCEventReplay ----------------------------
(* EventReplay bounded by what each reader can tell apart: a page is computed  *)
(* from the messages alone, and what a client or a sharer reads does not        *)
(* depend on the times of the messages.                                        *)
EXTENDS EventReplay

Focus ==
    IF reader = "pager"
    THEN \A r \in Turns : runStatus[r] = "none"
    ELSE clock = 1 /\ Cardinality({r \in Turns : created[r] > 0}) <= 2
=============================================================================
