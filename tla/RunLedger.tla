------------------------------ MODULE RunLedger ------------------------------
(***************************************************************************)
(* What the store promises about runs to everyone who reads it, without    *)
(* the handlers: each run has a status and a set of recorded facts, and a  *)
(* terminal status is only ever given to a run together with, or after,    *)
(* the fact behind it.  Nothing is promised about the order of statuses: a *)
(* run may be started again, or settled twice.  The database               *)
(* (RunLifecycle) and the dictionaries (InMemoryRuns) both implement it.   *)
(***************************************************************************)
CONSTANT Runs

VARIABLES
    status,    \* what a reader of the run row sees
    evidence   \* per run, the outcomes recorded in the log or by a cancel flag

Outcomes == {"completed", "failed", "cancelled", "awaiting_user"}

Live(r) == status[r] \notin {"none", "deleted"}

Init ==
    /\ status = [r \in Runs |-> "none"]
    /\ evidence = [r \in Runs |-> {}]

Create(r) ==
    /\ status[r] = "none"
    /\ status' = [status EXCEPT ![r] = "created"]
    /\ UNCHANGED evidence

Start(r) ==
    /\ Live(r)
    /\ status' = [status EXCEPT ![r] = "running"]
    /\ UNCHANGED evidence

Record(r, outcome) ==
    /\ status[r] # "none"
    /\ evidence' = [evidence EXCEPT ![r] = @ \cup {outcome}]
    /\ UNCHANGED status

Settle(r, outcome) ==
    /\ Live(r)
    /\ outcome \in evidence[r]
    /\ status' = [status EXCEPT ![r] = outcome]
    /\ UNCHANGED evidence

\* Both at once, in a store where nothing happens between the two.
Decide(r, outcome) ==
    /\ Live(r)
    /\ status' = [status EXCEPT ![r] = outcome]
    /\ evidence' = [evidence EXCEPT ![r] = @ \cup {outcome}]

\* The session goes, and with it its runs and what was recorded of them.
RemoveAll ==
    /\ status' = [r \in Runs |-> IF status[r] = "none" THEN "none" ELSE "deleted"]
    /\ evidence' \in [Runs -> SUBSET Outcomes]
    /\ \A r \in Runs : evidence'[r] \subseteq evidence[r]

Next ==
    \/ \E r \in Runs : Create(r) \/ Start(r)
    \/ \E r \in Runs, outcome \in Outcomes :
          Record(r, outcome) \/ Settle(r, outcome) \/ Decide(r, outcome)
    \/ RemoveAll

Spec == Init /\ [][Next]_<<status, evidence>>

\* The outcome a reader is told is one of those that are recorded.
Grounded == \A r \in Runs : status[r] \in Outcomes => status[r] \in evidence[r]
=============================================================================
