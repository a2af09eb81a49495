---------------------------- MODULE AgentService ----------------------------
(***************************************************************************)
(* AgentRuntimeService (server-agent/app/agent/service.py) and the handler *)
(* that iterates over it: with a language model the run is a ReactRuntime, *)
(* without one it is the phase-1 pipeline.  When the iteration has ended   *)
(* the handler derives the status of the run from the last event and makes *)
(* the export file the events ask for.                                     *)
(***************************************************************************)
EXTENDS AgentTools, FiniteSets

CONSTANTS
    Names, Inputs, HasSummaryMemory, Hits, MaxChunks, MaxSteps, MaxToolCalls,
    MaxKnowledgeSearches, MaxActionsPerStep, MaxPromptDocuments, Permissions

VARIABLES
    pc, last, outcome, brackets, plan,                    \* both runtimes
    step, actions, toolCalls, observations, searches, retrieved, missing,
    refused, finalRequested, thinking, text, chunks, prompt,    \* ReactRuntime
    runStatus, tool,                                      \* Phase1Pipeline
    runtime,                                              \* which of them runs
    handler,      \* iterating, settled (the export is still to do) or done
    status,       \* the status given to the run
    export        \* the export event of the run: none, created or failed

React == INSTANCE ReactRuntime
Phase1 == INSTANCE Phase1Pipeline WITH ToolInputs <- {"none"}

ASSUME BudgetsAssumption == React!BudgetsOK

shared == <<pc, last, outcome, brackets, plan>>
reactOnly == <<step, actions, toolCalls, observations, searches, retrieved,
               missing, refused, finalRequested, thinking, text, chunks, prompt>>
phase1Only == <<runStatus, tool>>
runtimeVars == <<shared, reactOnly, phase1Only>>
handlerVars == <<runtime, handler, status, export>>
vars == <<runtimeVars, handlerVars>>

TypeOK ==
    /\ runtime = "react" => React!ReactTypeOK
    /\ runtime = "phase1" => Phase1!PipelineTypeOK
    /\ outcome \in {"running", "returned", "raised", "abandoned"}
    /\ plan \in {"none"} \cup ExportFormats
    /\ handler \in {"iterating", "settled", "done"}
    /\ status \in {"running", "completed", "failed", "cancelled", "awaiting_user"}
    /\ export \in {"none", "created", "failed"}

\* The constructor: build_llm_client gives a client if the settings enable one
\* and name a key.
Init ==
    /\ React!ReactInit
    /\ runStatus = "created"
    /\ tool = 0
    /\ runtime \in {"react", "phase1"}
    /\ handler = "iterating"
    /\ status = "running"
    /\ export = "none"

---------------------------------------------------------------------------

\* run_analysis hands on the events of the runtime it was given.
Iterate ==
    /\ UNCHANGED handlerVars
    /\ \/ /\ runtime = "react"
          /\ React!ReactProgress
          /\ UNCHANGED phase1Only
       \/ /\ runtime = "phase1"
          /\ Phase1!PipelineProgress
          /\ UNCHANGED reactOnly

\* The handler stops listening, or is itself cancelled.
StopListening ==
    /\ UNCHANGED handlerVars
    /\ \/ runtime = "react" /\ React!Abandon /\ UNCHANGED phase1Only
       \/ /\ runtime = "phase1"
          /\ Phase1!Abandon
          /\ UNCHANGED reactOnly

\* derive_run_status of the events.
StatusOf(type) ==
    CASE type = "run_completed" -> "completed"
      [] type = "awaiting_user" -> "awaiting_user"
      [] OTHER                  -> "failed"

Settle ==
    /\ handler = "iterating"
    /\ outcome = "returned"
    /\ status' = StatusOf(last)
    /\ handler' = "settled"
    /\ UNCHANGED <<runtimeVars, runtime, export>>

\* except Exception: run_failed is recorded, and nothing else is done.
SettleFailed ==
    /\ handler = "iterating"
    /\ outcome = "raised"
    /\ status' = "failed"
    /\ handler' = "done"
    /\ UNCHANGED <<runtimeVars, runtime, export>>

SettleCancelled ==
    /\ handler = "iterating"
    /\ outcome = "abandoned"
    /\ status' = "cancelled"
    /\ handler' = "done"
    /\ UNCHANGED <<runtimeVars, runtime, export>>

\* _create_export_events_if_requested: whatever the status, if there is a plan.
MakeExport ==
    /\ handler = "settled"
    /\ handler' = "done"
    /\ export' \in IF plan = "none" THEN {"none"} ELSE {"created", "failed"}
    /\ UNCHANGED <<runtimeVars, runtime, status>>

\* The cancel endpoint, which found the run current: its complete_run looks at
\* nothing, so it lands whatever the handler has done since.
CancelRun ==
    /\ status # "cancelled"
    /\ status' = "cancelled"
    /\ UNCHANGED <<runtimeVars, runtime, handler, export>>

Next ==
    \/ Iterate \/ StopListening
    \/ Settle \/ SettleFailed \/ SettleCancelled \/ MakeExport
    \/ CancelRun

Spec == Init /\ [][Next]_vars

\* Model, retriever and tool calls return or time out (60 s and 8 s), so the
\* iteration goes on as long as the handler asks for events.
FairSpec == Spec /\ WF_vars(Iterate \/ Settle \/ SettleFailed \/ SettleCancelled
                            \/ MakeExport)

---------------------------------------------------------------------------
(* Properties *)

\* What the handler has been told: a question of the ReAct runtime is a step
\* like any other, the question of the pipeline is its end.
Said ==
    IF last = "none" THEN "nothing"
    ELSE IF last \in {"run_completed", "run_failed"} THEN last
    ELSE IF last = "awaiting_user" /\ runtime = "phase1" THEN last
    ELSE "step"

Contract == INSTANCE RuntimeContract WITH said <- Said

\* Both runtimes keep the contract the handlers of RunLifecycle are written
\* against: one deciding event, last, or an exception and none.
ImplementsContract == Contract!Spec

\* A completion or a failure event always answers the innermost open start, and
\* a run that returns has answered them all, tool failures included.
EventsAreBracketed ==
    /\ \A i \in DOMAIN brackets : brackets[i] # "stray"
    /\ outcome = "returned" => brackets = <<>>

\* However the model batches its calls, no more are made than the budget, and
\* the final prompt says so exactly when one was refused.
RefusalsAreReported ==
    /\ Len(toolCalls) <= MaxToolCalls
    /\ prompt # React!NoPrompt =>
          (refused > 0 <=> "tools" \in prompt.missing)

\* An export file is made only behind an iteration that ended in an answer or
\* in a question: the export tool is the last one the pipeline runs, so no later
\* tool can fail.  The run is then shown with that end, or as cancelled by a
\* request that came in between (sessions.py lines 1365-1386).
ExportFollowsSuccess ==
    export # "none" =>
        /\ last \in {"run_completed", "awaiting_user"}
        /\ status \in {StatusOf(last), "cancelled"}

\* A run that is neither cancelled nor left by its client gets a status.
EveryRunIsHandled == <>(handler = "done")

\* 07-react-orchestration: when a tool fails the batch goes on, and the final
\* answer explains the failure, so the final prompt has to speak of it.
FailureIsExplained ==
    Len(prompt.toolCalls) > Len(prompt.observations) => prompt.missing # {}
=============================================================================
