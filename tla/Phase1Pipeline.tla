--------------------------- MODULE Phase1Pipeline ---------------------------
(***************************************************************************)
(* AgentOrchestrator.run (server-agent/app/runtime/orchestrator.py), used  *)
(* when no language model is configured: five nodes in a fixed order.  A   *)
(* node sets the status of the run, and the orchestrator says what that    *)
(* status calls for; after the planner it also runs every tool the caller  *)
(* is permitted, and the retriever.                                        *)
(***************************************************************************)
EXTENDS AgentTools

CONSTANTS
    Permissions,   \* the permissions passed to run
    ToolInputs     \* what an export tool may read as its format

VARIABLES
    pc,            \* the node or the yield the generator is at
    last,          \* type of the event it yielded last
    outcome,       \* running, returned, raised or abandoned
    brackets,      \* tool_started events not yet answered
    plan,          \* the export plan found in the events so far
    runStatus,     \* AgentState.run.status, and AgentState.status with it
    tool           \* place in the registry of the tool run last, 0: none yet

pipelineVars == <<pc, last, outcome, brackets, plan, runStatus, tool>>

RunTools == AvailableTools(Permissions)

\* The tools still to come, and the one being run.
Remaining == {i \in RunTools : i > tool}
CurrentTool == Registry[tool][1]

\* The statuses the nodes give, in the order of build_phase1_graph.
NodeStatuses == <<"understanding", "context_building", "planning", "reasoning",
                  "awaiting_user">>

PipelineTypeOK ==
    /\ runStatus \in {"created"} \cup {NodeStatuses[i] : i \in DOMAIN NodeStatuses}
    /\ tool \in {0} \cup RunTools

PipelineInit ==
    /\ pc = "begin"
    /\ last = "none"
    /\ outcome = "running"
    /\ brackets = <<>>
    /\ plan = "none"
    /\ runStatus = "created"
    /\ tool = 0

Yield(type) == last' = type

At(label) == outcome = "running" /\ pc = label

Goto(label) == pc' = label /\ UNCHANGED outcome

---------------------------------------------------------------------------

StartAnalysis ==
    /\ At("begin")
    /\ Yield("run_started")
    /\ Goto("node")
    /\ UNCHANGED <<brackets, plan, runStatus, tool>>

\* RuntimeGraph.run: the next node sets run.status, which sets state.status.
RunNode(status) ==
    /\ At("node")
    /\ \E i \in DOMAIN NodeStatuses :
          /\ NodeStatuses[i] = status
          /\ runStatus = IF i = 1 THEN "created" ELSE NodeStatuses[i - 1]
    /\ runStatus' = status

Understand ==
    /\ RunNode("understanding")
    /\ Yield("understanding_completed")
    /\ Goto("node")
    /\ UNCHANGED <<brackets, plan, tool>>

BuildContext ==
    /\ RunNode("context_building")
    /\ Yield("context_completed")
    /\ Goto("node")
    /\ UNCHANGED <<brackets, plan, tool>>

Plan ==
    /\ RunNode("planning")
    /\ Yield("plan_created")
    /\ Goto("tools")
    /\ UNCHANGED <<brackets, plan, tool>>

\* The next of the available tools, in the order of registration.
StartTool ==
    /\ At("tools")
    /\ tool' \in Remaining
    /\ \A i \in Remaining : tool' <= i
    /\ Yield("tool_started")
    /\ brackets' = <<"tool">>
    /\ Goto("tool")
    /\ UNCHANGED <<plan, runStatus>>

CompleteTool ==
    /\ At("tool")
    /\ MayReturn(CurrentTool)
    /\ \E input \in ToolInputs : plan' = LatestPlan(plan, CurrentTool, input)
    /\ Yield("tool_completed")
    /\ brackets' = <<>>
    /\ Goto("tools")
    /\ UNCHANGED <<runStatus, tool>>

FailTool ==
    /\ At("tool")
    /\ MayRaise(CurrentTool)
    /\ Yield("tool_failed")
    /\ brackets' = <<>>
    /\ Goto("toolFailed")
    /\ UNCHANGED <<plan, runStatus, tool>>

\* Mutant of RunFailed: the generator goes on with the retrieval.
RunFailed_goesOn ==
    /\ At("toolFailed")
    /\ Yield("run_failed")
    /\ tool' = Len(Registry)
    /\ Goto("tools")
    /\ UNCHANGED <<brackets, plan, runStatus>>

RunFailed ==
    /\ At("toolFailed")
    /\ Yield("run_failed")
    /\ Goto("end")
    /\ UNCHANGED <<brackets, plan, runStatus, tool>>

Retrieve ==
    /\ At("tools")
    /\ Remaining = {}
    /\ Yield("retrieval_completed")
    /\ Goto("node")
    /\ UNCHANGED <<brackets, plan, runStatus, tool>>

\* reasoner_node without a language model.
Reason ==
    /\ RunNode("reasoning")
    /\ Yield("reasoning_completed")
    /\ Goto("reasoned")
    /\ UNCHANGED <<brackets, plan, tool>>

Recommend ==
    /\ At("reasoned")
    /\ Yield("recommendation_generated")
    /\ Goto("node")
    /\ UNCHANGED <<brackets, plan, runStatus, tool>>

\* memory_writer_node.
AwaitUser ==
    /\ RunNode("awaiting_user")
    /\ Yield("awaiting_user")
    /\ Goto("end")
    /\ UNCHANGED <<brackets, plan, tool>>

Returned ==
    /\ At("end")
    /\ outcome' = "returned"
    /\ UNCHANGED <<pc, last, brackets, plan, runStatus, tool>>

\* The retriever is the only call whose exception escapes.
Raise ==
    /\ At("tools")
    /\ Remaining = {}
    /\ outcome' = "raised"
    /\ UNCHANGED <<pc, last, brackets, plan, runStatus, tool>>

Abandon ==
    /\ outcome = "running"
    /\ outcome' = "abandoned"
    /\ UNCHANGED <<pc, last, brackets, plan, runStatus, tool>>

PipelineProgress ==
    \/ StartAnalysis \/ Understand \/ BuildContext \/ Plan
    \/ StartTool \/ CompleteTool \/ FailTool \/ RunFailed
    \/ Retrieve \/ Reason \/ Recommend \/ AwaitUser \/ Returned \/ Raise

PipelineNext == PipelineProgress \/ Abandon

PipelineSpec == PipelineInit /\ [][PipelineNext]_pipelineVars
=============================================================================
