---------------------------- MODULE ReactRuntime ----------------------------
(***************************************************************************)
(* ReactRuntime.run (server-agent/app/react/runtime.py): the language      *)
(* model chooses actions step by step, the runtime carries them out within *)
(* its budgets, then streams a final answer.  run is an async generator:   *)
(* every yield hands one event to the handler and may be the last one it   *)
(* asks for, and every await of the model, the retriever or a tool may     *)
(* raise.  One action below is the code from one yield to the next.        *)
(***************************************************************************)
EXTENDS AgentTools, FiniteSets

CONSTANTS
    Names,                 \* tool names the model gives, registered or not
    Inputs,                \* values it gives for the format of an export
    HasSummaryMemory,      \* whether accepted summary memories were recalled
    Hits,                  \* how many documents a search may find
    MaxChunks,             \* bound: chunks of one model stream
    MaxSteps, MaxToolCalls, MaxKnowledgeSearches, MaxActionsPerStep,
    MaxPromptDocuments     \* documents[:5] of the prompts

BudgetsOK ==
    /\ MaxSteps \in Nat \ {0}
    /\ MaxActionsPerStep \in Nat \ {0}
    /\ {MaxToolCalls, MaxKnowledgeSearches, MaxPromptDocuments, MaxChunks} \subseteq Nat
    /\ Hits \subseteq Nat
    /\ HasSummaryMemory \in BOOLEAN

VARIABLES
    pc,              \* where the generator is
    last,            \* type of the event it yielded last
    outcome,         \* running, returned, raised or abandoned
    brackets,        \* the ..._started events not yet answered, innermost first
    plan,            \* the export plan found in the events so far
    step,            \* number of the current step
    actions,         \* the actions of this step still to do
    toolCalls,       \* names of the calls made
    observations,    \* names of the calls that returned
    searches,        \* knowledge_search_count
    retrieved,       \* per document retrieved, the search that found it
    missing,         \* missing_information: what was asked, what ran out
    refused,         \* how many tool calls the budget refused (history)
    finalRequested,
    thinking,        \* thinking_started
    text,            \* whether any content has been streamed
    chunks,          \* chunks of the current stream so far
    prompt           \* what the final prompt says: empty until it is built

loopVars == <<step, actions, toolCalls, observations, searches, retrieved,
              missing, refused, finalRequested>>
streamVars == <<thinking, text, chunks>>
reactVars == <<pc, last, outcome, brackets, plan, loopVars, streamVars, prompt>>

---------------------------------------------------------------------------

Choices == {"final_answer", "ask_user", "memory_search", "knowledge_search"}

\* ReactSingleAction: a choice that is no search and no answer is a tool call,
\* and then tool_name is not empty.
SingleAction == Choices \cup Names

NoPrompt == [observations |-> <<>>, documents |-> {}, toolCalls |-> <<>>,
             missing |-> {}]

\* Brackets of the event types: what a completion or a failure answers.
Opens(type) ==
    CASE type = "llm_step_started"         -> "step"
      [] type = "llm_thinking_started"     -> "thinking"
      [] type = "knowledge_search_started" -> "search"
      [] type = "tool_started"             -> "tool"
      [] type = "final_answer_started"     -> "answer"
      [] OTHER                             -> "none"

Closes(type) ==
    CASE type = "llm_step_completed"            -> "step"
      [] type = "llm_thinking_completed"        -> "thinking"
      [] type = "knowledge_search_completed"    -> "search"
      [] type \in {"tool_completed", "tool_failed"} -> "tool"
      [] type = "final_answer_completed"        -> "answer"
      [] OTHER                                  -> "none"

\* `yield event(type, ...)`: the reader matches starts and completions; a
\* completion that answers nothing is kept as "stray".
Yield(type) ==
    /\ last' = type
    /\ brackets' =
          IF Opens(type) # "none" THEN <<Opens(type)>> \o brackets
          ELSE IF Closes(type) = "none" THEN brackets
          ELSE IF brackets # <<>> /\ Head(brackets) = Closes(type)
               THEN Tail(brackets)
          ELSE <<"stray">> \o brackets

Silent == UNCHANGED <<last, brackets>>

At(label) == outcome = "running" /\ pc = label

Goto(label) == pc' = label /\ UNCHANGED outcome

ReactTypeOK ==
    /\ step \in 0..MaxSteps
    /\ actions \in Seq(SingleAction) /\ Len(actions) <= MaxActionsPerStep
    /\ toolCalls \in Seq(Names)
    /\ observations \in Seq(Names)
    /\ searches \in 0..MaxKnowledgeSearches
    /\ retrieved \in Seq(1..MaxKnowledgeSearches)
    /\ missing \subseteq {"user", "searches", "tools"}
    /\ refused \in Nat
    /\ chunks \in 0..MaxChunks
    /\ {finalRequested, thinking, text} \subseteq BOOLEAN
    /\ prompt.missing \subseteq missing

\* The values a run starts with.
ReactInit ==
    /\ pc = "begin"
    /\ last = "none"
    /\ outcome = "running"
    /\ brackets = <<>>
    /\ plan = "none"
    /\ step = 0
    /\ actions = <<>>
    /\ toolCalls = <<>>
    /\ observations = <<>>
    /\ searches = 0
    /\ retrieved = <<>>
    /\ missing = {}
    /\ refused = 0
    /\ finalRequested = FALSE
    /\ thinking = FALSE
    /\ text = FALSE
    /\ chunks = 0
    /\ prompt = NoPrompt

---------------------------------------------------------------------------
(* Before the loop *)

RunStarted ==
    /\ At("begin")
    /\ Yield("run_started")
    /\ Goto("context")
    /\ UNCHANGED <<plan, loopVars, streamVars, prompt>>

ContextBuilt ==
    /\ At("context")
    /\ Yield("context_built")
    /\ Goto(IF HasSummaryMemory THEN "summary" ELSE "step")
    /\ UNCHANGED <<plan, loopVars, streamVars, prompt>>

SummaryLoaded ==
    /\ At("summary")
    /\ Yield("memory_search_completed")
    /\ Goto("step")
    /\ UNCHANGED <<plan, loopVars, streamVars, prompt>>

---------------------------------------------------------------------------
(* A step: the model is asked, its stream is passed on *)

StartStep ==
    /\ At("step")
    /\ step < MaxSteps
    /\ step' = step + 1
    /\ thinking' = FALSE /\ text' = FALSE /\ chunks' = 0
    /\ Yield("llm_step_started")
    /\ Goto("stream")
    /\ UNCHANGED <<plan, actions, toolCalls, observations, searches, retrieved,
                   missing, refused, finalRequested, prompt>>

\* Lines of the stream without a delta give no chunk (_iter_sse_chunks).  The
\* first reasoning chunk is announced before it is passed on.
ThinkingStarted ==
    /\ At("stream")
    /\ chunks < MaxChunks
    /\ ~thinking
    /\ thinking' = TRUE
    /\ Yield("llm_thinking_started")
    /\ Goto("thought")
    /\ UNCHANGED <<plan, loopVars, text, chunks, prompt>>

ThinkingDelta ==
    /\ \/ At("thought")
       \/ At("stream") /\ thinking /\ chunks < MaxChunks
    /\ chunks' = chunks + 1
    /\ Yield("llm_thinking_delta")
    /\ Goto("stream")
    /\ UNCHANGED <<plan, loopVars, thinking, text, prompt>>

ActionDelta ==
    /\ At("stream")
    /\ chunks < MaxChunks
    /\ chunks' = chunks + 1
    /\ text' = TRUE
    /\ Yield("action_text_delta")
    /\ Goto("stream")
    /\ UNCHANGED <<plan, loopVars, thinking, prompt>>

\* Mutant of StreamEnds: the end of the thinking is not announced.
StreamEnds_silent ==
    /\ At("stream")
    /\ Silent
    /\ Goto("parse")
    /\ UNCHANGED <<plan, loopVars, streamVars, prompt>>

\* The stream ends, at [DONE] or because the connection was closed.
StreamEnds ==
    /\ At("stream")
    /\ IF thinking THEN Yield("llm_thinking_completed") ELSE Silent
    /\ Goto("parse")
    /\ UNCHANGED <<plan, loopVars, streamVars, prompt>>

\* What model_validate_json can return: one action, or a list of them.
Batches == UNION {[1..n -> SingleAction] : n \in 1..(MaxActionsPerStep + 1)}

\* step_actions()[:max_actions_per_step].
SelectAction ==
    /\ At("parse")
    /\ text
    /\ \E batch \in Batches :
          actions' = SubSeq(batch, 1, IF Len(batch) < MaxActionsPerStep
                                      THEN Len(batch) ELSE MaxActionsPerStep)
    /\ Yield("action_selected")
    /\ Goto("act")
    /\ UNCHANGED <<plan, step, toolCalls, observations, searches, retrieved,
                   missing, refused, finalRequested, streamVars, prompt>>

---------------------------------------------------------------------------
(* The actions of a step, in order *)

Done(choice) ==
    /\ At("act")
    /\ actions # <<>>
    /\ Head(actions) = choice

\* final_answer: the rest of the batch is dropped.
FinalAnswer ==
    /\ Done("final_answer")
    /\ finalRequested' = TRUE
    /\ actions' = <<>>
    /\ Silent
    /\ Goto("act")
    /\ UNCHANGED <<plan, step, toolCalls, observations, searches, retrieved,
                   missing, refused, streamVars, prompt>>

\* ask_user: the question is an event, but the run goes on to its answer.
AskUser ==
    /\ Done("ask_user")
    /\ missing' = missing \cup {"user"}
    /\ finalRequested' = TRUE
    /\ actions' = <<>>
    /\ Yield("awaiting_user")
    /\ Goto("act")
    /\ UNCHANGED <<plan, step, toolCalls, observations, searches, retrieved,
                   refused, streamVars, prompt>>

SearchMemory ==
    /\ Done("memory_search")
    /\ actions' = Tail(actions)
    /\ Yield("memory_search_completed")
    /\ Goto("act")
    /\ UNCHANGED <<plan, step, toolCalls, observations, searches, retrieved,
                   missing, refused, finalRequested, streamVars, prompt>>

\* Out of budget: only missing_information tells.
RefuseSearch ==
    /\ Done("knowledge_search")
    /\ searches >= MaxKnowledgeSearches
    /\ missing' = missing \cup {"searches"}
    /\ actions' = Tail(actions)
    /\ Silent
    /\ Goto("act")
    /\ UNCHANGED <<plan, step, toolCalls, observations, searches, retrieved,
                   refused, finalRequested, streamVars, prompt>>

\* Mutant of StartSearch: one search too many.
StartSearch_offByOne ==
    /\ Done("knowledge_search")
    /\ searches <= MaxKnowledgeSearches
    /\ searches' = searches + 1
    /\ Yield("knowledge_search_started")
    /\ Goto("search")
    /\ UNCHANGED <<plan, step, actions, toolCalls, observations, retrieved,
                   missing, refused, finalRequested, streamVars, prompt>>

StartSearch ==
    /\ Done("knowledge_search")
    /\ searches < MaxKnowledgeSearches
    /\ searches' = searches + 1
    /\ Yield("knowledge_search_started")
    /\ Goto("search")
    /\ UNCHANGED <<plan, step, actions, toolCalls, observations, retrieved,
                   missing, refused, finalRequested, streamVars, prompt>>

\* QdrantRetriever: three domain documents and two cases at most; a missing
\* collection finds nothing.
FoundDocuments == {[i \in 1..n |-> searches] : n \in Hits}

CompleteSearch ==
    /\ At("search")
    /\ \E documents \in FoundDocuments : retrieved' = retrieved \o documents
    /\ actions' = Tail(actions)
    /\ Yield("knowledge_search_completed")
    /\ Goto("act")
    /\ UNCHANGED <<plan, step, toolCalls, observations, searches, missing,
                   refused, finalRequested, streamVars, prompt>>

\* Mutant of RefuseTool: the refused call is not mentioned.
RefuseTool_silent ==
    /\ At("act")
    /\ actions # <<>>
    /\ Head(actions) \in Names
    /\ Len(toolCalls) >= MaxToolCalls
    /\ refused' = refused + 1
    /\ actions' = Tail(actions)
    /\ Silent
    /\ Goto("act")
    /\ UNCHANGED <<plan, step, toolCalls, observations, searches, retrieved,
                   missing, finalRequested, streamVars, prompt>>

\* tool_call_count is the length of tool_calls.
RefuseTool ==
    /\ At("act")
    /\ actions # <<>>
    /\ Head(actions) \in Names
    /\ Len(toolCalls) >= MaxToolCalls
    /\ missing' = missing \cup {"tools"}
    /\ refused' = refused + 1
    /\ actions' = Tail(actions)
    /\ Silent
    /\ Goto("act")
    /\ UNCHANGED <<plan, step, toolCalls, observations, searches, retrieved,
                   finalRequested, streamVars, prompt>>

\* The call is counted before it is made.
StartTool ==
    /\ At("act")
    /\ actions # <<>>
    /\ Head(actions) \in Names
    /\ Len(toolCalls) < MaxToolCalls
    /\ toolCalls' = Append(toolCalls, Head(actions))
    /\ Yield("tool_started")
    /\ Goto("tool")
    /\ UNCHANGED <<plan, step, actions, observations, searches, retrieved,
                   missing, refused, finalRequested, streamVars, prompt>>

CompleteTool ==
    /\ At("tool")
    /\ MayReturn(Head(actions))
    /\ observations' = Append(observations, Head(actions))
    /\ \E input \in Inputs : plan' = LatestPlan(plan, Head(actions), input)
    /\ actions' = Tail(actions)
    /\ Yield("tool_completed")
    /\ Goto("act")
    /\ UNCHANGED <<step, toolCalls, searches, retrieved, missing, refused,
                   finalRequested, streamVars, prompt>>

\* except Exception: an event says so, neither observations nor
\* missing_information does, and the batch goes on.
FailTool ==
    /\ At("tool")
    /\ MayRaise(Head(actions))
    /\ actions' = Tail(actions)
    /\ Yield("tool_failed")
    /\ Goto("act")
    /\ UNCHANGED <<plan, step, toolCalls, observations, searches, retrieved,
                   missing, refused, finalRequested, streamVars, prompt>>

\* Mutant of CompleteStep: the last step does not end the loop.
CompleteStep_unbounded ==
    /\ At("act")
    /\ actions = <<>>
    /\ Yield("llm_step_completed")
    /\ Goto(IF finalRequested THEN "answer" ELSE "step")
    /\ UNCHANGED <<plan, loopVars, streamVars, prompt>>

CompleteStep ==
    /\ At("act")
    /\ actions = <<>>
    /\ Yield("llm_step_completed")
    /\ Goto(IF finalRequested \/ step = MaxSteps THEN "answer" ELSE "step")
    /\ UNCHANGED <<plan, loopVars, streamVars, prompt>>

---------------------------------------------------------------------------
(* The final answer *)

\* _compact_observations: each is shown, its facts and raw payload in short.
ShownObservations == observations

\* _compact_knowledge: the first few documents, of whichever search.
ShownDocuments == {i \in DOMAIN retrieved : i <= MaxPromptDocuments}

\* build_final_prompt.
StartAnswer ==
    /\ At("answer")
    /\ prompt' = [observations |-> ShownObservations,
                  documents |-> ShownDocuments,
                  toolCalls |-> toolCalls,
                  missing |-> missing]
    /\ thinking' = FALSE /\ text' = FALSE /\ chunks' = 0
    /\ Yield("final_answer_started")
    /\ Goto("answering")
    /\ UNCHANGED <<plan, loopVars>>

\* Only content is passed on.
AnswerDelta ==
    /\ At("answering")
    /\ chunks < MaxChunks
    /\ chunks' = chunks + 1
    /\ text' = TRUE
    /\ Yield("final_answer_delta")
    /\ Goto("answering")
    /\ UNCHANGED <<plan, loopVars, thinking, prompt>>

\* The stream ends; an empty answer is an answer.
Recommend ==
    /\ At("answering")
    /\ Yield("recommendation_generated")
    /\ Goto("recommended")
    /\ UNCHANGED <<plan, loopVars, streamVars, prompt>>

AnswerCompleted ==
    /\ At("recommended")
    /\ Yield("final_answer_completed")
    /\ Goto("completed")
    /\ UNCHANGED <<plan, loopVars, streamVars, prompt>>

RunCompleted ==
    /\ At("completed")
    /\ Yield("run_completed")
    /\ Goto("end")
    /\ UNCHANGED <<plan, loopVars, streamVars, prompt>>

Returned ==
    /\ At("end")
    /\ outcome' = "returned"
    /\ UNCHANGED <<pc, last, brackets, plan, loopVars, streamVars, prompt>>

---------------------------------------------------------------------------
(* The ways out *)

\* The model (HTTP status, timeout, a line that is no JSON), an action that does
\* not validate, or the retriever.
Raise ==
    /\ outcome = "running"
    /\ pc \in {"stream", "parse", "search", "answering"}
    /\ outcome' = "raised"
    /\ UNCHANGED <<pc, last, brackets, plan, loopVars, streamVars, prompt>>

\* The handler stops iterating at a yield (cancel flag, disconnect) or is
\* itself cancelled during an await.
Abandon ==
    /\ outcome = "running"
    /\ outcome' = "abandoned"
    /\ UNCHANGED <<pc, last, brackets, plan, loopVars, streamVars, prompt>>

CarryOut ==
    \/ FinalAnswer \/ AskUser \/ SearchMemory
    \/ RefuseSearch \/ StartSearch \/ CompleteSearch
    \/ RefuseTool \/ StartTool \/ CompleteTool \/ FailTool

ReactProgress ==
    \/ RunStarted \/ ContextBuilt \/ SummaryLoaded
    \/ StartStep \/ ThinkingStarted \/ ThinkingDelta \/ ActionDelta \/ StreamEnds
    \/ SelectAction \/ CarryOut \/ CompleteStep
    \/ StartAnswer \/ AnswerDelta \/ Recommend \/ AnswerCompleted \/ RunCompleted
    \/ Returned \/ Raise

ReactNext == ReactProgress \/ Abandon

ReactSpec == ReactInit /\ [][ReactNext]_reactVars
=============================================================================
