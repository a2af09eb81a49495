---------------------------- MODULE RunLifecycle ----------------------------
(***************************************************************************)
(* The life of the runs of one persistent virtual-expert session           *)
(* (server-agent, database + redis store).  A run is a row of agent_run    *)
(* that names what the Agent is asked to do; the session row names at most *)
(* one current run.  Independent request handlers work on these rows: one  *)
(* posts a message, one streams a run, one cancels a run or deletes the    *)
(* session.  Every await of a handler is a point where the others run, so  *)
(* each repository or redis call is one step here, and every handler has a *)
(* program counter.  One repository call is one database transaction.      *)
(***************************************************************************)
EXTENDS Naturals, FiniteSets

CONSTANTS
    Runs,       \* run ids the handlers may draw
    NoRun,      \* analysis_current_run_id IS NULL
    Streams,    \* executions of a stream or run endpoint, one use each
    Posts,      \* executions of POST messages, one use each
    Ctls,       \* executions of POST cancel, DELETE or PATCH session, one use each
    Kinds,      \* which executing endpoints clients call
    Faults,     \* what may go wrong around the handlers
    MaxEvents   \* bound: events the runtime yields in one execution

\* The three endpoints that execute a run: GET runs/{id}/stream, GET
\* runs/stream, POST runs.
AllKinds == {"run", "session", "post"}

\* What a configuration may let happen: a client going away, an exception of
\* the database or redis, an exception of the runtime, a process restart.
AllFaults == {"disconnect", "store", "runtime", "crash"}

ASSUME ConstantsAssumption ==
    /\ NoRun \notin Runs
    /\ Kinds \subseteq AllKinds
    /\ Faults \subseteq AllFaults
    /\ MaxEvents \in Nat \ {0}

VARIABLES
    run,        \* agent_run.status, "none" before the row exists
    exists,     \* the analysis_session row is there
    status,     \* its status
    current,    \* its current_run_id
    archived,   \* its archived_at IS NOT NULL
    events,     \* the rows of agent_event
    summaries,  \* the rows of agent_run_summary
    messages,   \* the rows of agent_message
    cancelled,  \* redis keys agent:run:{id}:cancel
    lastSeq,    \* redis key agent:session:{id}:last_seq
    pc,         \* where each execution is
    kind,       \* the endpoint it executes
    target,     \* its run
    count,      \* runtime events it has persisted
    event,      \* the runtime event in its hand, or the last it persisted
    postPc,     \* where each POST messages is
    ctlPc,      \* where each cancel, delete or patch is
    ctlKind,    \* cancel or delete (a patch is one step)
    ctlRun      \* the run it read or was given

session == <<exists, status, current, archived>>
tables == <<run, session, events, summaries, messages>>
redis == <<cancelled, lastSeq>>
streamVars == <<pc, kind, target, count, event>>
ctlVars == <<ctlPc, ctlKind, ctlRun>>
vars == <<tables, redis, streamVars, postPc, ctlVars>>

---------------------------------------------------------------------------
(* Types of rows and statuses *)

Terminal == {"completed", "failed", "cancelled", "awaiting_user"}
Active == {"created", "running"}
RunStatus == {"none", "deleted"} \cup Active \cup Terminal
SessionStatus == {"created", "running", "archived"} \cup Terminal

TerminalEvents == {"run_completed", "run_failed", "awaiting_user"}
RuntimeEvents == {"step"} \cup TerminalEvents

\* late: the row was written by the runtime loop after the run's cancel flag
\* was already set (a history field, no code reads it).
EventRow == [run : Runs, by : Streams, seq : Nat,
             type : RuntimeEvents \cup {"export_created"}, late : BOOLEAN]
SummaryRow == [run : Runs, by : Streams]
MessageRow == [role : {"user"}, by : Posts]
              \cup [role : {"assistant"}, by : Streams, run : Runs]

\* Where an execution is.  "prep" and "ready" are before the try block of the
\* stream generators, "loop", "append" and "remember" inside it.
TryBlock == {"loop", "append", "remember"}
Cleanup == {"cleanFlag", "cleanRun", "cleanSession"}
OutsideTry == {"create", "prep", "ready", "cancelling", "failing", "failed",
               "finish", "summary", "answer", "export", "exported"} \cup Cleanup
StreamPc == {"idle", "done"} \cup TryBlock \cup OutsideTry

TypeOK ==
    /\ run \in [Runs -> RunStatus]
    /\ exists \in BOOLEAN
    /\ status \in SessionStatus
    /\ current \in Runs \cup {NoRun}
    /\ archived \in BOOLEAN
    /\ events \subseteq EventRow
    /\ summaries \subseteq SummaryRow
    /\ messages \subseteq MessageRow
    /\ cancelled \subseteq Runs
    /\ lastSeq \in Nat
    /\ pc \in [Streams -> StreamPc]
    /\ kind \in [Streams -> AllKinds]
    /\ target \in [Streams -> Runs \cup {NoRun}]
    /\ count \in [Streams -> Nat]
    /\ event \in [Streams -> RuntimeEvents]
    /\ postPc \in [Posts -> {"idle", "checked", "saved", "done"}]
    /\ ctlPc \in [Ctls -> {"idle", "flag", "apply", "done"}]
    /\ ctlKind \in [Ctls -> {"cancel", "delete"}]
    /\ ctlRun \in [Ctls -> Runs \cup {NoRun}]

\* POST /sessions has made the session row; nothing else has happened.
Init ==
    /\ run = [r \in Runs |-> "none"]
    /\ exists = TRUE
    /\ status = "created"
    /\ current = NoRun
    /\ archived = FALSE
    /\ events = {}
    /\ summaries = {}
    /\ messages = {}
    /\ cancelled = {}
    /\ lastSeq = 0
    /\ pc = [s \in Streams |-> "idle"]
    /\ kind = [s \in Streams |-> "run"]
    /\ target = [s \in Streams |-> NoRun]
    /\ count = [s \in Streams |-> 0]
    /\ event = [s \in Streams |-> "step"]
    /\ postPc = [p \in Posts |-> "idle"]
    /\ ctlPc = [c \in Ctls |-> "idle"]
    /\ ctlKind = [c \in Ctls |-> "cancel"]
    /\ ctlRun = [c \in Ctls |-> NoRun]

---------------------------------------------------------------------------
(* Repository calls.  Each is one transaction over the run and the session *)
(* row; none of them looks at the status it overwrites.                    *)

\* Mutant of CreateRunRow: the session is not told which run is current.
CreateRunRow_noCurrent(r) ==
    /\ run' = [run EXCEPT ![r] = "created"]
    /\ status' = "running"
    /\ UNCHANGED <<exists, current, archived>>

\* create_run: the foreign key needs the session row.
CreateRunRow(r) ==
    /\ run' = [run EXCEPT ![r] = "created"]
    /\ status' = "running"
    /\ current' = r
    /\ UNCHANGED <<exists, archived>>

\* start_run: no check of the previous status.  Deleting the session deletes
\* its runs, so both rows exist or neither does.
StartRunRow(r) ==
    IF exists
    THEN /\ run' = [run EXCEPT ![r] = "running"]
         /\ status' = "running"
         /\ current' = r
         /\ UNCHANGED <<exists, archived>>
    ELSE UNCHANGED <<run, session>>

\* Mutant of CompleteRunRow: the session keeps pointing at the run.
CompleteRunRow_keepsCurrent(r, outcome) ==
    IF exists
    THEN /\ run' = [run EXCEPT ![r] = outcome]
         /\ status' = outcome
         /\ UNCHANGED <<exists, current, archived>>
    ELSE UNCHANGED <<run, session>>

\* complete_run: whatever run is current, the session is released.
CompleteRunRow(r, outcome) ==
    IF exists
    THEN /\ run' = [run EXCEPT ![r] = outcome]
         /\ status' = outcome
         /\ current' = NoRun
         /\ UNCHANGED <<exists, archived>>
    ELSE UNCHANGED <<run, session>>

\* Mutant of DeriveStatus: an unknown tail counts as success.
DeriveStatus_optimistic(type) ==
    IF type = "awaiting_user" THEN "awaiting_user" ELSE "completed"

\* derive_run_status: the last event decides, anything unknown is a failure.
DeriveStatus(type) ==
    IF type = "run_completed" THEN "completed"
    ELSE IF type = "awaiting_user" THEN "awaiting_user"
    ELSE "failed"

\* Insert one agent_event row for execution s.
Persist(s, seq, type, late) ==
    /\ exists
    /\ events' = events \cup {[run |-> target[s], by |-> s, seq |-> seq,
                               type |-> type, late |-> late]}

\* Mutant of NextOwnSeq: the number of the last row instead of the next one.
NextOwnSeq_last(s) == count[s]

\* The handler keeps a list of its events that begins with model_selected, so
\* the row it adds after count runtime events is numbered count + 2.
NextOwnSeq(s) == count[s] + 2

Goto(s, label) == pc' = [pc EXCEPT ![s] = label]

---------------------------------------------------------------------------
(* POST /sessions/{id}/messages *)

\* get_session and find_active_run.  A run that is created or running means
\* 409 SESSION_RUN_IN_PROGRESS and changes nothing.
CheckNoActiveRun(p) ==
    /\ postPc[p] = "idle"
    /\ exists
    /\ \A r \in Runs : run[r] \notin Active
    /\ postPc' = [postPc EXCEPT ![p] = "checked"]
    /\ UNCHANGED <<tables, redis, streamVars, ctlVars>>

SaveUserMessage(p) ==
    /\ postPc[p] = "checked"
    /\ exists
    /\ messages' = messages \cup {[role |-> "user", by |-> p]}
    /\ postPc' = [postPc EXCEPT ![p] = "saved"]
    /\ UNCHANGED <<run, session, events, summaries, redis, streamVars, ctlVars>>

CreateMessageRun(p) ==
    /\ postPc[p] = "saved"
    /\ exists
    /\ \E r \in Runs : run[r] = "none" /\ CreateRunRow(r)
    /\ postPc' = [postPc EXCEPT ![p] = "done"]
    /\ UNCHANGED <<events, summaries, messages, redis, streamVars, ctlVars>>

\* The store raises, or the foreign key does: the handler ends with a 500.
PostFails(p) ==
    /\ postPc[p] \in {"checked", "saved"}
    /\ "store" \in Faults \/ ~exists
    /\ postPc' = [postPc EXCEPT ![p] = "done"]
    /\ UNCHANGED <<tables, redis, streamVars, ctlVars>>

---------------------------------------------------------------------------
(* Opening an execution: what the endpoint reads decides what it does. *)

\* GET runs/{id}/stream.  A terminal run is replayed (see EventReplay), any
\* other started run is a 409; neither writes, so only "created" is a step.
OpenRunStream(s, r) ==
    /\ "run" \in Kinds
    /\ pc[s] = "idle"
    /\ run[r] = "created"
    /\ Goto(s, "prep")
    /\ kind' = [kind EXCEPT ![s] = "run"]
    /\ target' = [target EXCEPT ![s] = r]
    /\ UNCHANGED <<tables, redis, count, event, postPc, ctlVars>>

\* GET runs/stream: run the current run if it is created, make one if there is
\* none.
OpenSessionStream(s) ==
    /\ "session" \in Kinds
    /\ pc[s] = "idle"
    /\ exists
    /\ \/ /\ current = NoRun
          /\ Goto(s, "create")
       \/ /\ current # NoRun
          /\ run[current] = "created"
          /\ Goto(s, "prep")
    /\ kind' = [kind EXCEPT ![s] = "session"]
    /\ target' = [target EXCEPT ![s] = current]
    /\ UNCHANGED <<tables, redis, count, event, postPc, ctlVars>>

\* POST runs: 409 when the session has a current run.
OpenPostRun(s) ==
    /\ "post" \in Kinds
    /\ pc[s] = "idle"
    /\ exists
    /\ current = NoRun
    /\ Goto(s, "create")
    /\ kind' = [kind EXCEPT ![s] = "post"]
    /\ UNCHANGED <<tables, redis, target, count, event, postPc, ctlVars>>

CreateStreamRun(s) ==
    /\ pc[s] = "create"
    /\ exists
    /\ \E r \in Runs :
          /\ run[r] = "none"
          /\ CreateRunRow(r)
          /\ target' = [target EXCEPT ![s] = r]
    /\ Goto(s, "prep")
    /\ UNCHANGED <<events, summaries, messages, redis, kind, count, event,
                   postPc, ctlVars>>

---------------------------------------------------------------------------
(* Executing a run *)

StartRun(s) ==
    /\ pc[s] = "prep"
    /\ StartRunRow(target[s])
    /\ Goto(s, "ready")
    /\ UNCHANGED <<events, summaries, messages, redis, kind, target, count,
                   event, postPc, ctlVars>>

\* Memories are recalled, the runtime is built and the preparation events are
\* sent; the try block is entered.
EnterLoop(s) ==
    /\ pc[s] = "ready"
    /\ Goto(s, "loop")
    /\ UNCHANGED <<tables, redis, kind, target, count, event, postPc, ctlVars>>

\* What the runtime yields next: after a terminal event, nothing.  Bound
\* MaxEvents.
Offers(s, type) ==
    /\ event[s] = "step"
    /\ count[s] + 1 = MaxEvents => type # "step"

\* Mutant of NextEvent: the cancel flag is not read.
NextEvent_ignoresCancel(s) ==
    /\ pc[s] = "loop"
    /\ \E type \in RuntimeEvents :
          /\ Offers(s, type)
          /\ event' = [event EXCEPT ![s] = type]
          /\ Goto(s, "append")
    /\ UNCHANGED <<tables, redis, kind, target, count, postPc, ctlVars>>

\* One turn of `async for event in service.run_analysis(...)`: the event is
\* dropped when the cancel flag is set.  POST runs never reads the flag.
NextEvent(s) ==
    /\ pc[s] = "loop"
    /\ \E type \in RuntimeEvents :
          /\ Offers(s, type)
          /\ \/ /\ kind[s] # "post"
                /\ target[s] \in cancelled
                /\ Goto(s, "cancelling")
                /\ UNCHANGED event
             \/ /\ kind[s] = "post" \/ target[s] \notin cancelled
                /\ Goto(s, "append")
                /\ event' = [event EXCEPT ![s] = type]
    /\ UNCHANGED <<tables, redis, kind, target, count, postPc, ctlVars>>

AppendEvent(s) ==
    /\ pc[s] = "append"
    /\ Persist(s, count[s] + 1, event[s], target[s] \in cancelled)
    /\ count' = [count EXCEPT ![s] = @ + 1]
    /\ Goto(s, "remember")
    /\ UNCHANGED <<run, session, summaries, messages, redis, kind, target,
                   event, postPc, ctlVars>>

\* Mutant of RememberSeq: the list with model_selected in it gives the number.
RememberSeq_countsList(s) ==
    /\ pc[s] = "remember"
    /\ lastSeq' = count[s] + 1
    /\ Goto(s, "loop")
    /\ UNCHANGED <<tables, cancelled, kind, target, count, event, postPc, ctlVars>>

\* remember_last_seq overwrites whatever is there; then the event is sent.
RememberSeq(s) ==
    /\ pc[s] = "remember"
    /\ lastSeq' = count[s]
    /\ Goto(s, "loop")
    /\ UNCHANGED <<tables, cancelled, kind, target, count, event, postPc, ctlVars>>

\* The runtime has yielded its last event and the loop ends.
LoopEnds(s) ==
    /\ pc[s] = "loop"
    /\ event[s] # "step"
    /\ Goto(s, "finish")
    /\ UNCHANGED <<tables, redis, kind, target, count, event, postPc, ctlVars>>

\* Mutant of FinishRun: the assistant message is written before the summary.
FinishRun_answersFirst(s) ==
    /\ pc[s] = "finish"
    /\ CompleteRunRow(target[s], DeriveStatus(event[s]))
    /\ Goto(s, "answer")
    /\ UNCHANGED <<events, summaries, messages, redis, kind, target, count,
                   event, postPc, ctlVars>>

\* POST runs stops here; a stream goes on with the summary.
FinishRun(s) ==
    /\ pc[s] = "finish"
    /\ CompleteRunRow(target[s], DeriveStatus(event[s]))
    /\ Goto(s, IF kind[s] = "post" THEN "done" ELSE "summary")
    /\ UNCHANGED <<events, summaries, messages, redis, kind, target, count,
                   event, postPc, ctlVars>>

\* create_run_summary.
SaveSummary(s) ==
    /\ pc[s] = "summary"
    /\ exists
    /\ summaries' = summaries \cup {[run |-> target[s], by |-> s]}
    /\ Goto(s, "answer")
    /\ UNCHANGED <<run, session, events, messages, redis, kind, target, count,
                   event, postPc, ctlVars>>

\* create_message(role="assistant", triggered_run_id=run_id).
SaveAnswer(s) ==
    /\ pc[s] = "answer"
    /\ exists
    /\ messages' = messages
          \cup {[role |-> "assistant", by |-> s, run |-> target[s]]}
    /\ Goto(s, "export")
    /\ UNCHANGED <<run, session, events, summaries, redis, kind, target, count,
                   event, postPc, ctlVars>>

\* The run asked for a report: one more row behind the terminal event.
ExportEvent(s) ==
    /\ pc[s] = "export"
    /\ Persist(s, NextOwnSeq(s), "export_created", FALSE)
    /\ Goto(s, "exported")
    /\ UNCHANGED <<run, session, summaries, messages, redis, kind, target,
                   count, event, postPc, ctlVars>>

NoExport(s) ==
    /\ pc[s] = "export"
    /\ Goto(s, "done")
    /\ UNCHANGED <<tables, redis, kind, target, count, event, postPc, ctlVars>>

\* The preferences are stored next (see PreferenceMemory) and the stream ends.
RememberExportSeq(s) ==
    /\ pc[s] = "exported"
    /\ lastSeq' = NextOwnSeq(s)
    /\ Goto(s, "done")
    /\ UNCHANGED <<tables, cancelled, kind, target, count, event, postPc, ctlVars>>

\* Mutant of CompleteCancelled: the cancel endpoint is trusted with the status.
CompleteCancelled_onlyStops(s) ==
    /\ pc[s] = "cancelling"
    /\ Goto(s, "done")
    /\ UNCHANGED <<tables, redis, kind, target, count, event, postPc, ctlVars>>

\* The loop was left because of the cancel flag.
CompleteCancelled(s) ==
    /\ pc[s] = "cancelling"
    /\ CompleteRunRow(target[s], "cancelled")
    /\ Goto(s, "done")
    /\ UNCHANGED <<events, summaries, messages, redis, kind, target, count,
                   event, postPc, ctlVars>>

---------------------------------------------------------------------------
(* When the execution does not go well *)

\* The handler of POST runs catches nothing; a stream records the failure.
Raise(s) ==
    /\ Goto(s, IF kind[s] = "post" THEN "done" ELSE "failing")
    /\ UNCHANGED <<tables, redis, kind, target, count, event, postPc, ctlVars>>

\* The language model or the retriever raises out of the runtime.
RuntimeRaises(s) ==
    /\ "runtime" \in Faults
    /\ pc[s] = "loop"
    /\ event[s] = "step"
    /\ Raise(s)

\* A database or redis call of the try block raises.
StoreRaises(s) ==
    /\ "store" \in Faults
    /\ pc[s] \in TryBlock
    /\ Raise(s)

\* The session was deleted: its foreign key rejects the row.
EventRejected(s) ==
    /\ pc[s] = "append"
    /\ ~exists
    /\ Raise(s)

\* `except Exception`: first the run_failed event, then the status.
RecordFailure(s) ==
    /\ pc[s] = "failing"
    /\ Persist(s, NextOwnSeq(s), "run_failed", FALSE)
    /\ Goto(s, "failed")
    /\ UNCHANGED <<run, session, summaries, messages, redis, kind, target,
                   count, event, postPc, ctlVars>>

CompleteFailed(s) ==
    /\ pc[s] = "failed"
    /\ CompleteRunRow(target[s], "failed")
    /\ Goto(s, "done")
    /\ UNCHANGED <<events, summaries, messages, redis, kind, target, count,
                   event, postPc, ctlVars>>

\* The client is gone while the generator awaits inside the try block
\* (CancelledError, cleanup task 0.2 s later) or is_disconnected says so.  A
\* shielded append or remember that the CancelledError found under way is taken
\* to end before the clean-up: that is this step one label later.
Disconnect(s) ==
    /\ "disconnect" \in Faults
    /\ kind[s] # "post"
    /\ pc[s] \in TryBlock
    /\ Goto(s, "cleanFlag")
    /\ UNCHANGED <<tables, redis, kind, target, count, event, postPc, ctlVars>>

\* _complete_cancelled_run: the redis flag, then two separate UPDATEs.
CleanFlag(s) ==
    /\ pc[s] = "cleanFlag"
    /\ cancelled' = cancelled \cup {target[s]}
    /\ Goto(s, "cleanRun")
    /\ UNCHANGED <<tables, lastSeq, kind, target, count, event, postPc, ctlVars>>

CleanRun(s) ==
    /\ pc[s] = "cleanRun"
    /\ run' = IF exists THEN [run EXCEPT ![target[s]] = "cancelled"] ELSE run
    /\ Goto(s, "cleanSession")
    /\ UNCHANGED <<session, events, summaries, messages, redis, kind, target,
                   count, event, postPc, ctlVars>>

\* The UPDATE names the session only: current_run_id stays as it is.
CleanSession(s) ==
    /\ pc[s] = "cleanSession"
    /\ status' = IF exists THEN "cancelled" ELSE status
    /\ Goto(s, "done")
    /\ UNCHANGED <<exists, current, archived, run, events, summaries, messages,
                   redis, kind, target, count, event, postPc, ctlVars>>

\* The steps that insert a row which names the session.
Inserts == {"create", "failing", "summary", "answer", "export"}

RowRejected(s) ==
    /\ pc[s] \in Inserts
    /\ ~exists
    /\ Goto(s, "done")
    /\ UNCHANGED <<tables, redis, kind, target, count, event, postPc, ctlVars>>

\* The generator ends where no handler is around it: an exception or a
\* CancelledError outside the try block, or GeneratorExit at a yield inside it
\* (neither except clause catches that one and finally then does nothing).
Abort(s) ==
    /\ \/ /\ pc[s] \in OutsideTry
          /\ "store" \in Faults \/ ("disconnect" \in Faults /\ kind[s] # "post")
       \/ /\ pc[s] = "loop"
          /\ "disconnect" \in Faults
          /\ kind[s] # "post"
    /\ Goto(s, "done")
    /\ UNCHANGED <<tables, redis, kind, target, count, event, postPc, ctlVars>>

---------------------------------------------------------------------------
(* POST runs/{id}/cancel and DELETE session *)

\* Mutant of LookupCancel: the flag is left to the stream.
LookupCancel_noFlag(c, r) ==
    /\ ctlPc[c] = "idle"
    /\ exists
    /\ current = r
    /\ ctlPc' = [ctlPc EXCEPT ![c] = "apply"]
    /\ ctlKind' = [ctlKind EXCEPT ![c] = "cancel"]
    /\ ctlRun' = [ctlRun EXCEPT ![c] = r]
    /\ UNCHANGED <<tables, redis, streamVars, postPc>>

\* 404 unless the run is the session's current one.
LookupCancel(c, r) ==
    /\ ctlPc[c] = "idle"
    /\ exists
    /\ current = r
    /\ ctlPc' = [ctlPc EXCEPT ![c] = "flag"]
    /\ ctlKind' = [ctlKind EXCEPT ![c] = "cancel"]
    /\ ctlRun' = [ctlRun EXCEPT ![c] = r]
    /\ UNCHANGED <<tables, redis, streamVars, postPc>>

\* Mutant of LookupDelete: `if run_id` is gone.
LookupDelete_alwaysFlags(c) ==
    /\ ctlPc[c] = "idle"
    /\ exists
    /\ ctlPc' = [ctlPc EXCEPT ![c] = "flag"]
    /\ ctlKind' = [ctlKind EXCEPT ![c] = "delete"]
    /\ ctlRun' = [ctlRun EXCEPT ![c] = current]
    /\ UNCHANGED <<tables, redis, streamVars, postPc>>

\* delete_session: the flag is set for the session's current run, if any.
LookupDelete(c) ==
    /\ ctlPc[c] = "idle"
    /\ exists
    /\ ctlPc' = [ctlPc EXCEPT ![c] =
                   IF current = NoRun THEN "apply" ELSE "flag"]
    /\ ctlKind' = [ctlKind EXCEPT ![c] = "delete"]
    /\ ctlRun' = [ctlRun EXCEPT ![c] = current]
    /\ UNCHANGED <<tables, redis, streamVars, postPc>>

RequestCancel(c) ==
    /\ ctlPc[c] = "flag"
    /\ cancelled' = cancelled \cup {ctlRun[c]}
    /\ ctlPc' = [ctlPc EXCEPT ![c] = "apply"]
    /\ UNCHANGED <<tables, lastSeq, streamVars, postPc, ctlKind, ctlRun>>

ApplyCancel(c) ==
    /\ ctlPc[c] = "apply"
    /\ ctlKind[c] = "cancel"
    /\ CompleteRunRow(ctlRun[c], "cancelled")
    /\ ctlPc' = [ctlPc EXCEPT ![c] = "done"]
    /\ UNCHANGED <<events, summaries, messages, redis, streamVars, postPc,
                   ctlKind, ctlRun>>

\* The foreign keys cascade: runs, events, summaries and messages go too.
ApplyDelete(c) ==
    /\ ctlPc[c] = "apply"
    /\ ctlKind[c] = "delete"
    /\ exists' = FALSE
    /\ run' = [r \in Runs |-> IF run[r] = "none" THEN "none" ELSE "deleted"]
    /\ events' = {}
    /\ summaries' = {}
    /\ messages' = {}
    /\ ctlPc' = [ctlPc EXCEPT ![c] = "done"]
    /\ UNCHANGED <<status, current, archived, redis, streamVars, postPc, ctlKind,
                   ctlRun>>

CtlFails(c) ==
    /\ "store" \in Faults
    /\ ctlPc[c] \in {"flag", "apply"}
    /\ ctlPc' = [ctlPc EXCEPT ![c] = "done"]
    /\ UNCHANGED <<tables, redis, streamVars, postPc, ctlKind, ctlRun>>

---------------------------------------------------------------------------
(* PATCH session, and the end of the process *)

\* update_session(archived=...): the status is written whatever runs are doing.
SetArchived(c, archive) ==
    /\ ctlPc[c] = "idle"
    /\ exists
    /\ archived' = archive
    /\ status' = IF archive THEN "archived" ELSE "completed"
    /\ ctlPc' = [ctlPc EXCEPT ![c] = "done"]
    /\ UNCHANGED <<exists, current, run, events, summaries, messages, redis,
                   streamVars, postPc, ctlKind, ctlRun>>

\* Every handler in flight is lost; start-up repairs nothing.
Crash ==
    /\ "crash" \in Faults
    /\ pc' = [s \in Streams |-> IF pc[s] = "idle" THEN "idle" ELSE "done"]
    /\ postPc' = [p \in Posts |-> IF postPc[p] = "idle" THEN "idle" ELSE "done"]
    /\ ctlPc' = [c \in Ctls |-> IF ctlPc[c] = "idle" THEN "idle" ELSE "done"]
    /\ UNCHANGED <<tables, redis, kind, target, count, event, ctlKind, ctlRun>>

---------------------------------------------------------------------------

PostStep(p) ==
    CheckNoActiveRun(p) \/ SaveUserMessage(p) \/ CreateMessageRun(p) \/ PostFails(p)

OpenStep(s) ==
    \/ \E r \in Runs : OpenRunStream(s, r)
    \/ OpenSessionStream(s)
    \/ OpenPostRun(s)

\* The steps an open execution takes of its own accord.
Progress(s) ==
    \/ CreateStreamRun(s) \/ StartRun(s) \/ EnterLoop(s)
    \/ NextEvent(s) \/ AppendEvent(s) \/ RememberSeq(s) \/ LoopEnds(s)
    \/ FinishRun(s) \/ SaveSummary(s) \/ SaveAnswer(s)
    \/ ExportEvent(s) \/ NoExport(s) \/ RememberExportSeq(s)
    \/ CompleteCancelled(s) \/ RecordFailure(s) \/ CompleteFailed(s)
    \/ CleanFlag(s) \/ CleanRun(s) \/ CleanSession(s)
    \/ EventRejected(s) \/ RowRejected(s)

Mishap(s) == RuntimeRaises(s) \/ StoreRaises(s) \/ Disconnect(s) \/ Abort(s)

CtlStep(c) ==
    \/ \E r \in Runs : LookupCancel(c, r)
    \/ LookupDelete(c) \/ RequestCancel(c) \/ ApplyCancel(c) \/ ApplyDelete(c)
    \/ CtlFails(c)
    \/ \E archive \in BOOLEAN : SetArchived(c, archive)

Next ==
    \/ \E p \in Posts : PostStep(p)
    \/ \E s \in Streams : OpenStep(s) \/ Progress(s) \/ Mishap(s)
    \/ \E c \in Ctls : CtlStep(c)
    \/ Crash

Spec == Init /\ [][Next]_vars

---------------------------------------------------------------------------
(* Properties *)

\* A run is cancelled in the database only if its redis cancel flag is set:
\* whatever order cancel, delete, disconnect clean-up and stream take, a stream
\* that executes a run others see as cancelled will find the flag.
CancelledImpliesFlag ==
    \A r \in Runs : run[r] = "cancelled" => r \in cancelled

\* The event a terminal status rests on.
Witness(outcome) ==
    IF outcome = "completed" THEN "run_completed"
    ELSE IF outcome = "failed" THEN "run_failed"
    ELSE "awaiting_user"

\* The status row never runs ahead of the event log: a run that is completed,
\* failed or awaiting the user has the event that says so among its persisted
\* events, so a replay by a terminal status never lacks its ending.
TerminalStatusHasEvent ==
    \A r \in Runs :
        run[r] \in {"completed", "failed", "awaiting_user"} =>
            \E e \in events : e.run = r /\ e.type = Witness(run[r])

\* agent-module-optimization-design: every terminal status releases the
\* session's active run id.  It does as long as no client goes away; the
\* clean-up of a disconnect ends with the session still pointing at the run it
\* cancelled (sessions.py:1436, three calls, during which the statuses may differ).
TerminalReleasesRun ==
    exists /\ current # NoRun /\ run[current] \in Terminal =>
        \E s \in Streams : target[s] = current /\ pc[s] = "cleanSession"

\* A session shown as running names its run, which is what the cancel endpoint
\* and the session stream need to find it.
RunningSessionNamesRun ==
    exists /\ status = "running" => current # NoRun

\* An assistant message is never alone: the same execution has saved the run's
\* summary and, before that, the run's terminal event.
AnswerHasSummaryAndEvent ==
    \A m \in messages : m.role = "assistant" =>
        /\ [run |-> m.run, by |-> m.by] \in summaries
        /\ \E e \in events :
              e.run = m.run /\ e.by = m.by /\ e.type \in TerminalEvents

\* After a cancel request a stream persists at most the one event whose flag
\* check had already passed.
AtMostOneLateEvent ==
    \A e, f \in events :
        e.late /\ f.late /\ e.by = f.by /\ kind[e.by] # "post" => e = f

\* The redis cursor names a persisted event of the session, never a number that
\* was not written, as it would be if it were remembered before the insert or
\* counted with the rows that are only sent.
CursorIsPersisted ==
    exists /\ lastSeq # 0 => \E e \in events : e.seq = lastSeq

\* Within one execution the event numbers only grow, failure and export rows
\* included, so `seq > afterSeq` never hides a later event of that execution.
SeqGrows ==
    [][\A e \in events' \ events :
          \A f \in events : f.run = e.run /\ f.by = e.by => f.seq < e.seq]_vars

\* What a reader can find recorded about the outcome of a run.
Evidence(r) ==
    {DeriveStatus(e.type) : e \in {f \in events : f.run = r
                                              /\ f.type \in TerminalEvents}}
    \cup (IF r \in cancelled THEN {"cancelled"} ELSE {})

Ledger == INSTANCE RunLedger
    WITH status <- run, evidence <- [r \in Runs |-> Evidence(r)]

\* The handlers implement the ledger: every step records a fact, settles a run
\* by a fact recorded before, starts or creates a run, or is invisible to it.
ImplementsLedger == Ledger!Spec

---------------------------------------------------------------------------
(* Statements of the design document and the tests that the code breaks *)

\* agent-module-optimization-design: one session has one active run at a time.
OneActiveRun ==
    Cardinality({r \in Runs : run[r] \in Active}) <= 1

\* agent-module-optimization-design: a stream seizes the right to start the
\* run, so the runtime is executed once per run.
ExecutedOnce ==
    \A s, t \in Streams :
        /\ target[s] = target[t] /\ target[s] # NoRun
        /\ pc[s] \in TryBlock /\ pc[t] \in TryBlock
        => s = t

\* When the two hold after all (hypotheses of theorems).  No two executions of
\* one run are between their reading of its status and start_run.
OneOpening ==
    \A s, t \in Streams :
        pc[s] = "prep" /\ pc[t] = "prep" /\ target[s] = target[t] => s = t

\* While a post is between find_active_run and create_run no other post is, and
\* no execution is between its reading of a status and start_run.
PostsAlone ==
    \A p \in Posts : postPc[p] \in {"checked", "saved"} =>
        /\ \A q \in Posts : postPc[q] \in {"checked", "saved"} => q = p
        /\ \A s \in Streams : pc[s] # "prep"

---------------------------------------------------------------------------
(* Liveness *)

\* The event loop schedules every handler that can go on; each await of a
\* database, redis or model call returns (the clients have timeouts).
Fairness ==
    /\ \A s \in Streams : WF_vars(Progress(s))
    /\ \A p \in Posts : WF_vars(PostStep(p))
    /\ \A c \in Ctls : WF_vars(RequestCancel(c) \/ ApplyCancel(c) \/ ApplyDelete(c))

FairSpec == Spec /\ Fairness

\* A run that was started ends in a terminal status or goes with its session,
\* however posts, cancels, deletes, archiving and a failing runtime interleave.
StartedRunSettles ==
    \A r \in Runs : run[r] = "running" ~> run[r] \in Terminal \cup {"deleted"}
=============================================================================
