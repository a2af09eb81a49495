# Verification of the pipeline monitoring system

TLA+ models of the oil and gas pipeline monitoring system of this repository,
their TLC configurations, and proofs checked by TLAPS.  All paths are relative
to the repository's root.

## 1. The system

| Component | State it keeps | Operations | Hard part |
|---|---|---|---|
| Agent run lifecycle (`server-agent/app/api/sessions.py`, `services/`, `persistence/`) | rows of `analysis_session`, `agent_run`, `agent_event`, `agent_run_summary`, `agent_message`; redis cancel flags and last sequence number | post a message, stream or execute a run, cancel, delete, archive | every `await` lets other handlers run; several transactions per handler; clients disconnect; database, redis and the language model fail |
| Event replay and timeline (`services/stream_service.py`, `repository.py`) | none of its own; reads events and messages | replay after a number, page backwards, share | rows are added while a client resumes or pages |
| Preference memories (`services/preference_memory_service.py`) | `memory_candidate`, `user_memory` | extract, accept, reject, delete, recall | check and write are separate transactions |
| ReAct runtime (`react/`) | budgets and observations of one run | propose, act, observe, answer | budgets, several actions per step, order of events |
| Phase-1 pipeline (`runtime/`, `nodes/`) | the state of one run | understand, build context, plan, call tools, reason | tool failure ends the run |
| Tool registry and HTTP client (`tools/`) | permissions, timeouts | list, invoke | timeout, order of the export tool |
| In-memory store (`api/sessions.py`, `services/run_service.py`) | dictionaries | the same endpoints | cancel during a run, generators dropped at a yield |
| Monitoring aggregate refresh (Java, `dataMonitoring/`) | daily aggregates, summary, refresh state | scheduled refresh, repair | skip by fingerprint, rows that join nothing |
| Dashboard read models and cache (Java, `dashboard/`) | five read models, refresh state, TTL cache | scheduled refresh, cached read | one transaction per model, concurrent misses |
| Agent proxy and exports (Java, `virtualExpert/`) | export records and files | forward SSE, create and fetch exports | half-done exports |
| Business modules (Java) | tables | create, read, update, delete | little shared state |
| Web and mobile front ends, data generators, infrastructure | user interface state | | |

Interaction: the web front end calls the Java server, whose `AgentClient`
forwards the requests and the event stream to the Agent.  The Agent's handlers
share the database and redis, and nothing else: no lock spans two of their
calls.  A handler iterates over a runtime, an async generator of events; its tools
call back into the Java server, which also creates the export files.  The
scheduled refreshes of the Java server read the tables the business modules
write, and the dashboard reads what the refreshes leave behind.

What makes each correct:

* *run lifecycle*: statuses that can be explained from what was recorded before,
  no execution that goes on after a cancel, no run that never ends, numbers a
  client can resume from;
* *replay, paging*: nothing twice, nothing left out, no status ahead of its events;
* *preference memories*: active memories of one key only by a race, a candidate
  decided once, nobody else's memories;
* *runtimes*: budgets respected and reported, one ending, in the last place,
  events that match;
* *in-memory store*: one execution per run, one open run, one memory per key;
* *refreshes, cache*: a skip only when nothing changed, freshness that is true, a
  read never older than its time to live says.

## 2. Modules

| Module | What it is |
|---|---|
| `RunLifecycle` | the handlers of one persistent session, one action per repository or redis call |
| `RunLedger` | abstract specification: what the store promises to readers of run statuses |
| `PreferenceMemory` | the users' long-term preferences: candidates, memories, review, recall |
| `AgentTools` | the tool registry, permissions, how a call ends, the export plan |
| `ReactRuntime` | the runtime driven by a language model |
| `Phase1Pipeline` | the runtime used without one |
| `RuntimeContract` | abstract specification: what a handler may rely on when it iterates over a runtime |
| `AgentService` | both runtimes, and the handler that settles a run after them |
| `InMemoryRuns` | the dictionary variant of the handlers and of the memories |
| `EventReplay` | clients, pagers and sharers that read while handlers write |
| `AggregateRefresh` | the aggregates of one day, their writers and their refresh |
| `DashboardReadModel` | the dashboard's tables, cache and summaries over `AggregateRefresh` |
| `MC...` | constants, symmetry, views and constraints for the model checker |
| `...Proofs` | theorems, section 4 |

`AgentService` composes `ReactRuntime` and `Phase1Pipeline` (INSTANCE), which
both extend `AgentTools`; `DashboardReadModel` extends `AggregateRefresh`.
`RunLifecycle` takes the runtime as a source of events with one deciding event,
last; `RuntimeContract` says just that, and both runtimes implement it.

### RunLifecycle

The variables are the tables and redis keys (`run`, the four columns of the
session row `exists`, `status`, `current`, `archived`, then `events`,
`summaries`, `messages`, `cancelled`, `lastSeq`) and, per handler, a program
counter with the locals that matter later (`target`, `count`, `event` of an
execution; `ctlKind`, `ctlRun` of a cancel or delete).

* **POST messages** is `CheckNoActiveRun`, `SaveUserMessage`,
  `CreateMessageRun`: three transactions.
* **Executing a run** (GET `runs/{id}/stream`, GET `runs/stream`, POST `runs`)
  opens by what it reads (`OpenRunStream`, `OpenSessionStream`, `OpenPostRun`,
  `CreateStreamRun`), starts the run (`StartRun`), enters the try block
  (`EnterLoop`) and for every event of the runtime checks the flag
  (`NextEvent`), appends the row (`AppendEvent`) and stores the cursor
  (`RememberSeq`).  It ends with `LoopEnds`, `FinishRun`, `SaveSummary`,
  `SaveAnswer`, and `ExportEvent`, `RememberExportSeq` if a report was asked for,
  or with `CompleteCancelled`.  The two stream generators are the same code
  twice; POST `runs` differs where `kind` is tested.
* **Failure**: `RuntimeRaises`, `StoreRaises` and `EventRejected` lead to
  `RecordFailure` and `CompleteFailed`; `Disconnect` to `CleanFlag`, `CleanRun`,
  `CleanSession`; `Abort` is every way a handler ends with nobody to catch it,
  among them a client that is lost while the generator is suspended at a yield.
  `Crash` ends every handler at once and leaves the tables as they are.
* **Cancel, delete, archive**: `LookupCancel`, `LookupDelete`, `RequestCancel`,
  `ApplyCancel`, `ApplyDelete`, `SetArchived`.

Data is abstracted to what the properties tell apart: an event is its run,
execution, number and type, and the types that do not end a run are all `step`;
texts, titles, models, memories and payloads are left out.  `late` in an event
row is a history field: the row was written by the loop after the run's flag was
set.

Assumptions of the model: one repository call is atomic (the window between its
SELECT and its COMMIT is not split); a shielded write that a disconnect finds
under way ends before the 0.2 s clean-up begins; run ids are unique (uuid4).

### RunLedger

Per run a status and the outcomes recorded for it.  `RunLifecycle` implements it
under `status <- run`, `evidence <-` the outcomes of the run's persisted
terminal events, with `cancelled` for its redis flag: a status is settled only
by a fact recorded before.  `InMemoryRuns` implements the same ledger under its
dictionaries; where it records and settles in one step (`Decide`), nothing can
happen between the two.  Once the session is deleted the ledger's reader is told
`deleted` of either store.  The ledger promises nothing about the order of
statuses, because the code does not (see the findings); a settled status is always
among the recorded outcomes (`Grounded`).

### PreferenceMemory

`RunLifecycle` ends an execution where it has exported; this module takes the
same executions from the memory side.  A run recalls (`RecallMemories` from
`user_memory`, then `ListAcceptedMemories` from the accepted candidates, the
older way the code still has), and at its end stores nothing (`StoreNothing`) or
one candidate (`StoreCandidate`), followed by `create_user_memory` for a
low-risk one.  An accept is `ReadCandidate`, `create_user_memory`,
`SetAccepted`.  `create_user_memory` is the one transaction that is split, in
`SelectActive` and `InsertMemory`: under READ COMMITTED other transactions
commit between its SELECT and its writes, and that is where this component's
races are.  The writes stay one step: they are made at the commit, ordered by
primary key, and a second writer of a row waits for the first.
`RejectCandidate`, `DeleteMemory` and `DeleteSession` are one statement over
one row and one step.  `HandlerEnds` is every way a handler stops at an await.

A candidate is named by the run it comes from and a memory by the handler that
inserts it.  A preference is its key; the key decides the risk level.  Texts,
confidences and ranking are left out: a limited query returns any choice of its
rows of the right size.  `rivals` is a history variable: the handlers that were
between SELECT and commit when this one made its SELECT.  Every run belongs to a
session of its own, and a request of another user than the owner, answered 404,
is no step.  POST `runs` extracts nothing and is not in this module.
`_store_persistent_memory_candidates` in `sessions.py` has no caller and is not
modelled.

### The runtimes: AgentTools, ReactRuntime, Phase1Pipeline, AgentService

`AgentTools` has no state: `Registry` is `build_business_registry` entry by
entry, name and permission, in its order, because the pipeline runs the tools in
that order.  Of the handlers the module only knows which are local; every other one
is a request to the Java server.  A remote tool may raise, a local one does not, an
unknown name always does; eight seconds of `asyncio.wait_for` turn a late tool into
one that raises.  What the single tools ask and answer is left out.

A runtime is a generator, and one action of `ReactRuntime` is its code from one
yield to the next: between two of them the handler may stop listening
(`Abandon`), and every await in between may raise (`Raise`). The model's answers
are chosen from `SingleAction`, in batches of up to `MaxActionsPerStep`. Kept are
the three budgets and what is said when they run out (`missing`), calls and
observations, the search each document came from, what the final prompt holds,
the streamed, the plain and the failed way to a final answer, and the event
types. `brackets` is a history variable: the starts that no completion has
answered yet. Arguments, texts and documents are left out; an export keeps its
format.

`Phase1Pipeline` is the orchestrator's five nodes, its walk through all permitted
tools, the retriever and the three endings.  `tool` is the place in `Registry` of
the tool run last; the next one is the first permitted place behind it, which is
`available_tools` without the list.

`AgentService` chooses the runtime as the constructor does, hands on its events
(`Iterate`), and settles as the handlers do: `derive_run_status` of the last
event, `run_failed` after an exception, `cancelled` if it stopped listening, and
then the export if the events hold a plan.  `CancelRun` is the cancel endpoint as
the run's status sees it: a request that found the run current sets `cancelled`
whatever the handler has done since, also between completion and export, because
`complete_run` compares with nothing.  That the flag of the same request makes the
handler stop listening is `StopListening`.

`RuntimeContract` is the abstract specification of the iteration: a step or a
deciding event is said, nothing is said after a deciding event, the generator
returns only after one, and raises only before one.

### InMemoryRuns

With dictionaries a coroutine that awaits the store never gives up the event
loop, so an action here is the code between two *real* suspensions: the runtime,
the poll for a disconnect, the export call, a yield.  That is what makes its
properties stronger than the persistent store's, and the model shows which
suspensions they survive.

* `CreateMessage` is POST messages in one step; `OpenRun` and `OpenSession` the
  two streams, `StartPost` and `PostReturns`/`PostRaises` POST `runs`, whose only
  suspension is the runtime.
* The loop is `Poll` (the runtime has an event and the flag is not set, or
  `SeeCancel`), then `AppendEvent` or `SeeDisconnect`; `RuntimeRaises` is the
  except clause; `Drop` is a generator closed at a yield, in the loop or after it.
* `EndWithoutExport`, or `EndWithExport` and `ExportAnswers`, then `FileMemories`
  and `EndSession`, are the code behind the loop.
* `CancelRun`, `AcceptCandidate`, `RejectCandidate`, `DeleteMemory`,
  `SetArchived`, `DeleteSession` are one step each.

A run that no message created is in no dictionary of runs; it is named by the
handler that made its id up.

### EventReplay

The handlers are reduced to the order of their transactions (`AppendEvent`,
`CompleteRun`, `SaveSummary`, `AppendExport`, `CancelRun`), and one reader takes
its steps between them: a *client* reads its run's status and replays after its
cursor, or reads the session's whole event list; a *pager* walks the timeline
backwards page by page; a *sharer* reads an item (run, summary and event count by
statements of their own) and then the events for a snapshot.  A message gets its
time when its transaction begins and appears when it commits, so a later commit
may carry an earlier time; `missable` remembers which messages the first page
could already see.  The dictionary store's paging is the other value of `store`.

### AggregateRefresh and DashboardReadModel

`AggregateRefresh` is `refreshDate` of one day.  `BeginRefresh` reads the
fingerprint, the state row and, for the skip, the number of daily rows, from one
snapshot; `RefreshEmpty`, `SkipUnchanged` or `Rebuild` is the rest of the
transaction; `RefreshFails` rolls it back and `RecordFailure` writes the failure
in a statement of its own, which may fail too.  The writers are the monitoring
pages (`AddData`, `UpdateData`, `DeleteData`) and changes of a sensor
(`MoveSensor`).  An `update_time` is the NOW() of its statement, the second in which
the statement starts; it may then wait for the locks of a rebuild, so a write takes
any second up to the present as its stamp.  A sum is the set of the samples it sums.
`blind` is a history variable: since the recorded fingerprint was read something
happened that a fingerprint need not show.

`DashboardReadModel` adds `refreshAll`, on the scheduler thread and, at start-up, on
the main thread.  Each model has a transaction of three statements.  `DeleteRows`
takes the lock of its table until the commit.  `InsertRows` computes the rows and
stamps them with its own NOW(); `RecordSuccess` stamps the state row with a later
one and commits, so the two stamps may differ.  `RefreshModelFails` is any of the
three raising, and the rollback.  Where the source has UNION ALL, `Branches`,
`Times` and `SensorCount` count a row as often as its branches do, twice for a row
that names the country itself.  Readers go through `DashboardLocalCache`
(`GetSummaryHit`, `GetSummaryMiss`); a load is four statements over the tables
(`ReadRows`, in `LoadOrder`), of whose rows the reader keeps table and stamp, then
the one for the freshness (`StoreSummary`).  Both scheduled jobs run on Spring's one
scheduler thread, so their transactions do not overlap; the main thread's do.

Assumptions: MySQL InnoDB, whose INSERT ... SELECT reads the source as committed and
locks it until the commit, while plain SELECTs of the transaction read its first
snapshot.  Left out: the two log models (their source is touched by nothing
else here), task counts, the LIMIT of the alarms, the other cached reads (which
read the same way), and the fallback to raw tables.

## 3. Runs

Every handler in the Agent's models is used once, so a configuration is bounded by
the number of handlers.  Two runs, two executions and one or two of everything
else are what the races need: each race of this code is between two handlers over
one run, or over two runs of one session.

| Run | Instance | Question |
|---|---|---|
| `faults` | 2 runs, 1 execution of 2 events, 2 posts, 2 controls; every fault | with clients going away, every call failing and the process restarting: do statuses rest on events and flags, do the numbers of an execution grow (failure and export rows included), is there one late event at most, does the cursor name a row that exists, and are statuses settled by what was recorded (`RunLedger`)? |
| `live` | 2 runs, 2 executions of run streams, 1 post, 1 control; failing runtime, fairness | does a started run settle, does every terminal status release the session's run, and does an answer come with summary and event? |
| `memories` | 2 users, 2 keys, 3 runs, 1 accept, recall limits of 1, handlers cut off anywhere | which active memories can share a key, does an accepted candidate have a memory, and whose memories are recalled? |
| `runtimes` | both runtimes; 3 steps, batches of 2, 2 tool calls, 1 search, 2 chunks, searches of 0 or 2 documents, 1 document per prompt | with a cancel at any moment: do events match, are refusals reported, does an export follow a successful ending, is every run handled, and do both implement `RuntimeContract`? |
| `inmemory` | 2 message runs, 2 streams, 1 POST, 2 events, 1 reviewed run | one execution per run, one open run, one memory per key, no settled status without its event or flag, replays that do not change |
| `replay` | 3 messages, 2 events per run, 2 times, pages of 1 | does a resumed client, a pager or a sharer miss or repeat anything? |
| `aggregates` | 2 inspections, 1 sensor, 1 district, 2 values, 3 changes, 2 failures, 2 seconds, 1 dashboard model | when is a skip sound, when is the summary stale, and does every change reach the dashboard? |
| `readmodels` | 2 models, 1 district, 1 sensor, 2 threads, 2 readers, 3 calls or 2 and a failure, 2 seconds, time to live 1 | does a freshness vouch for the rows and cover what a summary shows, is no summary too old? |

Why the bounds are enough:

* `MaxEvents` is 2 in `faults` because the second event is what a missing flag
  check would let through; elsewhere one event is the ending of the run.
* `faults` has one execution beside the clean-up, cancel and delete, and `live` two
  without disconnects.  That flags, events and releases also stand two executions
  with faults, and any number, is what the theorems of section 4 say.
* In `memories` three creations are what a chain needs: one that is expired by a
  second while a third still holds it.  The limit of 1 cuts rows off a recall,
  which the code's 8 and 5 would not on so small an instance.
* In `runtimes` every budget is smaller than what the model may ask for (a batch
  of 2 and one more, over 3 steps), so each runs out; of the tools there is one
  that may raise, the export tool, and a name that is not registered.  The
  pipeline walks through the whole registry.
* In `inmemory` the texts are one with a trigger word, one to be confirmed and one
  plain style, of which two share a key.  Of the runtime's endings the instance has
  `run_completed`, and `run_failed` from a failing runtime; the theorems cover all.
* In `replay` the constraint `Focus` keeps the runs still for a pager, who looks at
  messages only, and the clock for the other two readers.  Pages of 1 over 3
  messages with 2 times put equal times on both sides of a page boundary.
* In `aggregates` three changes are an insertion, its repetition in another place
  and a deletion that restores the count.  Readers are left to `readmodels`, whose
  `DashboardSpec` lets the source tables stand still: its properties are about
  stamps, not about what is refreshed.  Two models are what a summary needs to see
  two refreshes; two seconds let the rows' stamp differ from their state's, and with
  time to live 1 let an entry expire while a slow load is still to be stored.
* In `readmodels` a constraint `Focus` takes the sensor as there, since an absent row
  has no stamps to compare, and counts a failure as one of the three calls: two
  calls and a failed refresh between them, or three calls of two readers.
* One district has rows in four scopes (district, city, province, country), and in
  `aggregates` its sensor is there or not: what moves between districts does for a
  fingerprint what a sensor does that appears or goes.

`faults`, `memories`, `inmemory` and `readmodels` use symmetry over
interchangeable ids; the first two also a view that hides what an ended handler
still holds, or a history no property of the run reads.  Deadlock is not checked
where a finite number of one-use handlers, or one runtime, ends; it is in the two
runs of the web server, whose jobs never end.

Fairness:

* `live`: weak fairness of each handler's own steps.  The event loop schedules
  every handler that can go on, and database, redis and model calls have
  timeouts.  New requests, failures and disconnects get none.  The run excludes
  disconnects, store failures and crashes: under them the code does leave runs
  running (below).
* `runtimes`: weak fairness of the iteration and of the handler behind it; a call
  of the model returns or times out after 60 s, a tool call after 8 s.  None of
  a handler that stops listening.
* `aggregates`: strong fairness of the beginning of both scheduled jobs, which
  compete for Spring's one scheduler thread and are both due again and again; weak
  fairness of the steps of a job that has begun.  None of writers and failures.

### Statements the code does not keep

Each is a run of its own with one property that quotes a document, violated by a
short behaviour.

| Run | Statement | What happens |
|---|---|---|
| `twoactive` | one active run per session (2026-04-30 design) | two posts pass `find_active_run` before either creates its run |
| `executedtwice` | a stream seizes the right to start (2026-04-30 design) | two streams read `created` and both run the runtime |
| `unreleased` | all terminal statuses release `active_run_id` (2026-04-30 design) | the clean-up of a disconnect sets run and session cancelled and keeps `current_run_id` |
| `failure` | when a tool fails the final answer explains it (`07-react-orchestration`) | a failed call adds no observation and nothing missing, so the prompt of the answer does not tell it from a call never made |

Seen in the same code and not given a run of their own.

*Run lifecycle.* A cancel between a stream's status check and `start_run` is
overwritten. Redis may fail behind a persisted `run_completed`, and `run_failed`
follows it. POST `runs` has no handler for a failing runtime and leaves its run
running. An active run that is not the session's current one is answered 404 by the
cancel endpoint; nothing emits `run_cancelled`. A run is left running for ever by a
crash (nothing at start-up looks for such runs), by a store failure while the
failure is being recorded, and by a client that is lost while the generator is
suspended at a `yield`. A title generated after an await overwrites a name given
meanwhile (`sessions.py:1008`).

*Memories.*  Two creations may both select before either commits, and the index on
the key is not unique, so two active memories of one key remain.  Reject checks no
status and touches no memory, so a preference may be recalled after its rejection.
`list_accepted_memories` has no user filter and reads version 2 candidates too, so
the older path recalls across users, and recalls a deleted memory, whose candidate
stays accepted; the dictionary variant skips version 2.  An accept that is cut off
between its two transactions leaves a pending candidate with an active memory; a
run that is cut off there leaves an accepted candidate without one.

*Replay.*  GET of a session's events filters the rows of all runs by one
`afterSeq`, although every run counts from one: which rows a client misses there
depends on the run it had in mind.  `ReplayIsWhole` is about the replay by run.  In
the dictionary store a cursor that is unknown returns the newest page.

*In-memory store.*  The status of a settled run may still become `cancelled`, and a
cancelled one its stream's last status.

*Runtimes.*  Only the first five documents reach the prompt, whatever later searches
found.  The pipeline runs every permitted tool, although its plan lists the
read-only ones.

*Aggregates and dashboard.* A fingerprint of count and newest second cannot show a
change in the second it was read, nor one that commits inside the transaction
(INSERT ... SELECT reads newer rows than the fingerprint), nor a moved sensor;
`SkippedOnlyWhenCurrent` excepts exactly these, by `blind`. A day that has left the
window is never aggregated again (`MonitoringAggregateRefreshService:43`). When
inspections are left that no sensor joins, the daily rows go and the summary row
stays, which is the condition of `SummaryFollowsDaily`. A statement that waited for
a rebuild's locks stamps its row with the second it began, so a fingerprint read
meanwhile may not tell it from an older row: blind as well. The job is disabled in
`application.yml` unless it is switched on. One summary may mix refreshes, and its
freshness, read last, may be newer than its data; it is never older
(`FreshnessCoversRows`). The cache key lacks the data version that the 2026-05-04
specification (line 87) asks for, which is why the time to live is all that bounds
its age.

## 4. Proofs

All theorems hold for every value of the constants that satisfies the assumptions
below, and each invariant is proved inductive with one step per action.

| Module | Theorem | Property |
|---|---|---|
| `RunLifecycleProofs` | `TypeCorrect` | `TypeOK` |
| | `CancelledRunsAreFlagged` | `CancelledImpliesFlag` |
| | `SettledRunsHaveEvents` | `TerminalStatusHasEvent` |
| | `CurrentRunStaysOpen` | the session's run is active or cancelled |
| | `TerminalRunsAreReleased` | `TerminalReleasesRun`, without disconnects |
| | `RunningSessionsNameRuns` | `RunningSessionNamesRun` |
| | `CancelStopsTheStream` | `AtMostOneLateEvent` |
| `RunRecordProofs` | `AnswersAreSummarized` | `AnswerHasSummaryAndEvent` |
| | `CursorsArePersisted` | `CursorIsPersisted` |
| `RunLedgerProofs` | `HandlersImplementLedger` | `ImplementsLedger` (refinement) |
| | `ExecutionNumbersGrow` | `SeqGrows` (action property) |
| | `ExecutedTwiceOnlyByOverlap` | `ExecutedOnce`, under `OneOpening` |
| | `TwoActiveOnlyByOverlap` | `OneActiveRun`, under `PostsAlone`, runs streamed by id |
| | `LedgerIsGrounded` | `Grounded` of `RunLedger` |
| `PreferenceMemoryProofs` | `TypeCorrect` | `TypeOK` |
| | `ActivesOnlyByOverlap` | `ActivesOverlapped` |
| | `ExpiryBringsSuccessor` | `ExpiresOnlyForSuccessor` (action property) |
| | `AcceptCreatesFirst` | `ReviewedAcceptedHasMemory` |
| | `RecallIsOwnAndConfirmed` | `RecallsOwnConfirmed` |
| `AgentServiceProofs` | `RuntimesKeepContract` | `ImplementsContract` (refinement) |
| | `RefusedCallsAreReported` | `RefusalsAreReported` |
| | `BracketsMatch` | `EventsAreBracketed` |
| | `TypeCorrect` | `TypeOK` |
| | `ExportsFollowSuccess` | `ExportFollowsSuccess` |
| | `RunsAreBounded` | the safety half of `EveryRunIsHandled` |
| `InMemoryRunsProofs` | `TypeCorrect` | `TypeOK` |
| | `RunsAreExecutedOnce` | `ExecutedOnce` |
| | `SettledRunsAreReplayed` | `SettledRunIsOnlyReplayed` (action property) |
| | `OneRunIsOpen` | `OneOpenRunUnlessCancelled` |
| | `RunningSessionsWork` | `RunningSessionHasWork` |
| | `OneMemoryPerKey` | `OneActivePerKey` |
| | `MemoriesAreFiledOnce` | `MemoryFiledOnce` |
| | `SettledRunsAreRecorded` | `SettledIsRecorded` |
| | `DictionariesImplementLedger` | `ImplementsLedger` (refinement) |
| `EventReplayProofs` | `ReplaysAreWhole` | `ReplayIsWhole` |
| | `CompletedItemsHaveEvents` | `CompletedItemHasEvents` |
| | `PagesShowEachTurnOnce` | `PagingShowsEachTurnOnce` |
| | `TypeCorrect` | `TypeOK` |
| `DashboardReadModelProofs` | `TypeCorrect` | `TypeOK` |
| | `SummariesAreFresh` | `ServedWithinTTL` |
| | `FreshnessIsOfTheRows` | `FreshnessVouchesForRows` |
| | `SummariesNameTheirFreshness` | `FreshnessCoversRows` |
| | `SummariesFollowDaily` | `SummaryFollowsDaily` |
| | `SkipsAreSound` | `SkippedOnlyWhenCurrent` |

Assumptions: `ConstantsAssumption` of `RunLifecycle`, `PreferenceMemory`,
`InMemoryRuns` and `EventReplay` (ids of different kinds differ, bounds are natural
numbers); `BudgetsAssumption` (budgets are natural numbers, steps and batches at
least one); `BoundsAssumption` and `DashboardAssumption` (the tables are finite,
area codes are natural numbers and NULL is none, the scheduler is a thread, the time to live is at
least one second, the models are refreshed in the order of `refreshAll`).  A theorem
about `Spec` of `DashboardReadModel` covers `DashboardSpec`, which has fewer steps.

### Run lifecycle

`TypeInv` is `TypeOK` with the fact that a handler past its opening knows its run.

* `CancelInv` adds that whoever is about to write `cancelled` (a stream that
  broke out of its loop, a control in `apply`, a clean-up past its first step)
  has a run whose flag is set.  Flags are never cleared, so others cannot
  disturb that.
* `EventInv` adds that an execution in `finish` or `failed` has its last event
  among the rows.  Rows go only when the whole session goes.
* `SessionInv` adds that a handler about to settle a run leaves no session that
  points at it, unless it cancels.
* `LateInv` adds that a row written late shows a flag that is set, and that its
  writer is not between a passed check and a write any more: it cannot pass
  another check.
* `AnswerInv` follows an execution from its terminal event (`Told`) over its
  summary to its answer; `CursorInv` says that whoever is about to store a cursor
  has persisted that number.
* The refinement rests on `RowInv`, that every run a handler or the session names
  was created, so no step writes the status of a run that the ledger does not
  have; `CancelInv` and `EventInv` give the evidence the ledger asks for before a
  status is written.  `LedgerStep` is proved action by action.
* `SeqInv`: until it writes its last row an execution has used no number above its
  count.
* `LedgerIsGrounded` is about the ledger alone, so it holds of both stores that
  refine it: a reader who is told how a run ended finds that outcome recorded.

The three statements of the design that the code breaks are proved under the
condition they need, which is to say that nothing else breaks them:

* `TerminalRunsAreReleased`: with no `"disconnect"` among the faults no clean-up
  begins, and whoever settles a run does it by `complete_run`, which releases the
  session in the same transaction.
* `ExecutedTwiceOnlyByOverlap`: `OpeningInv` says that a run in an execution's
  hands past `start_run` is not `created` any more, so only an execution that read
  the status before can follow.  Under `OneOpening`, no two executions of one run
  between the reading and `start_run`, a run is executed once, whatever faults,
  cancels, deletes and endpoints there are.  The run `executedtwice` reaches the
  overlap; a `start_run` that checks the status it overwrites would close it.
* `TwoActiveOnlyByOverlap`: under `PostsAlone` (no other post, and no execution
  about to call `start_run`, while a post is between `find_active_run` and
  `create_run`) `WindowInv` keeps at most one run *held*: active, or read as created
  by an execution that has not started it yet.  The second half matters: such a run
  may be cancelled meanwhile, let a post pass its check, and come back as running.
  The theorem is about clients that stream runs by id (`Kinds`), as the front end
  does with a run it has posted (`virtual-expert/service.ts:380`).  The session's
  stream and POST `runs` make a run when `current_run_id` is NULL and ask nothing
  about active ones, and a late completion clears that column while another run is
  active.

### Memories

`CreationInv` carries the first three: of two creations of one user and key that
did not overlap, one *precedes* the other, which is to say it was committed when
the other looked, and the other found it or it was no longer active (`Serial`);
and a committed creation has put an end to what it found (`Covered`).  Both rest
on `Fresh`: nothing becomes active but in the one step that inserts it.
`ReviewInv` adds that an accept about to mark has its memory, that no run is
creating a memory of high impact, and that recalled rows stay rows.

### Runtimes

`ContractInv`: while a runtime goes on, it is at its end exactly if it has said how
the run ends; so after a deciding event only a return is left.  `RefusalInv`: what
the final prompt says is missing is what is missing, and no tool is asked after it
was built.  `BracketInv` gives the open brackets as a function of the program
counter (`Open`), which each yield must then keep.

`ExportsFollowSuccess` rests on the order of the registry.  `ExportToolIsLast`:
of the 38 entries of `Registry` none but the last is the export tool.  So the
pipeline has a plan only when its walk is over (`PipelineInv`): no tool is left to
fail, and a run that failed had no plan yet.  `ReactRuntime` never says `run_failed`
(`NoFailureInv`), it raises, and an iteration that raised exports nothing
(`ExportInv`, with `ContractInv` for the event that was last).  A cancel request
may overwrite the status at any moment, and that is all that may.  `ReactInv` and
`PlanInv` complete the type invariant: the batch in hand is not empty where an action
is taken from it, and a plan is a format the tool knows.

`RunsAreBounded` is a measure.  `StepsLeft` counts down from the pieces the code
bounds: the steps of the loop not begun yet (`Ahead`), at `StepCost` each for their
stream and their batch, then what is left of the round (`InRound`), or of the
pipeline's walk over the 38 tools (`InPipeline`), then the two steps of the handler.
The one bound that is the model's is `MaxChunks`: in the code nothing counts the
chunks of a stream, and the client's timeout only ends one that has fallen silent,
so that a stream ends is an assumption about the language model.  That some step is taken until nothing is left needs
fairness and stays with `EveryRunIsHandled`.

### In-memory store

`RunInv` is the shape of the dictionaries (`Shape`), whose run a handler may have
(`Targets`), that no two have the same (`ExecutedOnce`), and that a run in a loop
is running or was cancelled (`Executing`). `OpenInv`: until something is
cancelled only `active_run_id` can be open. `MemoryInv`: a candidate appears only
when the one stream of its run is done, and a version 1 row, which comes before,
is only of a text that a candidate is made for: the step that files the candidate
removes it. `LengthInv`: a stream that has not decided leaves room for the event
that does.

The refinement of `RunLedger` needs `RunInv` and `Named` (the runs a session names
were created).  Each step is shown to be a step of the ledger together with
`Justified`, that whatever it settles is recorded once the step is taken; from that
`SettledRunsAreRecorded` is inductive.

### Replay

`LogInv`: a completed run has its decision in the log, and `Grow`: the log only
grows.  `ClientInv`: what a client has of the run it resumes is a prefix of the log,
past the decision if it was told that the run is completed.  `SharerInv`: a status
that was read as completed has its decision in whatever is read later.

The pager's theorem is about a page chosen by rank.  `Older` is a total order of the
committed messages, in either store (`OlderIsTotal`, `OlderIsTransitive`), and a
finite set so ordered has a list that is sorted (`NewestFirstIsSorted`, by the ranks
of its members), with the oldest at its end (`OldestIsLast`).  A page is then the top
of what is older than the cursor (`PageIsNewest`), and `PagerInv` says that what was
shown is sorted down to the cursor and that every message of the first page's moment
is shown or older than the cursor.  A message that commits late may appear on either
side of the cursor; it was not there at the first page, so nothing is promised of it.

### Aggregates and dashboard

`SkipInv` ties the recorded fingerprint to an earlier table of inspections that the
daily rows aggregate: every row that is not newer than the reading of the
fingerprint is still as it was in that table (`WasTable`), so one count and one
newest second mean that the two tables are equal. An open refresh that no write
raced has read the inspections as they are. `CacheInv`: an entry expires one time to
live after its load began, whoever stored it last.

`FreshnessInv` carries both freshness theorems.  `LockInv`: one transaction at a time
has deleted the rows of a model.  `StampInv`: such a transaction stamps its rows no
earlier than those it replaces, so the stamps of a table never go back, and what a
load has seen (`SeenInv`) is no newer than what the table holds when the freshness is
read.  Without the lock the slower of two overlapping refreshes could commit the
older stamp last.  `SummaryFollowsDaily` is inductive with the type invariant.

### Only model-checked

The three liveness properties: `StartedRunSettles`, `EveryRunIsHandled` and
`ChangesReachDashboard`.  Liveness under fairness is beyond the prover; for
`EveryRunIsHandled`, `RunsAreBounded` proves the part that is no fairness: no
behaviour has more steps than `StepsLeft` says.
`ImplementsLedger` of `InMemoryRuns` is the reverse: it is only proved.  TLC
confirms it on the instance of `inmemory` too, but in too long a time for a run;
`SettledIsRecorded` is the part of it that the run keeps.

## 5. Plan

1. (done) `RunLifecycle`, `RunLedger`, their runs and theorems.
2. (done) `PreferenceMemory` with its runs and theorems.
3. (done) `EventReplay`, `ReactRuntime`, `Phase1Pipeline`, `AgentTools` and
   `AgentService`, with `RuntimeContract`.
4. (done) `InMemoryRuns`.
5. (done) `AggregateRefresh`, `DashboardReadModel`.
6. The export records and the SSE proxy of the Java server, and the stream consumer
   of the virtual-expert page.
7. The other tools' request shapes, if a property is found that is about them.

### Not modelled

* *Agent proxy and exports, front-end stream consumer*: next in the plan.
* *Business modules*: create, read, update and delete over single tables; two
  requests share little state, and what they share with the refreshes is the writers
  of `AggregateRefresh`.
* *Retrieval, language-model client, configuration, logging*: wrappers around
  external services.  The models say that they may raise, and what they may return.
* *Front ends, prototypes, infrastructure*: user interface state and deployment.
* *Data generators*: one-off scripts that fill an empty database with random rows,
  with no concurrency and no promise to check beyond their output's plausibility.
* *Titles and pins of sessions; content of prompts, reports and tool answers*: no
  property is about them.
