----------------------------- MODULE EventReplay -----------------------------
(***************************************************************************)
(* What clients of a session read back (server-agent): a run's events      *)
(* after a reconnection, the timeline page by page, and the snapshot of a  *)
(* share.  Handlers keep writing meanwhile; RunLifecycle has them in full, *)
(* here only the order of their transactions counts: an event is appended  *)
(* before the run is completed, its summary and its export event come      *)
(* after.  A reader writes nothing, so one of them at a time is enough.    *)
(***************************************************************************)
EXTENDS Naturals, Sequences, FiniteSets

CONSTANTS
    Turns,       \* user messages by id, each with the run it triggers
    MaxEvents,   \* bound: events of a run up to the one that decides it
    MaxTime,     \* bound: values of the database clock
    PageSize     \* limit of GET timeline, 1..20

ASSUME ConstantsAssumption ==
    /\ Turns \subseteq Nat \ {0}
    /\ IsFiniteSet(Turns)
    /\ {MaxEvents, MaxTime, PageSize} \subseteq Nat \ {0}

VARIABLES
    store,       \* database or memory
    clock,
    created,     \* agent_message.created_at: when its transaction began; 0: never
    messages,    \* the messages committed, in the order of their commits
    runStatus,   \* agent_run.status, "none" before its row
    events,      \* types of the run's event rows by seq
    summaries,   \* runs with a row of agent_run_summary
    reader,      \* who reads: client, pager or sharer
    at,          \* where the reader is
    of,          \* the run or the item it reads, 0: none
    scope,       \* a client resumes one run, or the session
    got,         \* <<run, seq>> of the events it has
    seenStatus,  \* the status it was told
    cursor,      \* the oldest message a pager has, 0: none
    pages,       \* the messages it was shown
    missable,    \* history: the messages there were at its first page
    item         \* what a sharer read of one item, and then of its events

storeVars == <<store, clock, created, messages>>
runsVars == <<runStatus, events, summaries>>
clientVars == <<scope, got, seenStatus>>
pagerVars == <<cursor, pages, missable>>
readerVars == <<reader, at, of, clientVars, pagerVars, item>>
vars == <<storeVars, runsVars, readerVars>>

Statuses == {"none", "created", "running", "completed", "cancelled"}
NoItem == [status |-> "none", summary |-> FALSE, count |-> 0, events |-> {}]

Committed == {messages[i] : i \in DOMAIN messages}
Rows == UNION {{<<r, seq>> : seq \in DOMAIN events[r]} : r \in Turns}

TypeOK ==
    /\ store \in {"database", "memory"}
    /\ clock \in 1..MaxTime
    /\ created \in [Turns -> 0..MaxTime]
    /\ messages \in Seq(Turns)
    /\ \A r \in Committed : created[r] > 0
    /\ runStatus \in [Turns -> Statuses]
    /\ events \in [Turns -> Seq({"step", "decision", "export"})]
    /\ summaries \subseteq {r \in Turns : runStatus[r] \in {"completed", "cancelled"}}
    /\ got \subseteq Rows
    /\ seenStatus \in Statuses
    /\ pages \in Seq(Turns)
    /\ {item.count} \subseteq Nat /\ item.events \subseteq Rows

Init ==
    /\ store \in {"database", "memory"}
    /\ clock = 1
    /\ created = [r \in Turns |-> 0]
    /\ messages = <<>>
    /\ runStatus = [r \in Turns |-> "none"]
    /\ events = [r \in Turns |-> <<>>]
    /\ summaries = {}
    /\ reader \in {"client", "pager", "sharer"}
    /\ at = "start"
    /\ of = 0
    /\ scope \in {"run", "session"}
    /\ got = {}
    /\ seenStatus = "none"
    /\ cursor = 0
    /\ pages = <<>>
    /\ missable = {}
    /\ item = NoItem

---------------------------------------------------------------------------
(* The handlers, as far as readers can tell *)

Tick ==
    /\ clock < MaxTime
    /\ clock' = clock + 1
    /\ UNCHANGED <<store, created, messages, runsVars, readerVars>>

\* create_message: created_at is the time its transaction begins.
BeginMessage(r) ==
    /\ created[r] = 0
    /\ created' = [created EXCEPT ![r] = clock]
    /\ UNCHANGED <<store, clock, messages, runsVars, readerVars>>

CommitMessage(r) ==
    /\ created[r] # 0
    /\ r \notin Committed
    /\ messages' = Append(messages, r)
    /\ UNCHANGED <<store, clock, created, runsVars, readerVars>>

\* create_run and start_run; in between the run could be streamed by nobody.
StartRun(r) ==
    /\ r \in Committed
    /\ runStatus[r] = "none"
    /\ runStatus' = [runStatus EXCEPT ![r] = "running"]
    /\ UNCHANGED <<storeVars, events, summaries, readerVars>>

Decided(r) == \E seq \in DOMAIN events[r] : events[r][seq] = "decision"

\* The stream of a run that is running, or was cancelled and not told yet.
AppendEvent(r) ==
    /\ runStatus[r] \in {"running", "cancelled"}
    /\ ~Decided(r)
    /\ \E type \in IF Len(events[r]) < MaxEvents - 1 THEN {"step", "decision"}
                   ELSE {"decision"} :
          events' = [events EXCEPT ![r] = Append(@, type)]
    /\ UNCHANGED <<storeVars, runStatus, summaries, readerVars>>

CancelRun(r) ==
    /\ runStatus[r] = "running"
    /\ runStatus' = [runStatus EXCEPT ![r] = "cancelled"]
    /\ UNCHANGED <<storeVars, events, summaries, readerVars>>

\* Mutant of CompleteRun: the run is completed before its last event is stored.
CompleteRun_early(r) ==
    /\ runStatus[r] = "running"
    /\ runStatus' = [runStatus EXCEPT ![r] = "completed"]
    /\ UNCHANGED <<storeVars, events, summaries, readerVars>>

\* complete_run with the status derived from the last event.
CompleteRun(r) ==
    /\ Decided(r)
    /\ runStatus[r] \in {"running", "cancelled"}
    /\ runStatus' = [runStatus EXCEPT ![r] = "completed"]
    /\ UNCHANGED <<storeVars, events, summaries, readerVars>>

\* Mutant of SaveSummary: the summary is stored before the run is completed.
SaveSummary_early(r) ==
    /\ runStatus[r] = "running"
    /\ summaries' = summaries \cup {r}
    /\ UNCHANGED <<storeVars, runStatus, events, readerVars>>

\* create_run_summary.
SaveSummary(r) ==
    /\ runStatus[r] = "completed"
    /\ summaries' = summaries \cup {r}
    /\ UNCHANGED <<storeVars, runStatus, events, readerVars>>

AppendExport(r) ==
    /\ r \in summaries
    /\ \A seq \in DOMAIN events[r] : events[r][seq] # "export"
    /\ events' = [events EXCEPT ![r] = Append(@, "export")]
    /\ UNCHANGED <<storeVars, runStatus, summaries, readerVars>>

---------------------------------------------------------------------------
(* A client comes back *)

\* Mutant of RowsAfter: the cursor is taken for the number of the next event.
RowsAfter_next(seq) == {row \in Rows : row[2] > seq + 1}

\* seq > after_seq, in the order of seq.
RowsAfter(seq) == {row \in Rows : row[2] > seq}

\* It has the first events of a run, and counts from the last one.
Reconnect(r) ==
    /\ reader = "client"
    /\ at = "start"
    /\ \E k \in 0..Len(events[r]) : got' = {<<r, seq>> : seq \in 1..k}
    /\ of' = r
    /\ at' = "resume"
    /\ UNCHANGED <<storeVars, runsVars, reader, scope, seenStatus, pagerVars, item>>

\* can_replay_status: a run that has not ended is refused, and asked for again.
ReadStatus ==
    /\ at = "resume"
    /\ scope = "run"
    /\ runStatus[of] \in {"completed", "cancelled"}
    /\ seenStatus' = runStatus[of]
    /\ at' = "replay"
    /\ UNCHANGED <<storeVars, runsVars, reader, of, scope, got, pagerVars, item>>

\* replay_persistent_run: the events now, the status as it was.
ReplayRun ==
    /\ at = "replay"
    /\ got' = got \cup {row \in RowsAfter(Cardinality(got)) : row[1] = of}
    /\ at' = "done"
    /\ UNCHANGED <<storeVars, runsVars, reader, of, scope, seenStatus, pagerVars, item>>

\* GET events: one number for the events of every run.
ListSessionEvents ==
    /\ at = "resume"
    /\ scope = "session"
    /\ got' = got \cup RowsAfter(Cardinality(got))
    /\ at' = "done"
    /\ UNCHANGED <<storeVars, runsVars, reader, of, scope, seenStatus, pagerVars, item>>

---------------------------------------------------------------------------
(* The timeline, a page at a time *)

Position(r) == CHOOSE i \in DOMAIN messages : messages[i] = r

\* The key of the cursor: (created_at, id) over the database; in memory the
\* place of the message.
Older(q, r) ==
    IF store = "memory" THEN Position(q) < Position(r)
    ELSE created[q] < created[r] \/ (created[q] = created[r] /\ q < r)

\* Mutant of BeforeCursor: messages of one time are taken for one message.
BeforeCursor_byTime ==
    IF cursor = 0 THEN Committed ELSE {r \in Committed : created[r] < created[cursor]}

BeforeCursor ==
    IF cursor = 0 THEN Committed ELSE {r \in Committed : Older(r, cursor)}

\* The newest messages before the cursor, at most a page of them.
Page ==
    {r \in BeforeCursor : Cardinality({q \in BeforeCursor : Older(r, q)}) < PageSize}

HasMoreBefore == Cardinality(BeforeCursor) > PageSize

Oldest(S) == CHOOSE r \in S : \A q \in S \ {r} : Older(r, q)

\* Newest first; the page itself is reversed for the reader.
NewestFirst(S) ==
    CHOOSE s \in [1..Cardinality(S) -> S] :
        \A i, j \in DOMAIN s : i < j => Older(s[j], s[i])

ListPage ==
    /\ reader = "pager"
    /\ at \in {"start", "more"}
    /\ Page # {}
    /\ pages' = pages \o NewestFirst(Page)
    /\ cursor' = Oldest(Page)
    /\ missable' = IF at = "start" THEN Committed ELSE missable
    /\ at' = IF HasMoreBefore THEN "more" ELSE "done"
    /\ UNCHANGED <<storeVars, runsVars, reader, of, clientVars, item>>

---------------------------------------------------------------------------
(* A share: one item of its timeline, and its events *)

SelectItem(r) ==
    /\ reader = "sharer"
    /\ at = "start"
    /\ r \in Committed
    /\ of' = r
    /\ at' = "run"
    /\ UNCHANGED <<storeVars, runsVars, reader, clientVars, pagerVars, item>>

Read(here, there, now) ==
    /\ reader = "sharer"
    /\ at = here
    /\ at' = there
    /\ item' = now
    /\ UNCHANGED <<storeVars, runsVars, reader, of, clientVars, pagerVars>>

\* _get_run_by_message, _get_summary_by_run, _count_events_by_run: READ COMMITTED,
\* so each sees its own moment.
ReadRun == Read("run", "summary", [item EXCEPT !.status = runStatus[of]])
ReadSummary == Read("summary", "count", [item EXCEPT !.summary = of \in summaries])
CountEvents == Read("count", "events", [item EXCEPT !.count = Len(events[of])])

\* list_events of the session, after the timeline.
SnapshotEvents == Read("events", "done", [item EXCEPT !.events = Rows])

---------------------------------------------------------------------------

Write(r) ==
    \/ BeginMessage(r) \/ CommitMessage(r) \/ StartRun(r) \/ AppendEvent(r)
    \/ CancelRun(r) \/ CompleteRun(r) \/ SaveSummary(r) \/ AppendExport(r)

Next ==
    \/ Tick
    \/ \E r \in Turns : Write(r) \/ Reconnect(r) \/ SelectItem(r)
    \/ ReadStatus \/ ReplayRun \/ ListSessionEvents
    \/ ListPage
    \/ ReadRun \/ ReadSummary \/ CountEvents \/ SnapshotEvents

Spec == Init /\ [][Next]_vars

---------------------------------------------------------------------------
(* Properties *)

\* The events of the run up to the one its status rests on, each of them here.
WholeIn(r, rows) ==
    \E seq \in DOMAIN events[r] :
        events[r][seq] = "decision" /\ \A k \in 1..seq : <<r, k>> \in rows

\* afterSeq resumes: a client that was told its run is completed has all events
\* the status rests on.  The number of GET events, which counts each run from
\* one, only resumes a session one run of which has events.
ReplayIsWhole ==
    reader = "client" /\ at = "done" =>
        /\ seenStatus = "completed" => WholeIn(of, got)
        /\ \/ scope = "session" /\ \E row \in got : row[1] # of
           \/ \A row \in got : \A seq \in 1..row[2] : <<of, seq>> \in got

\* Following the cursors shows every message there was at the first page, and
\* none twice or out of order, whatever is committed late in between.
PagingShowsEachTurnOnce ==
    /\ \A i, j \in DOMAIN pages :
          i < j => /\ pages[i] # pages[j]
                   /\ store = "database" => created[pages[j]] <= created[pages[i]]
    /\ reader = "pager" /\ at = "done" =>
          \A r \in missable : \E i \in DOMAIN pages : pages[i] = r

\* A timeline item shown as completed counts, and the snapshot around it has, the
\* events its status rests on, though each is read in its own moment.
CompletedItemHasEvents ==
    item.status = "completed" =>
        /\ at = "events" => WholeIn(of, {<<of, k>> : k \in 1..item.count})
        /\ at = "done" => WholeIn(of, item.events)
=============================================================================
