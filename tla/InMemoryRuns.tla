---------------------------- MODULE InMemoryRuns ----------------------------
(***************************************************************************)
(* The dictionary store of the Agent (server-agent, settings.use_in_memory_*)
(* store): one session, its message runs, the three endpoints that execute *)
(* a run, and the preferences of one user.  Everything runs in one event   *)
(* loop, and a coroutine that finds its data in a dictionary never gives   *)
(* it up; so a step below is the code between two real suspensions: the    *)
(* runtime, the poll for a disconnect, the export call, a yield.           *)
(* Left out: titles, pins, times and the last_seq entry, which are written *)
(* and never read back here.                                               *)
(***************************************************************************)
EXTENDS Naturals, Sequences, FiniteSets

CONSTANTS
    Runs,        \* runs created by messages, in _sessions[..]["runs"]
    Streams,     \* executions of the two stream endpoints
    Posts,       \* executions of POST runs
    NoRun,
    TextOf,      \* the kind of text a run works on
    Handled,     \* bound: the runs whose preference its user acts on
    Ends,        \* the events the runtime ends with: run_completed (ReAct),
                 \* run_failed or awaiting_user (pipeline)
    MaxEvents    \* bound: events of one run, run_failed and exports aside

\* A stream without a run id and a POST make up the id of a run that is in no
\* dictionary of runs: they name it.
Handlers == Streams \cup Posts
RunIds == Runs \cup Handlers

\* What the extraction tells apart: nothing to remember, a low-risk preference,
\* one that also has a trigger word (记住, 以后, 默认, 下次), one to be confirmed.
Texts == {"plain", "style", "remember", "policy"}
HasPreference(text) == text # "plain"
NeedsConfirmation(text) == text = "policy"
HasTriggerWord(text) == text = "remember"
KeyOf(text) == IF text = "policy" THEN "analysis.risk_policy" ELSE "answer.style"

ASSUME ConstantsAssumption ==
    /\ Runs \cap Handlers = {}
    /\ Streams \cap Posts = {}
    /\ NoRun \notin RunIds
    /\ TextOf \in [RunIds -> Texts]
    /\ Handled \subseteq RunIds
    /\ Ends \subseteq {"run_completed", "run_failed", "awaiting_user"}
    /\ MaxEvents \in Nat \ {0}

VARIABLES
    present,     \* the session is in _sessions
    status,      \* session["status"]
    active,      \* session["active_run_id"]
    current,     \* session["run_id"]
    shown,       \* the run whose list session["events"] is
    answers,     \* the runs of the assistant messages
    runStatus,   \* run["status"], "none" before the run exists
    events,      \* types of the events in a run's list
    flags,       \* _cancelled_run_ids
    pc,          \* where a handler is
    target,      \* the run it executes
    legacy,      \* runs with a version 1 row in _memory_candidates
    candidate,   \* per run, the status of its preference candidate
    memory       \* per run, the status of the memory made from it

sessionVars == <<present, status, active, current, shown, answers>>
runVars == <<runStatus, events>>
handlerVars == <<pc, target>>
memoryVars == <<legacy, candidate, memory>>
vars == <<sessionVars, runVars, flags, handlerVars, memoryVars>>

Deciding == {"run_completed", "run_failed", "awaiting_user"}
ActiveStatuses == {"created", "running"}
RunStatuses == {"none", "created", "running", "completed", "failed", "cancelled",
                "awaiting_user"}

TypeOK ==
    /\ present \in BOOLEAN
    /\ status \in (RunStatuses \ {"none"}) \cup {"archived"}
    /\ active \in Runs \cup {NoRun}
    /\ current \in RunIds \cup {NoRun}
    /\ shown \in RunIds \cup {NoRun}
    /\ answers \in Seq(Runs)
    /\ runStatus \in [Runs -> RunStatuses]
    /\ events \in [RunIds -> Seq(Deciding \cup {"step", "export"})]
    /\ \A r \in RunIds : Len(events[r]) <= MaxEvents + 1
    /\ flags \subseteq RunIds
    /\ pc \in [Handlers -> {"idle", "loop", "polled", "posting", "completed",
                            "exported", "done", "dropped"}]
    /\ target \in [Handlers -> RunIds \cup {NoRun}]
    /\ legacy \subseteq Runs
    /\ candidate \in [RunIds -> {"none", "pending", "accepted", "rejected"}]
    /\ memory \in [RunIds -> {"none", "active", "expired", "deleted"}]

\* create_session has just returned.
Init ==
    /\ present = TRUE
    /\ status = "created"
    /\ active = NoRun
    /\ current = NoRun
    /\ shown = NoRun
    /\ answers = <<>>
    /\ runStatus = [r \in Runs |-> "none"]
    /\ events = [r \in RunIds |-> <<>>]
    /\ flags = {}
    /\ pc = [h \in Handlers |-> "idle"]
    /\ target = [h \in Handlers |-> NoRun]
    /\ legacy = {}
    /\ candidate = [r \in RunIds |-> "none"]
    /\ memory = [r \in RunIds |-> "none"]

Goto(h, label) == pc' = [pc EXCEPT ![h] = label]

IsOpen(r) == r \in Runs /\ runStatus[r] \in ActiveStatuses

\* Mutant of DeriveStatus: the type of the last event is taken for the status.
DeriveStatus_raw(list) == list[Len(list)]

\* derive_run_status.
DeriveStatus(list) ==
    IF list = <<>> THEN "failed"
    ELSE CASE list[Len(list)] = "run_completed" -> "completed"
           [] list[Len(list)] = "awaiting_user" -> "awaiting_user"
           [] OTHER                             -> "failed"

\* Mutant of SetRunStatus: the session is not told.
SetRunStatus_rowOnly(r, s) ==
    /\ runStatus' = IF r \in Runs THEN [runStatus EXCEPT ![r] = s] ELSE runStatus
    /\ active' = IF r \in Runs THEN NoRun ELSE active
    /\ UNCHANGED status

\* Only a message run has a row, and only its end frees the session.
SetRunStatus(r, s) ==
    /\ runStatus' = IF r \in Runs THEN [runStatus EXCEPT ![r] = s] ELSE runStatus
    /\ active' = IF r \in Runs THEN NoRun ELSE active
    /\ status' = s

---------------------------------------------------------------------------
(* Messages and streams *)

\* Mutant of ActiveRunBlocks: a run that nobody streams yet does not count.
ActiveRunBlocks_running == active # NoRun /\ runStatus[active] = "running"

ActiveRunBlocks == active # NoRun /\ IsOpen(active)

CreateMessage(r) ==
    /\ present
    /\ runStatus[r] = "none"
    /\ ~ActiveRunBlocks
    /\ runStatus' = [runStatus EXCEPT ![r] = "created"]
    /\ active' = r
    /\ current' = r
    /\ status' = "running"
    /\ UNCHANGED <<present, shown, answers, events, flags, handlerVars, memoryVars>>

\* Mutant of OpenRun: the run is marked as running by the generator only.
OpenRun_late(h, r) ==
    /\ present
    /\ pc[h] = "idle"
    /\ runStatus[r] = "created"
    /\ status' = "running"
    /\ target' = [target EXCEPT ![h] = r]
    /\ Goto(h, "loop")
    /\ UNCHANGED <<present, active, current, shown, answers, runVars, flags,
                   memoryVars>>

\* Mutant of OpenRun: a settled run is executed again instead of replayed.
OpenRun_again(h, r) ==
    /\ present
    /\ pc[h] = "idle"
    /\ runStatus[r] \in {"created", "failed"}
    /\ runStatus' = [runStatus EXCEPT ![r] = "running"]
    /\ status' = "running"
    /\ target' = [target EXCEPT ![h] = r]
    /\ Goto(h, "loop")
    /\ UNCHANGED <<present, active, current, shown, answers, events, flags,
                   memoryVars>>

\* GET runs/{id}/stream: a terminal run is only replayed and a running one
\* refused; neither changes anything.
OpenRun(h, r) ==
    /\ present
    /\ pc[h] = "idle"
    /\ runStatus[r] = "created"
    /\ runStatus' = [runStatus EXCEPT ![r] = "running"]
    /\ status' = "running"
    /\ target' = [target EXCEPT ![h] = r]
    /\ Goto(h, "loop")
    /\ UNCHANGED <<present, active, current, shown, answers, events, flags,
                   memoryVars>>

\* GET runs/stream.
OpenSession(h) ==
    /\ present
    /\ pc[h] = "idle"
    /\ current = NoRun
    /\ current' = h
    /\ status' = "running"
    /\ target' = [target EXCEPT ![h] = h]
    /\ Goto(h, "loop")
    /\ UNCHANGED <<present, active, shown, answers, runVars, flags, memoryVars>>

\* POST runs: nothing is written before the runtime has returned.
StartPost(h) ==
    /\ present
    /\ pc[h] = "idle"
    /\ current = NoRun
    /\ target' = [target EXCEPT ![h] = h]
    /\ Goto(h, "posting")
    /\ UNCHANGED <<sessionVars, runVars, flags, memoryVars>>

PostReturns(h) ==
    /\ pc[h] = "posting"
    /\ \E last \in Ends :
          /\ events' = [events EXCEPT ![h] = <<last>>]
          /\ status' = DeriveStatus(<<last>>)
    /\ current' = h
    /\ shown' = h
    /\ Goto(h, "done")
    /\ UNCHANGED <<present, active, answers, runStatus, flags, target, memoryVars>>

\* Nothing catches it.
PostRaises(h) ==
    /\ pc[h] = "posting"
    /\ Goto(h, "done")
    /\ UNCHANGED <<sessionVars, runVars, flags, target, memoryVars>>

---------------------------------------------------------------------------
(* The loop of a stream *)

Decided(h) ==
    LET list == events[target[h]]
    IN  list # <<>> /\ list[Len(list)] \in Deciding

\* The runtime has an event, and the flag is not set; the next thing is a poll.
Poll(h) ==
    /\ pc[h] = "loop"
    /\ ~Decided(h)
    /\ target[h] \notin flags
    /\ Goto(h, "polled")
    /\ UNCHANGED <<sessionVars, runVars, flags, target, memoryVars>>

SeeCancel(h) ==
    /\ pc[h] = "loop"
    /\ ~Decided(h)
    /\ target[h] \in flags
    /\ SetRunStatus(target[h], "cancelled")
    /\ Goto(h, "done")
    /\ UNCHANGED <<present, current, shown, answers, events, flags, target,
                   memoryVars>>

\* Mutant of SeeDisconnect: the run is cancelled, but not in _cancelled_run_ids.
SeeDisconnect_unflagged(h) ==
    /\ pc[h] = "polled"
    /\ SetRunStatus(target[h], "cancelled")
    /\ Goto(h, "done")
    /\ UNCHANGED <<present, current, shown, answers, events, flags, target, memoryVars>>

SeeDisconnect(h) ==
    /\ pc[h] = "polled"
    /\ SetRunStatus(target[h], "cancelled")
    /\ flags' = flags \cup {target[h]}
    /\ Goto(h, "done")
    /\ UNCHANGED <<present, current, shown, answers, events, target, memoryVars>>

AppendEvent(h) ==
    /\ pc[h] = "polled"
    /\ \E type \in IF Len(events[target[h]]) < MaxEvents - 1
                   THEN Ends \cup {"step"} ELSE Ends :
          events' = [events EXCEPT ![target[h]] = Append(@, type)]
    /\ shown' = target[h]
    /\ Goto(h, "loop")
    /\ UNCHANGED <<present, status, active, current, answers, runStatus, flags,
                   target, memoryVars>>

\* except Exception.
RuntimeRaises(h) ==
    /\ pc[h] = "loop"
    /\ ~Decided(h)
    /\ events' = [events EXCEPT ![target[h]] = Append(@, "run_failed")]
    /\ shown' = target[h]
    /\ SetRunStatus(target[h], "failed")
    /\ Goto(h, "done")
    /\ UNCHANGED <<present, current, answers, flags, target, memoryVars>>

\* The client goes while the generator is suspended, which closes it or
\* cancels its task: neither is an Exception, and nothing is cleaned up.
Drop(h) ==
    /\ pc[h] \in {"loop", "polled", "completed", "exported"}
    /\ Goto(h, "dropped")
    /\ UNCHANGED <<sessionVars, runVars, flags, target, memoryVars>>

---------------------------------------------------------------------------
(* The end of a stream: run, export, preferences *)

\* _append_active_user_memory: the user's active memory of the key expires.
\* Mutant of WithActive: it does not.
WithActive_keeps(store, r) == [store EXCEPT ![r] = "active"]

WithActive(store, r) ==
    [m \in RunIds |->
        IF m = r THEN "active"
        ELSE IF store[m] = "active" /\ KeyOf(TextOf[m]) = KeyOf(TextOf[r])
             THEN "expired" ELSE store[m]]

\* _store_preference_memories.
StorePreferences(r) ==
    IF ~HasPreference(TextOf[r]) THEN UNCHANGED <<candidate, memory>>
    ELSE IF NeedsConfirmation(TextOf[r])
    THEN candidate' = [candidate EXCEPT ![r] = "pending"] /\ UNCHANGED memory
    ELSE /\ candidate' = [candidate EXCEPT ![r] = "accepted"]
         /\ memory' = WithActive(memory, r)

\* complete_in_memory_message_run.  Its version 1 candidate goes again as soon
\* as the extraction stores a preference.
CompleteRun(h) ==
    LET r == target[h]
        final == DeriveStatus(events[r])
    IN  /\ pc[h] = "loop"
        /\ Decided(h)
        /\ r \in Runs
        /\ SetRunStatus(r, final)
        /\ answers' = Append(answers, r)

\* No export plan: nothing suspends the generator before the preferences, and
\* what has a trigger word is a preference.
EndWithoutExport(h) ==
    /\ CompleteRun(h)
    /\ StorePreferences(target[h])
    /\ Goto(h, "done")
    /\ UNCHANGED <<present, current, shown, events, flags, target, legacy>>

\* An export plan: the web server is asked for the file.
EndWithExport(h) ==
    /\ CompleteRun(h)
    /\ legacy' = IF HasTriggerWord(TextOf[target[h]])
                 THEN legacy \cup {target[h]} ELSE legacy
    /\ Goto(h, "completed")
    /\ UNCHANGED <<present, current, shown, events, flags, target, candidate, memory>>

\* export_created or export_failed, appended to the list of a settled run.
ExportAnswers(h) ==
    /\ pc[h] = "completed"
    /\ events' = [events EXCEPT ![target[h]] = Append(@, "export")]
    /\ shown' = target[h]
    /\ Goto(h, "exported")
    /\ UNCHANGED <<present, status, active, current, answers, runStatus, flags,
                   target, memoryVars>>

\* Mutant of FileMemories: the version 1 candidate stays.
FileMemories_keepsLegacy(h) ==
    /\ pc[h] = "exported"
    /\ StorePreferences(target[h])
    /\ Goto(h, "done")
    /\ UNCHANGED <<sessionVars, runVars, flags, target, legacy>>

FileMemories(h) ==
    /\ pc[h] = "exported"
    /\ StorePreferences(target[h])
    /\ legacy' = IF HasPreference(TextOf[target[h]])
                 THEN legacy \ {target[h]} ELSE legacy
    /\ Goto(h, "done")
    /\ UNCHANGED <<sessionVars, runVars, flags, target>>

\* The end of GET runs/stream: no row, no answer, no export.
EndSession(h) ==
    /\ pc[h] = "loop"
    /\ Decided(h)
    /\ target[h] \notin Runs
    /\ status' = DeriveStatus(events[target[h]])
    /\ StorePreferences(target[h])
    /\ Goto(h, "done")
    /\ UNCHANGED <<present, active, current, shown, answers, runVars, flags,
                   target, legacy>>

---------------------------------------------------------------------------
(* Control *)

\* cancel_run, of whatever status the run has.
CancelRun(r) ==
    /\ present
    /\ current = r \/ active = r
    /\ runStatus' = IF r \in Runs THEN [runStatus EXCEPT ![r] = "cancelled"]
                    ELSE runStatus
    /\ active' = NoRun
    /\ status' = "cancelled"
    /\ flags' = flags \cup {r}
    /\ UNCHANGED <<present, current, shown, answers, events, handlerVars,
                   memoryVars>>

\* update_session with archived true or false.
SetArchived ==
    /\ present
    /\ status' \in {"archived", "completed"}
    /\ UNCHANGED <<present, active, current, shown, answers, runVars, flags,
                   handlerVars, memoryVars>>

\* delete_session: the generators keep the dictionary they hold.
DeleteSession ==
    /\ present
    /\ present' = FALSE
    /\ flags' = IF active # NoRun THEN flags \cup {active}
                ELSE IF current # NoRun THEN flags \cup {current} ELSE flags
    /\ UNCHANGED <<status, active, current, shown, answers, runVars, handlerVars,
                   memoryVars>>

AcceptCandidate(r) ==
    /\ candidate[r] = "pending"
    /\ candidate' = [candidate EXCEPT ![r] = "accepted"]
    /\ memory' = WithActive(memory, r)
    /\ UNCHANGED <<sessionVars, runVars, flags, handlerVars, legacy>>

\* Of any status, and without looking at the memory.
RejectCandidate(r) ==
    /\ candidate[r] # "none"
    /\ candidate' = [candidate EXCEPT ![r] = "rejected"]
    /\ UNCHANGED <<sessionVars, runVars, flags, handlerVars, legacy, memory>>

DeleteMemory(r) ==
    /\ memory[r] # "none"
    /\ memory' = [memory EXCEPT ![r] = "deleted"]
    /\ UNCHANGED <<sessionVars, runVars, flags, handlerVars, legacy, candidate>>

---------------------------------------------------------------------------

StreamStep(h) ==
    \/ Poll(h) \/ SeeCancel(h) \/ SeeDisconnect(h) \/ AppendEvent(h)
    \/ RuntimeRaises(h) \/ Drop(h)
    \/ EndWithoutExport(h) \/ EndWithExport(h) \/ ExportAnswers(h)
    \/ FileMemories(h) \/ EndSession(h)

Next ==
    \/ \E r \in Runs : CreateMessage(r)
    \/ \E h \in Streams : \E r \in Runs : OpenRun(h, r)
    \/ \E h \in Streams : OpenSession(h) \/ StreamStep(h)
    \/ \E h \in Posts : StartPost(h) \/ PostReturns(h) \/ PostRaises(h)
    \/ \E r \in RunIds : CancelRun(r)
    \/ \E r \in Handled :
          AcceptCandidate(r) \/ RejectCandidate(r) \/ DeleteMemory(r)
    \/ SetArchived
    \/ DeleteSession

Spec == Init /\ [][Next]_vars

---------------------------------------------------------------------------
(* Properties *)

\* The check of the status and its change to running are one step here, so no
\* two streams execute one run, as they can over the database.
ExecutedOnce ==
    \A g, h \in Handlers :
        target[g] = target[h] /\ target[g] # NoRun => g = h

\* 409 SESSION_RUN_IN_PROGRESS: two runs of a session are open together only if
\* some run was cancelled.  A cancelled run's stream forgets active_run_id when
\* it sees the flag, whichever run that names by then; and so does the cancel
\* of a run that has no row.
OneOpenRunUnlessCancelled ==
    Cardinality({r \in Runs : IsOpen(r)}) > 1 => flags # {}

\* A run that settled by itself is only replayed: its status changes but to
\* cancelled, by a late cancel, and its events grow by one report on its export,
\* which a replay before that report does not have.
SettledRunIsOnlyReplayed ==
    [][\A r \in Runs :
          runStatus[r] \in {"completed", "failed", "awaiting_user"} =>
              /\ runStatus'[r] \in {runStatus[r], "cancelled"}
              /\ events'[r] \in {events[r], Append(events[r], "export")}]_vars

\* A session shown as running has an open run, or a stream without a row that is
\* executing or was left by its client.
RunningSessionHasWork ==
    status = "running" =>
        \/ \E r \in Runs : IsOpen(r)
        \/ \E h \in Streams : target[h] = h /\ pc[h] # "done"

\* docs .. agent-memory-v2-design: one active memory per key.
OneActivePerKey ==
    \A q, r \in RunIds :
        memory[q] = "active" /\ memory[r] = "active"
        /\ KeyOf(TextOf[q]) = KeyOf(TextOf[r]) => q = r

\* A preference is remembered by the version 1 row or by its candidate, not by
\* both: the row stays alone only when the stream was cut off in between.
MemoryFiledOnce ==
    \A r \in legacy :
        /\ candidate[r] = "none"
        /\ \E h \in Streams : target[h] = r /\ pc[h] \in {"completed", "exported",
                                                          "dropped"}

\* The outcomes a run's list of events and _cancelled_run_ids tell of it.
Recorded(r) ==
    {DeriveStatus(<<events[r][i]>>) :
        i \in {j \in DOMAIN events[r] : events[r][j] \in Deciding}}
    \cup (IF r \in flags THEN {"cancelled"} ELSE {})

\* A message run that is shown as settled has the event or the flag that settles
\* it, in whichever order a cancel, a lost client and the runtime's end come.
SettledIsRecorded ==
    \A r \in Runs :
        runStatus[r] \notin {"none", "created", "running"} => runStatus[r] \in Recorded(r)

\* What a reader of the session is told; nothing once it is deleted.
Ledger == INSTANCE RunLedger
    WITH status <- [r \in Runs |-> IF present \/ runStatus[r] = "none"
                                   THEN runStatus[r] ELSE "deleted"],
         evidence <- [r \in Runs |-> IF present THEN Recorded(r) ELSE {}]

\* The dictionaries implement the ledger that the database implements, although
\* they settle a run that is cancelled or fails in the step that records it.
ImplementsLedger == Ledger!Spec
=============================================================================
