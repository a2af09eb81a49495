------------------------- MODULE DashboardReadModel -------------------------
(***************************************************************************)
(* The dashboard over the aggregates of AggregateRefresh:                  *)
(* DashboardReadModelRefreshService rewrites three read models, each in a  *)
(* transaction of its own, at start-up on the main thread and again and    *)
(* again on the scheduler thread that also refreshes the aggregates;       *)
(* DashboardReadServiceImpl answers summaries from them with five          *)
(* statements, through DashboardLocalCache.                                *)
(*                                                                         *)
(* The two log models, whose source table nothing else here touches, are   *)
(* left out.  A row set carries the second of its refreshed_at.            *)
(***************************************************************************)
EXTENDS AggregateRefresh, Sequences

CONSTANTS
    ModelOrder,    \* the order of refreshAll
    AlarmValues,   \* values of data_status 2 and 3
    Readers,       \* requests for the summary of one area and period
    TTL,           \* summary-cache-ttl in seconds
    MaxCalls       \* bound: summaries asked for

VARIABLES
    models,        \* read-model tables: model -> [rows, refreshedAt]
    modelState,    \* dashboard_read_model_refresh_state: model -> row or None; insertedAt
                   \* is history: the stamp of the rows its transaction inserted
    cache,         \* the entry of the key: [value, expiresAt] or None
    reader,        \* what each request is doing
    calls          \* bound: summaries asked for so far

dashboardVars == <<models, modelState, cache, reader, calls>>
vars == <<aggregateVars, dashboardVars>>

RefreshAllOrder == <<"areaMetricDaily", "areaCurrentSummary", "alarmRecent">>
ASSUME DashboardAssumption ==
    /\ AlarmValues \subseteq Values
    /\ TTL \in Nat \ {0} /\ MaxCalls \in Nat
    /\ ModelOrder # <<>>
    /\ \E n \in 1 .. Len(RefreshAllOrder) : ModelOrder = SubSeq(RefreshAllOrder, 1, n)
Models == {ModelOrder[k] : k \in DOMAIN ModelOrder}

(***************************************************************************)
(* What the INSERT ... SELECT of each model computes.                      *)
(***************************************************************************)
COUNTRY == 100000

\* The four branches of UNION ALL give a row of an area to the area itself, to
\* its city, to its province and to the country; a branch whose WHERE drops the
\* row gives it to none.
Branches(area) ==
    <<area,
      IF area % 100 # 0 THEN (area \div 100) * 100 ELSE None,
      IF area % 10000 # 0 THEN (area \div 10000) * 10000 ELSE None,
      COUNTRY>>
\* How often the sum of scope c takes in a row of the area: twice when a row
\* names the country itself.
Times(area, c) == Cardinality({n \in 1 .. 4 : Branches(area)[n] = c})
Scopes(area) == {Branches(area)[n] : n \in 1 .. 4} \ {None}
AllScopes == UNION {Scopes(a) : a \in Areas}

SamplesOf(c) ==
    UNION {{[sample |-> x, times |-> Times(a, c)] : x \in daily[a]} : a \in {b \in Areas : c \in Scopes(b)}}
AreaMetricRows ==
    {[area |-> c, samples |-> SamplesOf(c)] :
        c \in UNION {Scopes(a) : a \in {b \in Areas : daily[b] # {}}}}

SensorsOf(c) == {s \in Sensors : sensor[s] # None /\ c \in Scopes(sensor[s])}
SensorCount(c) == Cardinality({x \in SensorsOf(c) \X (1 .. 4) : Branches(sensor[x[1]])[x[2]] = c})
\* Tasks, which join like sensors, are left out.
AreaCurrentRows ==
    LET metricAreas == {r.area : r \in models["areaMetricDaily"].rows}
    IN  {[area |-> c, sensors |-> SensorCount(c)] :
            c \in metricAreas \cup {d \in AllScopes : SensorsOf(d) # {}}}

\* The LIMIT, thousands of rows, is left out.
AlarmRows ==
    UNION {{[area |-> a, alarm |-> x] : x \in {y \in Aggregate[a] : y.value \in AlarmValues}} : a \in Areas}

RowsFor(m) ==
    CASE m = "areaMetricDaily"    -> AreaMetricRows
      [] m = "areaCurrentSummary" -> AreaCurrentRows
      [] m = "alarmRecent"        -> AlarmRows

(***************************************************************************)
(* refreshAll, on either thread.                                           *)
(***************************************************************************)

\* mutant: one model too many
Advance_offByOne(t) ==
    thread' = [thread EXCEPT ![t] =
                 IF thread[t].k <= Len(ModelOrder) THEN [at |-> "models", k |-> thread[t].k + 1] ELSE Idle]

Advance(t) ==
    thread' = [thread EXCEPT ![t] =
                 IF thread[t].k < Len(ModelOrder) THEN [at |-> "models", k |-> thread[t].k + 1] ELSE Idle]

BeginRefreshAll ==
    /\ thread["scheduler"] = Idle
    /\ thread' = [thread EXCEPT !["scheduler"] = [at |-> "models", k |-> 1]]
    /\ UNCHANGED <<inspection, sensor, daily, dailySummary, refreshState, clock, changes, failures, blind>>
    /\ UNCHANGED dashboardVars

AtModel(t) == ModelOrder[thread[t].k]
InModelTransaction == {"models", "deleted", "inserted"}

\* mutant: the rows are only overwritten, so no lock is taken
DeleteRows_unlocked(t) ==
    /\ thread[t].at = "models"
    /\ thread' = [thread EXCEPT ![t] = [at |-> "deleted", k |-> thread[t].k, since |-> clock]]
    /\ UNCHANGED <<inspection, sensor, daily, dailySummary, refreshState, clock, changes, failures, blind>>
    /\ UNCHANGED dashboardVars

\* The DELETE locks the table until the commit: that of the other thread waits,
\* or, the table being empty, one of the two INSERTs ends in a deadlock.
DeleteRows(t) ==
    /\ thread[t].at = "models"
    /\ \A u \in Threads : ~(thread[u].at \in {"deleted", "inserted"} /\ thread[u].k = thread[t].k)
    /\ thread' = [thread EXCEPT ![t] = [at |-> "deleted", k |-> thread[t].k, since |-> clock]]
    /\ UNCHANGED <<inspection, sensor, daily, dailySummary, refreshState, clock, changes, failures, blind>>
    /\ UNCHANGED dashboardVars

\* INSERT ... SELECT stamps the rows with the second in which it starts, and
\* reads its sources once it has the locks it waits for.
InsertRows(t) ==
    /\ thread[t].at = "deleted"
    /\ \E now \in thread[t].since .. clock :
         thread' = [thread EXCEPT ![t] = [at |-> "inserted", k |-> thread[t].k,
                                          rows |-> RowsFor(AtModel(t)), refreshedAt |-> now]]
    /\ UNCHANGED <<inspection, sensor, daily, dailySummary, refreshState, clock, changes, failures, blind>>
    /\ UNCHANGED dashboardVars

\* recordSuccess, a later statement with a NOW() of its own, and the commit.
RecordSuccess(t) ==
    /\ thread[t].at = "inserted"
    /\ models' = [models EXCEPT ![AtModel(t)] =
                    [rows |-> thread[t].rows, refreshedAt |-> thread[t].refreshedAt]]
    /\ \E now \in thread[t].refreshedAt .. clock :
         modelState' = [modelState EXCEPT ![AtModel(t)] =
                          [status |-> "SUCCESS", refreshedAt |-> now, insertedAt |-> thread[t].refreshedAt]]
    /\ Advance(t)
    /\ UNCHANGED <<inspection, sensor, daily, dailySummary, refreshState, clock, changes, failures, blind>>
    /\ UNCHANGED <<cache, reader, calls>>

\* mutant: no transaction, so the DELETE stays
RefreshModelFails_noRollback(t) ==
    /\ thread[t].at \in InModelTransaction /\ failures < MaxFailures
    /\ failures' = failures + 1
    /\ thread' = [thread EXCEPT ![t] = [at |-> "modelFailed", k |-> thread[t].k]]
    /\ models' = [models EXCEPT ![AtModel(t)] = [rows |-> {}, refreshedAt |-> None]]
    /\ UNCHANGED <<inspection, sensor, daily, dailySummary, refreshState, clock, changes, blind>>
    /\ UNCHANGED <<modelState, cache, reader, calls>>

\* A statement raises: the tables are rolled back.
RefreshModelFails(t) ==
    /\ thread[t].at \in InModelTransaction /\ failures < MaxFailures
    /\ failures' = failures + 1
    /\ thread' = [thread EXCEPT ![t] = [at |-> "modelFailed", k |-> thread[t].k]]
    /\ UNCHANGED <<inspection, sensor, daily, dailySummary, refreshState, clock, changes, blind>>
    /\ UNCHANGED dashboardVars

RecordModelFailure(t) ==
    /\ thread[t].at = "modelFailed"
    /\ modelState' = [modelState EXCEPT ![AtModel(t)] =
                      [status |-> "FAILED", refreshedAt |-> clock, insertedAt |-> None]]
    /\ Advance(t)
    /\ UNCHANGED <<inspection, sensor, daily, dailySummary, refreshState, clock, changes, failures, blind>>
    /\ UNCHANGED <<models, cache, reader, calls>>

RecordModelFailureFails(t) ==
    /\ thread[t].at = "modelFailed" /\ failures < MaxFailures
    /\ failures' = failures + 1
    /\ Advance(t)
    /\ UNCHANGED <<inspection, sensor, daily, dailySummary, refreshState, clock, changes, blind>>
    /\ UNCHANGED dashboardVars

(***************************************************************************)
(* getSummary through the cache.                                           *)
(***************************************************************************)
\* refreshed_at of the successful models.
Freshness ==
    [m \in Models |-> IF modelState[m] # None /\ modelState[m].status = "SUCCESS"
                      THEN modelState[m].refreshedAt ELSE None]

Answered(r) == reader[r].at = "answered"
Free(r) == reader[r].at \in {"idle", "answered", "raised"}

Hit == cache # None /\ cache.expiresAt > clock
GetSummaryHit(r) ==
    /\ Free(r) /\ calls < MaxCalls /\ Hit
    /\ calls' = calls + 1
    /\ reader' = [reader EXCEPT ![r] = [at |-> "answered", calledAt |-> clock, value |-> cache.value]]
    /\ UNCHANGED aggregateVars /\ UNCHANGED <<models, modelState, cache>>

GetSummaryMiss(r) ==
    /\ Free(r) /\ calls < MaxCalls /\ ~Hit
    /\ calls' = calls + 1
    /\ reader' = [reader EXCEPT ![r] = [at |-> "load", calledAt |-> clock, next |-> 1, seen |-> {}]]
    /\ UNCHANGED aggregateVars /\ UNCHANGED <<models, modelState, cache>>

\* mutant: the time to live counts from the end of the load
Expiry_fromStore(r) == clock + TTL

Expiry(r) == reader[r].calledAt + TTL

\* The tables that loadSummary asks, each by a statement of its own: the current
\* row, the trend, today's warnings and the alarms.
LoadOrder == <<"areaCurrentSummary", "areaMetricDaily", "areaMetricDaily", "alarmRecent">>

\* Of the rows that a statement finds the reader keeps the table and the stamp.
Stamps(m) == {[model |-> x, refreshedAt |-> models[x].refreshedAt] :
                x \in {y \in Models : y = m /\ models[y].rows # {}}}
ReadRows(r) ==
    /\ reader[r].at = "load" /\ reader[r].next <= Len(LoadOrder)
    /\ reader' = [reader EXCEPT ![r].next = @ + 1, ![r].seen = @ \cup Stamps(LoadOrder[reader[r].next])]
    /\ UNCHANGED aggregateVars /\ UNCHANGED <<models, modelState, cache, calls>>

\* The freshness is asked for last.  The caller stores the summary over whatever
\* entry is there by now.
StoreSummary(r) ==
    /\ reader[r].at = "load" /\ reader[r].next > Len(LoadOrder)
    /\ cache' = [value |-> [loadedFrom |-> reader[r].calledAt, seen |-> reader[r].seen, freshness |-> Freshness],
                 expiresAt |-> Expiry(r)]
    /\ reader' = [reader EXCEPT ![r] = [at |-> "answered", calledAt |-> reader[r].calledAt, value |-> cache'.value]]
    /\ UNCHANGED aggregateVars /\ UNCHANGED <<models, modelState, calls>>

\* A statement raises: nothing is cached, and the older endpoints ask the raw tables.
LoadRaises(r) ==
    /\ reader[r].at = "load" /\ failures < MaxFailures
    /\ failures' = failures + 1
    /\ reader' = [reader EXCEPT ![r] = [at |-> "raised"]]
    /\ UNCHANGED <<inspection, sensor, daily, dailySummary, refreshState, thread, clock, changes, blind>>
    /\ UNCHANGED <<models, modelState, cache, calls>>

(***************************************************************************)
(* The web server.                                                         *)
(***************************************************************************)
Init ==
    /\ AggregateInit
    /\ thread = [t \in Threads |-> IF t = "scheduler" THEN Idle ELSE [at |-> "models", k |-> 1]]
    /\ models = [m \in Models |-> [rows |-> {}, refreshedAt |-> None]]
    /\ modelState = [m \in Models |-> None]
    /\ cache = None
    /\ reader = [r \in Readers |-> [at |-> "idle"]]
    /\ calls = 0

ModelStep(t) ==
    \/ DeleteRows(t) \/ InsertRows(t) \/ RecordSuccess(t)
    \/ RefreshModelFails(t) \/ RecordModelFailure(t) \/ RecordModelFailureFails(t)
ReaderStep(r) ==
    GetSummaryHit(r) \/ GetSummaryMiss(r) \/ ReadRows(r) \/ StoreSummary(r) \/ LoadRaises(r)
BeginAggregate == BeginRefresh /\ UNCHANGED dashboardVars
RefreshDate == RefreshStep /\ UNCHANGED dashboardVars
Source == SourceStep /\ UNCHANGED dashboardVars

Next ==
    \/ Source
    \/ BeginAggregate \/ RefreshDate
    \/ BeginRefreshAll \/ \E t \in Threads : ModelStep(t)
    \/ \E r \in Readers : ReaderStep(r)

Spec == Init /\ [][Next]_vars

\* The read models and their readers alone, over tables that stand still.
DashboardNext ==
    \/ Tick /\ UNCHANGED dashboardVars
    \/ BeginRefreshAll \/ \E t \in Threads : ModelStep(t)
    \/ \E r \in Readers : ReaderStep(r)
DashboardSpec == Init /\ [][DashboardNext]_vars

\* The scheduler thread runs both jobs again and again, and a started job goes
\* on; writers and readers are free.
Fairness ==
    /\ SF_vars(BeginAggregate) /\ SF_vars(BeginRefreshAll)
    /\ WF_vars(RefreshDate)
    /\ \A t \in Threads : WF_vars(ModelStep(t))
FairSpec == Spec /\ Fairness

(***************************************************************************)
(* Properties.                                                             *)
(***************************************************************************)
Stamp == (0 .. MaxTime) \cup {None}

TypeOK ==
    /\ AggregateTypeOK
    /\ \A t \in Threads :
         \/ thread[t] \in [at : {"idle", "failed"}]
         \/ thread[t].at \in InModelTransaction \cup {"modelFailed"} /\ thread[t].k \in DOMAIN ModelOrder
         \/ thread[t].at = "refresh" /\ thread[t] \in Refresh /\ t = "scheduler"
    /\ \A m \in Models : models[m].refreshedAt \in Stamp
    /\ \A m \in Models :
         modelState[m] \in [status : {"SUCCESS", "FAILED"}, refreshedAt : 0 .. MaxTime, insertedAt : Stamp] \cup {None}
    /\ cache # None => cache.expiresAt \in TTL .. MaxTime + TTL
    /\ \A r \in Readers : reader[r].at \in {"idle", "load", "answered", "raised"}
    /\ calls \in 0 .. MaxCalls

\* A model recorded as SUCCESS holds the rows that the recording transaction
\* inserted, stamped no later than the record, whatever failed since and
\* whichever thread refreshed it (lines 105-156).
FreshnessVouchesForRows ==
    \A m \in Models : Freshness[m] # None =>
        /\ models[m].refreshedAt = modelState[m].insertedAt
        /\ models[m].refreshedAt <= Freshness[m]

\* Though its statements may see the tables of different refreshes, a summary
\* never names a freshness older than any row it shows (DashboardReadServiceImpl
\* lines 51-58).
FreshnessCoversRows ==
    \A r \in Readers : Answered(r) =>
        \A x \in reader[r].value.seen :
            reader[r].value.freshness[x.model] # None => x.refreshedAt <= reader[r].value.freshness[x.model]

\* A summary never rests on a load that began a full TTL before it was asked
\* for, although slow loads overwrite newer entries (DashboardLocalCache:25-37).
ServedWithinTTL ==
    \A r \in Readers : Answered(r) => reader[r].calledAt < reader[r].value.loadedFrom + TTL

\* Every change of the day reaches the daily rows and the area rows of the
\* dashboard for good, unless it is blind: failures only delay it.
ChangesReachDashboard ==
    <>[](blind \/ (daily = Aggregate /\ models["areaMetricDaily"].rows = AreaMetricRows))
=============================================================================
