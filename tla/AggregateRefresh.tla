-------------------------- MODULE AggregateRefresh --------------------------
(***************************************************************************)
(* MonitoringAggregateRefreshService of the web server: the scheduler      *)
(* thread aggregates the inspections of one day into                       *)
(* inspection_metric_daily and inspection_metric_daily_summary, and skips  *)
(* the work when the fingerprint of the inspections (count and newest      *)
(* update_time) is the recorded one, while the monitoring pages add,       *)
(* update and delete inspections and sensors move.                         *)
(*                                                                         *)
(* A refresh is one transaction: its first SELECT fixes the fingerprint,   *)
(* and INSERT ... SELECT reads the inspections as they are when it runs    *)
(* (InnoDB reads the source of an INSERT ... SELECT as committed) and      *)
(* locks them until the commit.  Sums are kept as the sets of samples they *)
(* sum; the clock counts the seconds update_time has.                      *)
(***************************************************************************)
EXTENDS Integers, FiniteSets, FiniteSetsExt

CONSTANTS
    Inspections,   \* ids of the inspection table
    Sensors,       \* ids of the sensor table
    Areas,         \* district codes (six digits)
    Values,        \* measured values of an inspection
    Threads,       \* "scheduler" and the threads of the dashboard refresh
    None,          \* NULL, or no row
    MaxTime,       \* bound: seconds
    MaxChanges,    \* bound: writes to inspection and sensor
    MaxFailures    \* bound: statements that raise

ASSUME BoundsAssumption ==
    /\ {MaxTime, MaxChanges, MaxFailures} \subseteq Nat
    /\ IsFiniteSet(Inspections) /\ IsFiniteSet(Sensors) /\ IsFiniteSet(Areas)
    /\ Areas \subseteq Nat /\ None \notin Nat
    /\ "scheduler" \in Threads

VARIABLES
    inspection,    \* rows of the day: id -> [sensor, value, updateTime]
    sensor,        \* sensor rows: id -> area
    daily,         \* inspection_metric_daily: area -> samples summed, {} = no row
    dailySummary,  \* inspection_metric_daily_summary: samples summed, None = no row
    refreshState,  \* inspection_metric_refresh_state of the day
    thread,        \* what each thread is doing
    clock, changes, failures,
    blind          \* history: a change the recorded fingerprint need not show

aggregateVars == <<inspection, sensor, daily, dailySummary, refreshState, thread,
                   clock, changes, failures, blind>>

Inspection == [sensor : Sensors, value : Values, updateTime : 0 .. MaxTime]
Sample == [id : Inspections, value : Values]
Fingerprint == [sourceCount : 0 .. Cardinality(Inspections), sourceMaxUpdateTime : (0 .. MaxTime) \cup {None}]
\* readAt is history: the second in which the recorded fingerprint was read.
RefreshState == [fingerprint : Fingerprint, aggregateRows : 0 .. Cardinality(Areas),
                 status : {"SUCCESS", "FAILED"}, readAt : (0 .. MaxTime) \cup {None}]

Rows == {i \in Inspections : inspection[i] # None}

\* mutant: the newest update_time is not part of the fingerprint
SourceFingerprint_countOnly ==
    [sourceCount |-> Cardinality(Rows), sourceMaxUpdateTime |-> None]

SourceFingerprint ==
    [sourceCount |-> Cardinality(Rows),
     sourceMaxUpdateTime |-> IF Rows = {} THEN None ELSE Max({inspection[i].updateTime : i \in Rows})]

\* The INNER JOIN with sensor: samples of an area, none for a missing sensor.
Aggregate ==
    [a \in Areas |-> {[id |-> i, value |-> inspection[i].value] :
                        i \in {j \in Rows : sensor[inspection[j].sensor] = a}}]
RowsOf(table) == Cardinality({a \in Areas : table[a] # {}})

(***************************************************************************)
(* The writers.                                                            *)
(***************************************************************************)
Idle == [at |-> "idle"]
InTransaction == thread["scheduler"].at = "refresh"

\* Every write counts.  It is blind when the fingerprint was already read in an
\* open refresh, or when its statement started no later than the second in
\* which the recorded fingerprint was read.
Write(rows, now) ==
    /\ changes < MaxChanges
    /\ changes' = changes + 1
    /\ inspection' = rows
    /\ thread' = IF InTransaction THEN [thread EXCEPT !["scheduler"].raced = TRUE] ELSE thread
    /\ blind' = (blind \/ (refreshState # None /\ refreshState.readAt \in now .. clock))
    /\ UNCHANGED <<sensor, daily, dailySummary, refreshState, clock, failures>>

\* NOW() is the second in which a statement starts; it may then wait for the
\* locks of a rebuild before it changes anything.
AddData(i, s, v) ==
    /\ inspection[i] = None
    /\ \E now \in 0 .. clock :
         Write([inspection EXCEPT ![i] = [sensor |-> s, value |-> v, updateTime |-> now]], now)
UpdateData(i, s, v) ==
    /\ inspection[i] # None
    /\ \E now \in 0 .. clock :
         Write([inspection EXCEPT ![i] = [sensor |-> s, value |-> v, updateTime |-> now]], now)
DeleteData(i) ==
    /\ inspection[i] # None
    /\ Write([inspection EXCEPT ![i] = None], clock)

\* A sensor moves, appears or goes; the fingerprint does not look at sensors.
MoveSensor(s, a) ==
    /\ changes < MaxChanges /\ sensor[s] # a
    /\ changes' = changes + 1
    /\ sensor' = [sensor EXCEPT ![s] = a]
    /\ blind' = TRUE
    /\ UNCHANGED <<inspection, daily, dailySummary, refreshState, thread, clock, failures>>

Tick ==
    /\ clock < MaxTime /\ clock' = clock + 1
    /\ UNCHANGED <<inspection, sensor, daily, dailySummary, refreshState, thread, changes, failures, blind>>

(***************************************************************************)
(* refreshDate on the scheduler thread.                                    *)
(***************************************************************************)
\* readSourceFingerprint, readRefreshState and, for the skip, countAggregateRows:
\* reads of one snapshot.
BeginRefresh ==
    /\ thread["scheduler"] = Idle
    /\ thread' = [thread EXCEPT !["scheduler"] =
                    [at |-> "refresh", fingerprint |-> SourceFingerprint, state |-> refreshState,
                     rows |-> RowsOf(daily), readAt |-> clock, raced |-> FALSE]]
    /\ UNCHANGED <<inspection, sensor, daily, dailySummary, refreshState, clock, changes, failures, blind>>

Tx == thread["scheduler"]

\* mutant: only the newest update_time is compared, so deletions go unseen
Unchanged_noCount ==
    /\ Tx.state # None
    /\ Tx.state.status = "SUCCESS"
    /\ Tx.state.fingerprint.sourceMaxUpdateTime = Tx.fingerprint.sourceMaxUpdateTime

Unchanged ==
    /\ Tx.state # None
    /\ Tx.state.status = "SUCCESS"
    /\ Tx.state.fingerprint.sourceCount = Tx.fingerprint.sourceCount
    /\ Tx.state.fingerprint.sourceMaxUpdateTime = Tx.fingerprint.sourceMaxUpdateTime
    /\ Tx.state.aggregateRows = Tx.rows

\* upsertState, the last statement, and the commit.
Commit(rows) ==
    /\ refreshState' = [fingerprint |-> Tx.fingerprint, aggregateRows |-> rows,
                        status |-> "SUCCESS", readAt |-> Tx.readAt]
    /\ blind' = Tx.raced
    /\ thread' = [thread EXCEPT !["scheduler"] = Idle]

RefreshEmpty ==
    /\ InTransaction
    /\ Tx.fingerprint.sourceCount = 0
    /\ daily' = [a \in Areas |-> {}]
    /\ dailySummary' = None
    /\ Commit(0)
    /\ UNCHANGED <<inspection, sensor, clock, changes, failures>>

SkipUnchanged ==
    /\ InTransaction
    /\ Tx.fingerprint.sourceCount # 0
    /\ Unchanged
    /\ thread' = [thread EXCEPT !["scheduler"] = Idle]
    /\ UNCHANGED <<inspection, sensor, daily, dailySummary, refreshState, clock, changes, failures, blind>>

\* mutant: the summary is computed before the daily rows are inserted
SummaryOf_beforeInsert(table) ==
    IF RowsOf(daily) = 0 THEN dailySummary ELSE UNION {daily[a] : a \in Areas}

\* INSERT ... SELECT ... GROUP BY stat_date: no daily row, no change.
SummaryOf(table) ==
    IF RowsOf(table) = 0 THEN dailySummary ELSE UNION {table[a] : a \in Areas}

Rebuild ==
    /\ InTransaction
    /\ Tx.fingerprint.sourceCount # 0
    /\ ~Unchanged
    /\ daily' = Aggregate
    /\ dailySummary' = SummaryOf(daily')
    /\ Commit(RowsOf(daily'))
    /\ UNCHANGED <<inspection, sensor, clock, changes, failures>>

\* A statement raises: the transaction is rolled back and the failure recorded
\* by a statement of its own, which keeps the numbers of the row and may fail.
RefreshFails ==
    /\ InTransaction /\ failures < MaxFailures
    /\ failures' = failures + 1
    /\ thread' = [thread EXCEPT !["scheduler"] = [at |-> "failed"]]
    /\ UNCHANGED <<inspection, sensor, daily, dailySummary, refreshState, clock, changes, blind>>

RecordFailure ==
    /\ Tx.at = "failed"
    /\ refreshState' = IF refreshState = None
                       THEN [fingerprint |-> [sourceCount |-> 0, sourceMaxUpdateTime |-> None],
                             aggregateRows |-> 0, status |-> "FAILED", readAt |-> None]
                       ELSE [refreshState EXCEPT !.status = "FAILED"]
    /\ thread' = [thread EXCEPT !["scheduler"] = Idle]
    /\ UNCHANGED <<inspection, sensor, daily, dailySummary, clock, changes, failures, blind>>

RecordFailureFails ==
    /\ Tx.at = "failed" /\ failures < MaxFailures
    /\ failures' = failures + 1
    /\ thread' = [thread EXCEPT !["scheduler"] = Idle]
    /\ UNCHANGED <<inspection, sensor, daily, dailySummary, refreshState, clock, changes, blind>>

AggregateInit ==
    /\ inspection = [i \in Inspections |-> None]
    /\ sensor \in [Sensors -> Areas \cup {None}]
    /\ daily = [a \in Areas |-> {}]
    /\ dailySummary = None
    /\ refreshState = None
    /\ clock = 0 /\ changes = 0 /\ failures = 0
    /\ blind = FALSE

RefreshStep ==
    RefreshEmpty \/ SkipUnchanged \/ Rebuild \/ RefreshFails \/ RecordFailure \/ RecordFailureFails
SourceStep ==
    \/ \E i \in Inspections, s \in Sensors, v \in Values : AddData(i, s, v) \/ UpdateData(i, s, v)
    \/ \E i \in Inspections : DeleteData(i)
    \/ \E s \in Sensors, a \in Areas \cup {None} : MoveSensor(s, a)
    \/ Tick

Refresh == [at : {"refresh"}, fingerprint : Fingerprint, state : RefreshState \cup {None},
            rows : 0 .. Cardinality(Areas), readAt : 0 .. MaxTime, raced : BOOLEAN]
AggregateTypeOK ==
    /\ inspection \in [Inspections -> Inspection \cup {None}]
    /\ sensor \in [Sensors -> Areas \cup {None}]
    /\ daily \in [Areas -> SUBSET Sample]
    /\ dailySummary \in (SUBSET Sample) \cup {None}
    /\ refreshState \in RefreshState \cup {None}
    /\ clock \in 0 .. MaxTime /\ changes \in 0 .. MaxChanges /\ failures \in 0 .. MaxFailures
    /\ blind \in BOOLEAN

(***************************************************************************)
(* What the aggregates promise.                                            *)
(***************************************************************************)

\* While the recorded fingerprint is that of the inspections, the next refresh
\* is skipped: the daily rows must then be the aggregate, unless a change came
\* after the fingerprint was read in its transaction, or by a statement that had
\* started by its second, or a sensor moved (lines 62-78).
SkippedOnlyWhenCurrent ==
    (/\ refreshState # None
     /\ refreshState.status = "SUCCESS"
     /\ refreshState.fingerprint = SourceFingerprint
     /\ ~blind)
        => daily = Aggregate

\* The summary row sums the daily rows whenever there are any, so it is stale
\* only when inspections are left that no sensor joins (line 82).
SummaryFollowsDaily ==
    RowsOf(daily) > 0 => dailySummary = UNION {daily[a] : a \in Areas}
=============================================================================
