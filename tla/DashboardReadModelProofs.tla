---------------------- MODULE DashboardReadModelProofs ----------------------
(***************************************************************************)
(* Theorems about AggregateRefresh and DashboardReadModel for every value  *)
(* of their constants.                                                     *)
(***************************************************************************)
EXTENDS DashboardReadModel, FiniteSetTheorems, SequenceTheorems, WellFoundedInduction, TLAPS

---------------------------------------------------------------------------
(* Facts about data *)

\* A bounded set of numbers has the maximum that Max names.
LEMMA MaxProperty ==
  ASSUME NEW N \in Nat, NEW S \in SUBSET (0 .. N), S # {}
  PROVE  Max(S) \in S /\ \A y \in S : Max(S) >= y
<1> DEFINE T == {n \in Nat : \E x \in S : n = N - x}
<1>1. T \subseteq Nat
  OBVIOUS
<1>2. T # {}
  <2>1. PICK x \in S : TRUE
    OBVIOUS
  <2>2. N - x \in T
    BY <2>1
  <2> QED
    BY <2>2
<1>3. PICK t \in T : \A u \in T : <<u, t>> \notin OpToRel(<, Nat)
  BY <1>1, <1>2, NatLessThanWellFounded, WFMin
<1>4. \A u \in T : ~(u < t)
  BY <1>1, <1>3 DEF OpToRel
<1>5. PICK x \in S : t = N - x
  OBVIOUS
<1>6. ASSUME NEW y \in S PROVE x >= y
  <2>1. N - y \in T
    OBVIOUS
  <2> HIDE DEF T
  <2> QED
    BY <1>4, <1>5, <2>1
<1> QED
  BY <1>6 DEF Max

\* refreshAll has a first model, and its order names models by position.
ModelNames == {"areaMetricDaily", "areaCurrentSummary", "alarmRecent"}
LEMMA ModelOrderType ==
  /\ Len(ModelOrder) \in Nat \ {0}
  /\ DOMAIN ModelOrder = 1 .. Len(ModelOrder)
  /\ Models \in SUBSET ModelNames /\ "areaMetricDaily" \in Models
  /\ \A j, k \in DOMAIN ModelOrder : ModelOrder[j] = ModelOrder[k] => j = k
<1>1. RefreshAllOrder \in Seq(ModelNames) /\ Len(RefreshAllOrder) = 3
  BY DEF RefreshAllOrder, ModelNames
<1>2. PICK n \in 1 .. Len(RefreshAllOrder) : ModelOrder = SubSeq(RefreshAllOrder, 1, n)
  BY DashboardAssumption
<1>4. n \in 1 .. 3
  BY <1>1
<1>3. /\ ModelOrder \in Seq(ModelNames) /\ Len(ModelOrder) = n
      /\ \A k \in 1 .. n : ModelOrder[k] = RefreshAllOrder[k]
  <2>1. ModelOrder \in Seq(ModelNames) /\ Len(ModelOrder) = n
    BY <1>1, <1>2
  <2>2. ASSUME NEW k \in 1 .. n PROVE ModelOrder[k] = RefreshAllOrder[k]
    <3>1. SubSeq(RefreshAllOrder, 1, n)[k] = RefreshAllOrder[1 + k - 1]
      BY <1>1, <1>4, <2>2, SubSeqProperties
    <3>2. 1 + k - 1 = k
      BY <1>4, <2>2
    <3> QED
      BY <1>2, <3>1, <3>2
  <2> QED
    BY <2>1, <2>2
<1>5. Models \in SUBSET ModelNames
  BY <1>3 DEF Models
<1>6. ModelOrder[1] = "areaMetricDaily" /\ 1 \in DOMAIN ModelOrder
  BY <1>3, <1>4 DEF RefreshAllOrder
<1>7. ASSUME NEW j \in 1 .. n, NEW k \in 1 .. n, ModelOrder[j] = ModelOrder[k] PROVE j = k
  <2>1. j \in 1 .. 3 /\ k \in 1 .. 3 /\ RefreshAllOrder[j] = RefreshAllOrder[k]
    BY <1>3, <1>4, <1>7
  <2>2. (j = 1 \/ j = 2 \/ j = 3) /\ (k = 1 \/ k = 2 \/ k = 3)
    BY <2>1
  <2> QED
    BY <2>1, <2>2 DEF RefreshAllOrder
<1> QED
  BY <1>3, <1>4, <1>5, <1>6, <1>7 DEF Models

\* The number of rows of a table by area is a number of areas.
LEMMA RowsOfType ==
  ASSUME NEW table PROVE RowsOf(table) \in 0 .. Cardinality(Areas)
<1> DEFINE S == {a \in Areas : table[a] # {}}
<1>2. S \in SUBSET Areas
  OBVIOUS
<1> HIDE DEF S
<1>3. IsFiniteSet(S) /\ Cardinality(S) <= Cardinality(Areas)
  BY <1>2, FS_Subset, BoundsAssumption
<1>4. Cardinality(S) \in Nat /\ Cardinality(Areas) \in Nat
  BY <1>3, FS_CardinalityType, BoundsAssumption
<1> QED
  BY <1>3, <1>4 DEF RowsOf, S

\* The fingerprint of the inspections is one that the state table can hold.
LEMMA FingerprintType == AggregateTypeOK => SourceFingerprint \in Fingerprint
<1> SUFFICES ASSUME AggregateTypeOK PROVE SourceFingerprint \in Fingerprint
  OBVIOUS
<1>1. IsFiniteSet(Rows) /\ Cardinality(Rows) \in 0 .. Cardinality(Inspections)
  <2>1. Rows \in SUBSET Inspections
    BY DEF Rows
  <2>2. IsFiniteSet(Rows) /\ Cardinality(Rows) <= Cardinality(Inspections)
    BY <2>1, FS_Subset, BoundsAssumption
  <2>3. Cardinality(Rows) \in Nat /\ Cardinality(Inspections) \in Nat
    BY <2>2, FS_CardinalityType, BoundsAssumption
  <2> QED
    BY <2>2, <2>3
<1>2. ASSUME Rows # {} PROVE Max({inspection[i].updateTime : i \in Rows}) \in 0 .. MaxTime
  <2> DEFINE S == {inspection[i].updateTime : i \in Rows}
  <2>1. S \in SUBSET (0 .. MaxTime) /\ S # {}
    BY <1>2 DEF Rows, AggregateTypeOK, Inspection
  <2>2. MaxTime \in Nat
    BY BoundsAssumption
  <2> HIDE DEF S
  <2>3. Max(S) \in 0 .. MaxTime
    BY <2>1, <2>2, MaxProperty
  <2> QED
    BY <2>3 DEF S
<1> QED
  BY <1>1, <1>2 DEF SourceFingerprint, Fingerprint

---------------------------------------------------------------------------
(* Type correctness *)

\* What the tables of the read models can hold.
MetricRow == [area : Nat, samples : SUBSET [sample : Sample, times : Nat]]
CurrentRow == [area : Nat, sensors : Nat]
AlarmRow == [area : Nat, alarm : Sample]
RowSets == SUBSET (MetricRow \cup CurrentRow \cup AlarmRow)

ThreadStates ==
    [at : {"idle", "failed"}]
    \cup [at : {"models", "modelFailed"}, k : DOMAIN ModelOrder]
    \cup [at : {"deleted"}, k : DOMAIN ModelOrder, since : 0 .. MaxTime]
    \cup [at : {"inserted"}, k : DOMAIN ModelOrder, rows : RowSets, refreshedAt : 0 .. MaxTime]
    \cup Refresh
SeenRow == [model : Models, refreshedAt : 0 .. MaxTime]
Summaries == [loadedFrom : 0 .. MaxTime, seen : SUBSET SeenRow, freshness : [Models -> Stamp]]
ReaderStates ==
    [at : {"idle", "raised"}]
    \cup [at : {"load"}, calledAt : 0 .. MaxTime, next : 1 .. 5, seen : SUBSET SeenRow]
    \cup [at : {"answered"}, calledAt : 0 .. MaxTime, value : Summaries]
CacheEntries == [value : Summaries, expiresAt : TTL .. MaxTime + TTL]
ModelStates == [status : {"SUCCESS", "FAILED"}, refreshedAt : 0 .. MaxTime, insertedAt : Stamp]
ModelTables == [rows : RowSets, refreshedAt : Stamp]

\* TypeOK with the domains of the functions it looks into.
TypeInv ==
    /\ AggregateTypeOK
    /\ thread \in [Threads -> ThreadStates]
    /\ \A t \in Threads : thread[t].at = "refresh" => t = "scheduler"
    /\ models \in [Models -> ModelTables]
    /\ \A m \in Models : models[m].rows # {} => models[m].refreshedAt # None
    /\ modelState \in [Models -> ModelStates \cup {None}]
    /\ cache \in CacheEntries \cup {None}
    /\ reader \in [Readers -> ReaderStates]
    /\ calls \in 0 .. MaxCalls

LEMMA TypeInvInit == Init => TypeInv
<1> SUFFICES ASSUME Init PROVE TypeInv
  OBVIOUS
<1> USE BoundsAssumption, DashboardAssumption, ModelOrderType DEF Init, AggregateInit
<1>1. AggregateTypeOK
  <2>1. inspection \in [Inspections -> Inspection \cup {None}]
    OBVIOUS
  <2>2. daily \in [Areas -> SUBSET Sample]
    OBVIOUS
  <2>3. MaxTime \in Nat /\ MaxChanges \in Nat /\ MaxFailures \in Nat
    BY BoundsAssumption
  <2>4. clock = 0 /\ changes = 0 /\ failures = 0 /\ dailySummary = None /\ blind = FALSE
    BY DEF Init
  <2>5. clock \in 0 .. MaxTime /\ changes \in 0 .. MaxChanges /\ failures \in 0 .. MaxFailures
    BY <2>3, <2>4
  <2> QED
    BY <2>1, <2>2, <2>4, <2>5 DEF AggregateTypeOK
<1>2. thread \in [Threads -> ThreadStates]
  BY DEF ThreadStates, Idle
<1>3. \A t \in Threads : thread[t].at = "refresh" => t = "scheduler"
  BY DEF Idle
<1>4. /\ models \in [Models -> ModelTables]
      /\ \A m \in Models : models[m].rows # {} => models[m].refreshedAt # None
  BY DEF Stamp, ModelTables, RowSets
<1>5. reader \in [Readers -> ReaderStates]
  BY DEF ReaderStates
<1>6. modelState \in [Models -> ModelStates \cup {None}] /\ cache \in CacheEntries \cup {None}
  OBVIOUS
<1>7. calls \in 0 .. MaxCalls
  OBVIOUS
<1> QED
  BY <1>1, <1>2, <1>3, <1>4, <1>5, <1>6, <1>7 DEF TypeInv

\* The model that a thread is at.
AtSome == {"models", "deleted", "inserted", "modelFailed"}
LEMMA ModelAt ==
  ASSUME TypeInv, NEW t \in Threads, thread[t].at \in AtSome
  PROVE  thread[t].k \in DOMAIN ModelOrder /\ AtModel(t) \in Models
<1>1. thread[t].k \in DOMAIN ModelOrder
  BY DEF TypeInv, ThreadStates, Refresh, AtSome
<1> QED
  BY <1>1 DEF Models, AtModel

\* A row of an area belongs to areas, whichever branch gives it to them.
LEMMA ScopesType ==
  ASSUME NEW area \in Areas
  PROVE  Scopes(area) \in SUBSET Nat
<1>1. area \in Nat
  BY BoundsAssumption
<1>2. (area \div 100) * 100 \in Nat /\ (area \div 10000) * 10000 \in Nat
  BY <1>1
<1>3. ASSUME NEW n \in 1 .. 4 PROVE Branches(area)[n] \in Nat \cup {None}
  <2>1. n = 1 \/ n = 2 \/ n = 3 \/ n = 4
    OBVIOUS
  <2> QED
    BY <1>1, <1>2, <2>1 DEF Branches, COUNTRY
<1> QED
  BY <1>3 DEF Scopes

\* How often a row is counted is a number.
LEMMA CountsType ==
  /\ \A area, c : Times(area, c) \in Nat
  /\ \A c : SensorCount(c) \in Nat
<1>1. IsFiniteSet(1 .. 4)
  <2>1. 1 \in Int /\ 4 \in Int
    OBVIOUS
  <2> QED
    BY <2>1, FS_Interval, Zenon
<1>2. ASSUME NEW area, NEW c PROVE Times(area, c) \in Nat
  <2> DEFINE S == {n \in 1 .. 4 : Branches(area)[n] = c}
  <2>1. IsFiniteSet(S)
    BY <1>1, FS_Subset
  <2> QED
    BY <2>1, FS_CardinalityType DEF Times
<1>3. ASSUME NEW c PROVE SensorCount(c) \in Nat
  <2>1. IsFiniteSet(SensorsOf(c))
    <3>1. SensorsOf(c) \in SUBSET Sensors
      BY DEF SensorsOf
    <3> QED
      BY <3>1, FS_Subset, BoundsAssumption
  <2>2. IsFiniteSet(SensorsOf(c) \X (1 .. 4))
    BY <1>1, <2>1, FS_Product
  <2> DEFINE P == SensorsOf(c) \X (1 .. 4)
             S == {x \in P : Branches(sensor[x[1]])[x[2]] = c}
  <2>3. S \in SUBSET P
    OBVIOUS
  <2>4. IsFiniteSet(S)
    BY <2>2, <2>3, FS_Subset
  <2> QED
    BY <2>4, FS_CardinalityType DEF SensorCount
<1> QED
  BY <1>2, <1>3

\* A refresh inserts rows that the table can hold.
LEMMA RowsForType ==
  ASSUME TypeInv, NEW m \in Models
  PROVE  RowsFor(m) \in RowSets
<1>1. m \in ModelNames
  BY ModelOrderType
<1>2. ASSUME NEW area \in Areas PROVE daily[area] \in SUBSET Sample
  BY DEF TypeInv, AggregateTypeOK
<1>3. ASSUME NEW c PROVE SamplesOf(c) \in SUBSET [sample : Sample, times : Nat]
  BY <1>2, CountsType DEF SamplesOf
<1>4. AreaMetricRows \in SUBSET MetricRow
  BY <1>3, ScopesType DEF AreaMetricRows, MetricRow
<1>5. CASE m = "areaCurrentSummary"
  <2>1. AllScopes \in SUBSET Nat
    BY ScopesType DEF AllScopes
  <2>2. {r.area : r \in models["areaMetricDaily"].rows} \in SUBSET Nat
    <3>1. "areaMetricDaily" \in Models
      BY ModelOrderType
    <3>2. \A r \in models["areaMetricDaily"].rows : r.area \in Nat
      BY <3>1 DEF TypeInv, ModelTables, RowSets, MetricRow, CurrentRow, AlarmRow
    <3> QED
      BY <3>2
  <2> QED
    BY <1>5, <2>1, <2>2, CountsType DEF RowsFor, AreaCurrentRows, CurrentRow, RowSets
<1>6. AlarmRows \in SUBSET AlarmRow
  <2>1. \A a \in Areas : Aggregate[a] \in SUBSET Sample
    BY DEF Aggregate, Sample, TypeInv, AggregateTypeOK, Rows, Inspection
  <2> QED
    BY <2>1, BoundsAssumption DEF AlarmRows, AlarmRow
<1> QED
  BY <1>1, <1>4, <1>5, <1>6 DEF RowsFor, RowSets, ModelNames

\* A thread that has dealt with one model is idle or at another.
LEMMA AdvanceType ==
  ASSUME TypeInv, NEW t \in Threads, thread[t].at \in AtSome, Advance(t)
  PROVE  /\ thread' \in [Threads -> ThreadStates]
         /\ \A u \in Threads : thread'[u].at = "refresh" => u = "scheduler"
<1>1. thread[t].k \in 1 .. Len(ModelOrder) /\ DOMAIN ModelOrder = 1 .. Len(ModelOrder)
  BY ModelOrderType, ModelAt
<1>2. thread[t].k < Len(ModelOrder) => thread[t].k + 1 \in DOMAIN ModelOrder
  BY <1>1, ModelOrderType
<1> DEFINE next == IF thread[t].k < Len(ModelOrder)
                   THEN [at |-> "models", k |-> thread[t].k + 1] ELSE Idle
<1>3. next \in ThreadStates /\ next.at # "refresh"
  BY <1>2 DEF ThreadStates, Idle
<1>4. thread' = [thread EXCEPT ![t] = next]
  BY DEF Advance
<1> HIDE DEF next
<1> QED
  BY <1>3, <1>4 DEF TypeInv

LEMMA TypeInvStep == TypeInv /\ [Next]_vars => TypeInv'
<1> SUFFICES ASSUME TypeInv, [Next]_vars PROVE TypeInv'
  OBVIOUS
<1> USE BoundsAssumption, DashboardAssumption
    DEF TypeInv, AggregateTypeOK, aggregateVars, dashboardVars
<1>a. ASSUME NEW rows \in [Inspections -> Inspection \cup {None}], NEW now, Write(rows, now),
             UNCHANGED dashboardVars
      PROVE  TypeInv'
  <2> DEFINE tx == [thread["scheduler"] EXCEPT !.raced = TRUE]
  <2>0. InTransaction => thread["scheduler"] \in Refresh
    BY DEF InTransaction, ThreadStates
  <2>1. InTransaction => tx \in Refresh
    BY <2>0 DEF Refresh
  <2>2. thread' = IF InTransaction THEN [thread EXCEPT !["scheduler"] = tx] ELSE thread
    BY <1>a DEF Write
  <2> HIDE DEF tx
  <2>3. /\ thread' \in [Threads -> ThreadStates]
        /\ \A t \in Threads : thread'[t].at = "refresh" => t = "scheduler"
    BY <2>1, <2>2 DEF ThreadStates
  <2> QED
    BY <1>a, <2>3 DEF Write
<1>1. ASSUME NEW i \in Inspections, NEW s \in Sensors, NEW v \in Values,
             AddData(i, s, v) \/ UpdateData(i, s, v), UNCHANGED dashboardVars
      PROVE  TypeInv'
  <2>1. PICK now \in 0 .. clock :
           Write([inspection EXCEPT ![i] = [sensor |-> s, value |-> v, updateTime |-> now]], now)
    BY <1>1 DEF AddData, UpdateData
  <2> DEFINE rows == [inspection EXCEPT ![i] = [sensor |-> s, value |-> v, updateTime |-> now]]
  <2>2. rows \in [Inspections -> Inspection \cup {None}] /\ Write(rows, now)
    BY <2>1 DEF Inspection
  <2> HIDE DEF rows
  <2> QED
    BY <1>1, <1>a, <2>2
<1>2. ASSUME NEW i \in Inspections, DeleteData(i), UNCHANGED dashboardVars PROVE TypeInv'
  <2> DEFINE rows == [inspection EXCEPT ![i] = None]
  <2>1. rows \in [Inspections -> Inspection \cup {None}] /\ Write(rows, clock)
    BY <1>2 DEF DeleteData
  <2> HIDE DEF rows
  <2> QED
    BY <1>2, <1>a, <2>1
<1>3. ASSUME NEW s \in Sensors, NEW a \in Areas \cup {None}, MoveSensor(s, a),
             UNCHANGED dashboardVars
      PROVE  TypeInv'
  BY <1>3 DEF MoveSensor
<1>4. ASSUME Tick, UNCHANGED dashboardVars PROVE TypeInv'
  BY <1>4 DEF Tick
<1>5. ASSUME BeginAggregate PROVE TypeInv'
  <2>1. SourceFingerprint \in Fingerprint /\ RowsOf(daily) \in 0 .. Cardinality(Areas)
    BY FingerprintType, RowsOfType
  <2> DEFINE tx == [at |-> "refresh", fingerprint |-> SourceFingerprint, state |-> refreshState,
                    rows |-> RowsOf(daily), readAt |-> clock, raced |-> FALSE]
  <2>2. tx \in Refresh
    BY <2>1 DEF Refresh
  <2>3. thread' = [thread EXCEPT !["scheduler"] = tx]
    BY <1>5 DEF BeginAggregate, BeginRefresh
  <2> HIDE DEF tx
  <2>4. /\ thread' \in [Threads -> ThreadStates]
        /\ \A t \in Threads : thread'[t].at = "refresh" => t = "scheduler"
    BY <2>2, <2>3 DEF ThreadStates
  <2> QED
    BY <1>5, <2>4 DEF BeginAggregate, BeginRefresh
<1>b. /\ InTransaction => Tx \in Refresh
      /\ Idle \in ThreadStates /\ [at |-> "failed"] \in ThreadStates
      /\ Idle.at # "refresh"
  BY DEF InTransaction, Tx, ThreadStates, Idle
<1>c. ASSUME NEW rows \in 0 .. Cardinality(Areas), InTransaction, Commit(rows)
      PROVE  /\ refreshState' \in RefreshState /\ blind' \in BOOLEAN
             /\ thread' \in [Threads -> ThreadStates]
             /\ \A t \in Threads : thread'[t].at = "refresh" => t = "scheduler"
  BY <1>b, <1>c DEF Commit, Refresh, RefreshState
<1>6. ASSUME RefreshEmpty, UNCHANGED dashboardVars PROVE TypeInv'
  <2>1. 0 \in 0 .. Cardinality(Areas)
    BY FS_CardinalityType
  <2>2. daily' \in [Areas -> SUBSET Sample] /\ dailySummary' \in (SUBSET Sample) \cup {None}
    BY <1>6 DEF RefreshEmpty
  <2>3. /\ refreshState' \in RefreshState /\ blind' \in BOOLEAN
        /\ thread' \in [Threads -> ThreadStates]
        /\ \A t \in Threads : thread'[t].at = "refresh" => t = "scheduler"
    BY <1>6, <1>c, <2>1 DEF RefreshEmpty
  <2> QED
    BY <1>6, <2>2, <2>3 DEF RefreshEmpty
<1>7. ASSUME SkipUnchanged, UNCHANGED dashboardVars PROVE TypeInv'
  BY <1>7, <1>b DEF SkipUnchanged
<1>8. ASSUME Rebuild, UNCHANGED dashboardVars PROVE TypeInv'
  <2>1. daily' \in [Areas -> SUBSET Sample]
    BY <1>8 DEF Rebuild, Aggregate, Sample, Rows, Inspection
  <2>2. dailySummary' \in (SUBSET Sample) \cup {None}
    BY <1>8, <2>1 DEF Rebuild, SummaryOf
  <2>3. RowsOf(daily') \in 0 .. Cardinality(Areas)
    BY RowsOfType
  <2>4. InTransaction /\ Commit(RowsOf(daily'))
    BY <1>8 DEF Rebuild
  <2>5. /\ refreshState' \in RefreshState /\ blind' \in BOOLEAN
        /\ thread' \in [Threads -> ThreadStates]
        /\ \A t \in Threads : thread'[t].at = "refresh" => t = "scheduler"
    BY <1>c, <2>3, <2>4
  <2> QED
    BY <1>8, <2>1, <2>2, <2>5 DEF Rebuild
<1>9. ASSUME RefreshFails, UNCHANGED dashboardVars PROVE TypeInv'
  BY <1>9, <1>b DEF RefreshFails
<1>10. ASSUME RecordFailure, UNCHANGED dashboardVars PROVE TypeInv'
  <2>1. 0 \in 0 .. Cardinality(Areas) /\ 0 \in 0 .. Cardinality(Inspections)
    BY FS_CardinalityType
  <2>2. refreshState' \in RefreshState \cup {None}
    BY <1>10, <2>1 DEF RecordFailure, RefreshState, Fingerprint
  <2> QED
    BY <1>10, <1>b, <2>2 DEF RecordFailure
<1>11. ASSUME RecordFailureFails, UNCHANGED dashboardVars PROVE TypeInv'
  BY <1>11, <1>b DEF RecordFailureFails
<1>12. ASSUME BeginRefreshAll PROVE TypeInv'
  BY <1>12, ModelOrderType DEF BeginRefreshAll, ThreadStates
<1>e. ASSUME NEW t \in Threads, NEW state \in ThreadStates, state.at # "refresh",
             thread' = [thread EXCEPT ![t] = state]
      PROVE  /\ thread' \in [Threads -> ThreadStates]
             /\ \A u \in Threads : thread'[u].at = "refresh" => u = "scheduler"
  BY <1>e
<1>13. ASSUME NEW t \in Threads, DeleteRows(t) PROVE TypeInv'
  <2> DEFINE state == [at |-> "deleted", k |-> thread[t].k, since |-> clock]
  <2>1. thread[t].k \in DOMAIN ModelOrder
    BY <1>13, ModelAt DEF DeleteRows, AtSome
  <2>2. state \in ThreadStates /\ state.at # "refresh"
    BY <2>1 DEF ThreadStates
  <2>3. thread' = [thread EXCEPT ![t] = state]
    BY <1>13 DEF DeleteRows
  <2> HIDE DEF state
  <2> QED
    BY <1>13, <1>e, <2>2, <2>3 DEF DeleteRows
<1>22. ASSUME NEW t \in Threads, InsertRows(t) PROVE TypeInv'
  <2>1. thread[t].at = "deleted" /\ thread[t].since \in 0 .. MaxTime
    BY <1>22 DEF InsertRows, ThreadStates, Refresh
  <2>2. PICK now \in thread[t].since .. clock :
           thread' = [thread EXCEPT ![t] = [at |-> "inserted", k |-> thread[t].k,
                                            rows |-> RowsFor(AtModel(t)), refreshedAt |-> now]]
    BY <1>22 DEF InsertRows
  <2> DEFINE state == [at |-> "inserted", k |-> thread[t].k,
                       rows |-> RowsFor(AtModel(t)), refreshedAt |-> now]
  <2>3. thread[t].k \in DOMAIN ModelOrder /\ AtModel(t) \in Models
    BY <2>1, ModelAt DEF AtSome
  <2>4. RowsFor(AtModel(t)) \in RowSets
    BY <2>3, RowsForType
  <2>5. now \in 0 .. MaxTime
    BY <2>1
  <2>6. state \in ThreadStates /\ state.at # "refresh"
    BY <2>3, <2>4, <2>5 DEF ThreadStates
  <2>7. thread' = [thread EXCEPT ![t] = state]
    BY <2>2
  <2> HIDE DEF state
  <2> QED
    BY <1>22, <1>e, <2>6, <2>7 DEF InsertRows
<1>23. ASSUME NEW t \in Threads, RecordSuccess(t) PROVE TypeInv'
  <2>1. thread[t].at = "inserted"
    BY <1>23 DEF RecordSuccess
  <2>2. thread[t].rows \in RowSets /\ thread[t].refreshedAt \in 0 .. MaxTime
    BY <2>1 DEF ThreadStates, Refresh
  <2>3. PICK now \in thread[t].refreshedAt .. clock :
           modelState' = [modelState EXCEPT ![AtModel(t)] =
              [status |-> "SUCCESS", refreshedAt |-> now, insertedAt |-> thread[t].refreshedAt]]
    BY <1>23 DEF RecordSuccess
  <2> DEFINE m == AtModel(t)
             table == [rows |-> thread[t].rows, refreshedAt |-> thread[t].refreshedAt]
             state == [status |-> "SUCCESS", refreshedAt |-> now, insertedAt |-> thread[t].refreshedAt]
  <2>4. m \in Models
    BY <2>1, ModelAt DEF AtSome
  <2>5. now \in 0 .. MaxTime /\ thread[t].refreshedAt # None
    BY <2>2
  <2>6. state \in ModelStates /\ table \in ModelTables /\ table.refreshedAt # None
    BY <2>2, <2>5 DEF ModelStates, ModelTables, Stamp
  <2>7. models' = [models EXCEPT ![m] = table] /\ modelState' = [modelState EXCEPT ![m] = state]
    BY <1>23, <2>3 DEF RecordSuccess
  <2>8. /\ thread' \in [Threads -> ThreadStates]
        /\ \A u \in Threads : thread'[u].at = "refresh" => u = "scheduler"
    BY <1>23, <2>1, AdvanceType DEF RecordSuccess, AtSome
  <2> HIDE DEF m, table, state
  <2>9. /\ models' \in [Models -> ModelTables]
        /\ \A n \in Models : models'[n].rows # {} => models'[n].refreshedAt # None
    BY <2>4, <2>6, <2>7
  <2>10. modelState' \in [Models -> ModelStates \cup {None}]
    BY <2>4, <2>6, <2>7
  <2> QED
    BY <1>23, <2>8, <2>9, <2>10 DEF RecordSuccess
<1>14. ASSUME NEW t \in Threads, RefreshModelFails(t) PROVE TypeInv'
  <2>1. thread[t].k \in DOMAIN ModelOrder
    BY <1>14, ModelAt DEF RefreshModelFails, InModelTransaction, AtSome
  <2> DEFINE failed == [at |-> "modelFailed", k |-> thread[t].k]
  <2>2. failed \in ThreadStates /\ failed.at # "refresh"
    BY <2>1 DEF ThreadStates
  <2>3. thread' = [thread EXCEPT ![t] = failed]
    BY <1>14 DEF RefreshModelFails
  <2> HIDE DEF failed
  <2>4. /\ thread' \in [Threads -> ThreadStates]
        /\ \A u \in Threads : thread'[u].at = "refresh" => u = "scheduler"
    BY <2>2, <2>3
  <2>5. failures' \in 0 .. MaxFailures
    BY <1>14 DEF RefreshModelFails, AggregateTypeOK
  <2>6. AggregateTypeOK'
    BY <1>14, <2>5 DEF RefreshModelFails, AggregateTypeOK
  <2> QED
    BY <1>14, <2>4, <2>6 DEF RefreshModelFails
<1>15. ASSUME NEW t \in Threads, RecordModelFailure(t) PROVE TypeInv'
  <2> DEFINE m == AtModel(t)
             state == [status |-> "FAILED", refreshedAt |-> clock, insertedAt |-> None]
  <2>1. m \in Models /\ state \in ModelStates
    BY <1>15, ModelAt DEF RecordModelFailure, ModelStates, AtSome, Stamp
  <2>2. modelState' = [modelState EXCEPT ![m] = state]
    BY <1>15 DEF RecordModelFailure
  <2>3. /\ thread' \in [Threads -> ThreadStates]
        /\ \A u \in Threads : thread'[u].at = "refresh" => u = "scheduler"
    BY <1>15, AdvanceType DEF RecordModelFailure, AtSome
  <2> HIDE DEF m, state
  <2>4. modelState' \in [Models -> ModelStates \cup {None}]
    BY <2>1, <2>2
  <2>5. AggregateTypeOK'
    BY <1>15 DEF RecordModelFailure
  <2> QED
    BY <1>15, <2>3, <2>4, <2>5 DEF RecordModelFailure
<1>16. ASSUME NEW t \in Threads, RecordModelFailureFails(t) PROVE TypeInv'
  <2>1. /\ thread' \in [Threads -> ThreadStates]
        /\ \A u \in Threads : thread'[u].at = "refresh" => u = "scheduler"
    BY <1>16, AdvanceType DEF RecordModelFailureFails, AtSome
  <2> QED
    BY <1>16, <2>1 DEF RecordModelFailureFails
<1>17. ASSUME NEW r \in Readers, GetSummaryHit(r) PROVE TypeInv'
  <2> DEFINE answer == [at |-> "answered", calledAt |-> clock, value |-> cache.value]
  <2>1. answer \in ReaderStates
    BY <1>17 DEF GetSummaryHit, Hit, ReaderStates, CacheEntries
  <2>2. reader' = [reader EXCEPT ![r] = answer]
    BY <1>17 DEF GetSummaryHit
  <2> HIDE DEF answer
  <2> QED
    BY <1>17, <2>1, <2>2 DEF GetSummaryHit
<1>18. ASSUME NEW r \in Readers, GetSummaryMiss(r) PROVE TypeInv'
  <2> DEFINE load == [at |-> "load", calledAt |-> clock, next |-> 1, seen |-> {}]
  <2>1. load \in ReaderStates
    BY DEF ReaderStates
  <2>2. reader' = [reader EXCEPT ![r] = load]
    BY <1>18 DEF GetSummaryMiss
  <2> HIDE DEF load
  <2>3. reader' \in [Readers -> ReaderStates]
    BY <2>1, <2>2
  <2> QED
    BY <1>18, <2>3 DEF GetSummaryMiss
<1>24. ASSUME NEW r \in Readers, ReadRows(r) PROVE TypeInv'
  <2>1. reader[r].at = "load" /\ reader[r].next <= 4
    BY <1>24 DEF ReadRows, LoadOrder
  <2>2. reader[r] \in [at : {"load"}, calledAt : 0 .. MaxTime, next : 1 .. 5, seen : SUBSET SeenRow]
    BY <2>1 DEF ReaderStates
  <2> DEFINE found == Stamps(LoadOrder[reader[r].next])
             load == [reader[r] EXCEPT !.next = @ + 1, !.seen = @ \cup found]
  <2>3. found \in SUBSET SeenRow
    BY DEF Stamps, SeenRow, ModelTables, Stamp
  <2>4. reader' = [reader EXCEPT ![r] = load]
    BY <1>24 DEF ReadRows
  <2> HIDE DEF found
  <2>5. reader[r].next + 1 \in 1 .. 5
    BY <2>1, <2>2
  <2>6. load \in ReaderStates
    BY <2>2, <2>3, <2>5 DEF ReaderStates
  <2> HIDE DEF load
  <2>7. reader' \in [Readers -> ReaderStates]
    BY <2>4, <2>6
  <2> QED
    BY <1>24, <2>7 DEF ReadRows
<1>19. ASSUME NEW r \in Readers, StoreSummary(r) PROVE TypeInv'
  <2>1. reader[r].calledAt \in 0 .. MaxTime /\ reader[r].seen \in SUBSET SeenRow
    BY <1>19 DEF StoreSummary, ReaderStates
  <2> DEFINE value == [loadedFrom |-> reader[r].calledAt, seen |-> reader[r].seen, freshness |-> Freshness]
             entry == [value |-> value, expiresAt |-> Expiry(r)]
             answer == [at |-> "answered", calledAt |-> reader[r].calledAt, value |-> value]
  <2>5. value \in Summaries
    <3>1. Freshness \in [Models -> Stamp]
      BY DEF Freshness, ModelStates, Stamp
    <3> QED
      BY <2>1, <3>1 DEF Summaries
  <2>2. Expiry(r) \in TTL .. MaxTime + TTL
    <3>1. TTL \in Nat /\ MaxTime \in Nat
      OBVIOUS
    <3> HIDE DEF TypeInv
    <3> QED
      BY <2>1, <3>1 DEF Expiry
  <2> HIDE DEF value
  <2>3. entry \in CacheEntries /\ answer \in ReaderStates
    BY <2>1, <2>2, <2>5 DEF ReaderStates, CacheEntries
  <2>4. cache' = entry /\ reader' = [reader EXCEPT ![r] = answer]
    BY <1>19 DEF StoreSummary, value
  <2> HIDE DEF entry, answer
  <2>6. reader' \in [Readers -> ReaderStates] /\ cache' \in CacheEntries \cup {None}
    BY <2>3, <2>4
  <2>7. AggregateTypeOK'
    BY <1>19 DEF StoreSummary
  <2> QED
    BY <1>19, <2>6, <2>7 DEF StoreSummary
<1>20. ASSUME NEW r \in Readers, LoadRaises(r) PROVE TypeInv'
  <2> DEFINE raised == [at |-> "raised"]
  <2>1. raised \in ReaderStates
    BY DEF ReaderStates
  <2>2. reader' = [reader EXCEPT ![r] = raised]
    BY <1>20 DEF LoadRaises
  <2> HIDE DEF raised
  <2>3. reader' \in [Readers -> ReaderStates]
    BY <2>1, <2>2
  <2>4. AggregateTypeOK'
    BY <1>20 DEF LoadRaises, AggregateTypeOK
  <2> QED
    BY <1>20, <2>3, <2>4 DEF LoadRaises
<1>21. ASSUME UNCHANGED vars PROVE TypeInv'
  BY <1>21 DEF vars
<1> HIDE DEF TypeInv, AggregateTypeOK, aggregateVars, dashboardVars
<1> QED
  BY <1>1, <1>2, <1>3, <1>4, <1>5, <1>6, <1>7, <1>8, <1>9, <1>10, <1>11, <1>12,
     <1>13, <1>14, <1>15, <1>16, <1>17, <1>18, <1>19, <1>20, <1>21, <1>22, <1>23, <1>24
     DEF Next, Source, SourceStep, RefreshDate, RefreshStep, ModelStep, ReaderStep

\* Every variable keeps its type, whichever jobs, writers and readers interleave.
THEOREM TypeCorrect == Spec => []TypeOK
<1>1. TypeInv => TypeOK
  BY DashboardAssumption, BoundsAssumption
     DEF TypeInv, TypeOK, ThreadStates, ReaderStates, CacheEntries, ModelStates, ModelTables,
         Refresh, InModelTransaction
<1> QED
  BY TypeInvInit, TypeInvStep, <1>1, PTL DEF Spec

---------------------------------------------------------------------------
(* The cache serves within its time to live *)

\* An entry expires a TTL after its load began, whoever stored it last, and an
\* answer was an unexpired entry or the reader's own load.
CacheInv ==
    /\ ServedWithinTTL
    /\ cache # None => cache.expiresAt = cache.value.loadedFrom + TTL

LEMMA CacheInvInit == Init => CacheInv
BY DEF Init, CacheInv, ServedWithinTTL, Answered

LEMMA CacheInvStep == TypeInv /\ CacheInv /\ [Next]_vars => CacheInv'
<1> SUFFICES ASSUME TypeInv, CacheInv, [Next]_vars PROVE CacheInv'
  OBVIOUS
<1> USE DEF CacheInv, ServedWithinTTL, Answered
<1>0. /\ reader \in [Readers -> ReaderStates] /\ clock \in Nat /\ TTL \in Nat \ {0}
      /\ cache \in CacheEntries \cup {None}
  BY BoundsAssumption, DashboardAssumption DEF TypeInv, AggregateTypeOK
<1>1. ASSUME UNCHANGED <<cache, reader>> PROVE CacheInv'
  BY <1>1
<1>2. ASSUME NEW r \in Readers, GetSummaryHit(r) PROVE CacheInv'
  <2> DEFINE answer == [at |-> "answered", calledAt |-> clock, value |-> cache.value]
  <2>1. clock < cache.value.loadedFrom + TTL
    BY <1>0, <1>2 DEF GetSummaryHit, Hit, CacheEntries
  <2>2. answer.calledAt < answer.value.loadedFrom + TTL
    BY <2>1
  <2>3. reader' = [reader EXCEPT ![r] = answer] /\ UNCHANGED cache
    BY <1>2 DEF GetSummaryHit
  <2> HIDE DEF answer
  <2> QED
    BY <1>0, <2>2, <2>3
<1>3. ASSUME NEW r \in Readers, GetSummaryMiss(r) PROVE CacheInv'
  BY <1>0, <1>3 DEF GetSummaryMiss
<1>4. ASSUME NEW r \in Readers, StoreSummary(r) PROVE CacheInv'
  <2> DEFINE value == [loadedFrom |-> reader[r].calledAt, seen |-> reader[r].seen, freshness |-> Freshness]
             entry == [value |-> value, expiresAt |-> reader[r].calledAt + TTL]
             answer == [at |-> "answered", calledAt |-> reader[r].calledAt, value |-> value]
  <2>1. reader[r].calledAt \in 0 .. MaxTime
    BY <1>0, <1>4 DEF StoreSummary, ReaderStates
  <2>2. /\ entry.expiresAt = entry.value.loadedFrom + TTL
        /\ answer.calledAt < answer.value.loadedFrom + TTL
    BY <1>0, <2>1, BoundsAssumption
  <2>3. cache' = entry /\ reader' = [reader EXCEPT ![r] = answer]
    BY <1>4 DEF StoreSummary, Expiry
  <2> HIDE DEF entry, answer
  <2> QED
    BY <1>0, <2>2, <2>3
<1>5. ASSUME NEW r \in Readers, LoadRaises(r) PROVE CacheInv'
  BY <1>0, <1>5 DEF LoadRaises
<1>8. ASSUME NEW r \in Readers, ReadRows(r) PROVE CacheInv'
  <2> DEFINE load == [reader[r] EXCEPT !.next = @ + 1, !.seen = @ \cup Stamps(LoadOrder[reader[r].next])]
  <2>1. reader[r].at = "load"
    BY <1>8 DEF ReadRows
  <2>2. reader[r] \in [at : {"load"}, calledAt : 0 .. MaxTime, next : 1 .. 5, seen : SUBSET SeenRow]
    BY <1>0, <2>1 DEF ReaderStates
  <2>3. load.at = "load"
    BY <2>2
  <2>4. reader' = [reader EXCEPT ![r] = load] /\ UNCHANGED cache
    BY <1>8 DEF ReadRows
  <2> HIDE DEF load
  <2> QED
    BY <1>0, <2>3, <2>4
<1>6. CASE \E r \in Readers : ReaderStep(r)
  BY <1>2, <1>3, <1>4, <1>5, <1>6, <1>8 DEF ReaderStep
<1>7. CASE ~\E r \in Readers : ReaderStep(r)
  <2>1. UNCHANGED <<cache, reader>>
    BY <1>7 DEF Next, Source, BeginAggregate, RefreshDate, BeginRefreshAll, ModelStep,
       DeleteRows, InsertRows, RecordSuccess, RefreshModelFails, RecordModelFailure,
       RecordModelFailureFails, vars, dashboardVars
  <2> QED
    BY <1>1, <2>1
<1> QED
  BY <1>6, <1>7

\* No summary rests on a load that began a full TTL before it was asked for.
THEOREM SummariesAreFresh == Spec => []ServedWithinTTL
<1>1. CacheInv => ServedWithinTTL
  BY DEF CacheInv
<1> QED
  BY TypeInvInit, TypeInvStep, CacheInvInit, CacheInvStep, <1>1, PTL DEF Spec

---------------------------------------------------------------------------
(* The freshness of a read model is that of its rows *)

Locked == {"deleted", "inserted"}
\* The rows of m are stamped no later than n.
StampedBy(m, n) == models[m].refreshedAt # None => models[m].refreshedAt <= n

\* One transaction at a time has deleted the rows of a model.
LockInv ==
    \A t, u \in Threads :
        thread[t].at \in Locked /\ thread[u].at \in Locked /\ thread[t].k = thread[u].k => t = u
\* It stamps its rows after those it replaces.
StampInv ==
    /\ \A m \in Models : StampedBy(m, clock)
    /\ \A t \in Threads :
         /\ thread[t].at = "deleted" =>
               thread[t].since <= clock /\ StampedBy(AtModel(t), thread[t].since)
         /\ thread[t].at = "inserted" =>
               thread[t].refreshedAt <= clock /\ StampedBy(AtModel(t), thread[t].refreshedAt)
\* So the rows a load has seen are no younger than the present ones.
SeenInv ==
    \A r \in Readers : reader[r].at = "load" =>
        \A x \in reader[r].seen :
            /\ models[x.model].refreshedAt # None
            /\ x.refreshedAt <= models[x.model].refreshedAt
Covers(summary) ==
    \A x \in summary.seen :
        summary.freshness[x.model] # None => x.refreshedAt <= summary.freshness[x.model]
CoverInv ==
    /\ cache # None => Covers(cache.value)
    /\ \A r \in Readers : Answered(r) => Covers(reader[r].value)
FreshnessInv == FreshnessVouchesForRows /\ LockInv /\ StampInv /\ SeenInv /\ CoverInv

LEMMA FreshnessInit == Init => FreshnessInv
<1> SUFFICES ASSUME Init PROVE FreshnessInv
  OBVIOUS
<1>1. \A t \in Threads : thread[t].at \notin Locked
  BY DEF Init, Idle, Locked
<1>2. LockInv /\ StampInv
  BY <1>1 DEF Init, LockInv, StampInv, StampedBy, Locked
<1>3. FreshnessVouchesForRows /\ SeenInv /\ CoverInv
  BY DEF Init, FreshnessVouchesForRows, Freshness, SeenInv, CoverInv, Answered
<1> QED
  BY <1>2, <1>3 DEF FreshnessInv

\* The threads that hold a lock still do, at the same statement.
QuietThreads == \A u \in Threads : thread'[u].at \in Locked => thread'[u] = thread[u]

LEMMA QuietSteps ==
  ASSUME TypeInv, [Next]_vars,
         ~\E t \in Threads : DeleteRows(t) \/ InsertRows(t) \/ RecordSuccess(t)
  PROVE  QuietThreads /\ clock <= clock' /\ UNCHANGED models
<1> USE DEF QuietThreads, Locked
<1>0. thread \in [Threads -> ThreadStates] /\ "scheduler" \in Threads /\ clock \in Nat
  BY BoundsAssumption DEF TypeInv, AggregateTypeOK
<1>a. ASSUME NEW t \in Threads, NEW state, state.at \notin Locked,
             thread' = [thread EXCEPT ![t] = state]
      PROVE  QuietThreads
  BY <1>0, <1>a
<1>b. ASSUME NEW t \in Threads, Advance(t) PROVE QuietThreads
  <2> DEFINE next == IF thread[t].k < Len(ModelOrder)
                     THEN [at |-> "models", k |-> thread[t].k + 1] ELSE Idle
  <2>1. next.at \notin Locked
    BY DEF Idle
  <2>2. thread' = [thread EXCEPT ![t] = next]
    BY <1>b DEF Advance
  <2> HIDE DEF next
  <2> QED
    BY <1>a, <2>1, <2>2
<1>c. Idle.at \notin Locked /\ [at |-> "failed"].at \notin Locked
  BY DEF Idle
<1>1. ASSUME Source PROVE QuietThreads /\ clock <= clock' /\ UNCHANGED models
  <2>1. UNCHANGED models
    BY <1>1 DEF Source, dashboardVars
  <2>2. clock <= clock'
    BY <1>0, <1>1 DEF Source, SourceStep, AddData, UpdateData, DeleteData, Write, MoveSensor, Tick
  <2>3. \/ UNCHANGED thread
        \/ InTransaction /\ thread' = [thread EXCEPT !["scheduler"].raced = TRUE]
    BY <1>1 DEF Source, SourceStep, AddData, UpdateData, DeleteData, Write, MoveSensor, Tick
  <2>4. ASSUME InTransaction, thread' = [thread EXCEPT !["scheduler"].raced = TRUE]
        PROVE  QuietThreads
    <3> DEFINE tx == [thread["scheduler"] EXCEPT !.raced = TRUE]
    <3>1. thread["scheduler"] \in Refresh
      BY <1>0, <2>4 DEF InTransaction, ThreadStates
    <3>2. tx.at \notin Locked
      BY <3>1 DEF Refresh
    <3>3. thread' = [thread EXCEPT !["scheduler"] = tx]
      BY <2>4
    <3> HIDE DEF tx
    <3> QED
      BY <1>0, <1>a, <3>2, <3>3
  <2> QED
    BY <2>1, <2>2, <2>3, <2>4
<1>2. ASSUME BeginAggregate PROVE QuietThreads /\ clock <= clock' /\ UNCHANGED models
  <2> DEFINE tx == [at |-> "refresh", fingerprint |-> SourceFingerprint, state |-> refreshState,
                    rows |-> RowsOf(daily), readAt |-> clock, raced |-> FALSE]
  <2>1. tx.at \notin Locked
    OBVIOUS
  <2>2. thread' = [thread EXCEPT !["scheduler"] = tx] /\ UNCHANGED clock /\ UNCHANGED models
    BY <1>2 DEF BeginAggregate, BeginRefresh, dashboardVars
  <2> HIDE DEF tx
  <2> QED
    BY <1>0, <1>a, <2>1, <2>2
<1>3. ASSUME RefreshDate PROVE QuietThreads /\ clock <= clock' /\ UNCHANGED models
  <2>1. /\ UNCHANGED <<clock, models>>
        /\ \/ thread' = [thread EXCEPT !["scheduler"] = Idle]
           \/ thread' = [thread EXCEPT !["scheduler"] = [at |-> "failed"]]
    BY <1>3 DEF RefreshDate, RefreshStep, RefreshEmpty, SkipUnchanged, Rebuild, Commit,
       RefreshFails, RecordFailure, RecordFailureFails, dashboardVars
  <2> QED
    BY <1>0, <1>a, <1>c, <2>1
<1>4. ASSUME BeginRefreshAll PROVE QuietThreads /\ clock <= clock' /\ UNCHANGED models
  <2>1. /\ UNCHANGED <<clock, models>>
        /\ thread' = [thread EXCEPT !["scheduler"] = [at |-> "models", k |-> 1]]
    BY <1>4 DEF BeginRefreshAll, dashboardVars
  <2> QED
    BY <1>0, <1>a, <2>1
<1>5. ASSUME NEW t \in Threads, RefreshModelFails(t)
      PROVE  QuietThreads /\ clock <= clock' /\ UNCHANGED models
  <2>1. /\ UNCHANGED <<clock, models>>
        /\ thread' = [thread EXCEPT ![t] = [at |-> "modelFailed", k |-> thread[t].k]]
    BY <1>5 DEF RefreshModelFails, dashboardVars
  <2> QED
    BY <1>0, <1>a, <2>1
<1>6. ASSUME NEW t \in Threads, RecordModelFailure(t) \/ RecordModelFailureFails(t)
      PROVE  QuietThreads /\ clock <= clock' /\ UNCHANGED models
  <2>1. UNCHANGED <<clock, models>> /\ Advance(t)
    BY <1>6 DEF RecordModelFailure, RecordModelFailureFails, dashboardVars
  <2> QED
    BY <1>0, <1>b, <2>1
<1>7. ASSUME NEW r \in Readers, ReaderStep(r)
      PROVE  QuietThreads /\ clock <= clock' /\ UNCHANGED models
  <2>1. UNCHANGED <<clock, models, thread>>
    BY <1>7 DEF ReaderStep, GetSummaryHit, GetSummaryMiss, ReadRows, StoreSummary, LoadRaises,
       aggregateVars
  <2> QED
    BY <1>0, <2>1
<1>8. ASSUME UNCHANGED vars PROVE QuietThreads /\ clock <= clock' /\ UNCHANGED models
  BY <1>0, <1>8 DEF vars, aggregateVars, dashboardVars
<1> QED
  BY <1>1, <1>2, <1>3, <1>4, <1>5, <1>6, <1>7, <1>8 DEF Next, ModelStep

\* The order of the stamps, along every step.
LEMMA StampsStep ==
  ASSUME TypeInv, LockInv, StampInv, [Next]_vars
  PROVE  /\ LockInv' /\ StampInv'
         /\ \A m \in Models : models[m].refreshedAt # None =>
               /\ models'[m].refreshedAt # None
               /\ models[m].refreshedAt <= models'[m].refreshedAt
<1> USE DEF StampedBy, Locked
<1>0. /\ thread \in [Threads -> ThreadStates] /\ clock \in Nat /\ None \notin Nat
      /\ models \in [Models -> ModelTables]
      /\ \A m \in Models : models[m].refreshedAt \in Nat \cup {None}
  BY BoundsAssumption DEF TypeInv, AggregateTypeOK, ModelTables, Stamp
<1>k. \A t \in Threads : thread[t].at \in Locked => AtModel(t) \in Models
  BY ModelAt DEF AtSome
<1>1. ASSUME NEW t \in Threads, DeleteRows(t)
      PROVE  LockInv' /\ StampInv' /\ UNCHANGED models
  <2> DEFINE state == [at |-> "deleted", k |-> thread[t].k, since |-> clock]
  <2>1. state.at = "deleted" /\ state.k = thread[t].k /\ state.since = clock
    OBVIOUS
  <2>2. /\ thread' = [thread EXCEPT ![t] = state] /\ UNCHANGED <<clock, models>>
        /\ thread[t].at = "models"
        /\ \A u \in Threads : ~(thread[u].at \in Locked /\ thread[u].k = thread[t].k)
    BY <1>1 DEF DeleteRows, dashboardVars
  <2> HIDE DEF state
  <2>3. LockInv'
    BY <1>0, <2>1, <2>2 DEF LockInv
  <2>4. AtModel(t)' = AtModel(t) /\ AtModel(t) \in Models
    BY <1>0, <2>1, <2>2, ModelAt DEF AtModel, AtSome
  <2>5. \A u \in Threads \ {t} : thread'[u] = thread[u] /\ AtModel(u)' = AtModel(u)
    BY <1>0, <2>2 DEF AtModel
  <2>6. thread'[t] = state
    BY <1>0, <2>2
  <2>7. StampInv'
    BY <1>0, <2>1, <2>2, <2>4, <2>5, <2>6 DEF StampInv
  <2> QED
    BY <2>2, <2>3, <2>7
<1>2. ASSUME NEW t \in Threads, InsertRows(t)
      PROVE  LockInv' /\ StampInv' /\ UNCHANGED models
  <2>1. thread[t].at = "deleted" /\ thread[t].since \in Nat /\ UNCHANGED <<clock, models>>
    BY <1>0, <1>2 DEF InsertRows, ThreadStates, Refresh, dashboardVars
  <2>2. PICK now \in thread[t].since .. clock :
           thread' = [thread EXCEPT ![t] = [at |-> "inserted", k |-> thread[t].k,
                                            rows |-> RowsFor(AtModel(t)), refreshedAt |-> now]]
    BY <1>2 DEF InsertRows
  <2> DEFINE state == [at |-> "inserted", k |-> thread[t].k,
                       rows |-> RowsFor(AtModel(t)), refreshedAt |-> now]
  <2>3. state.at = "inserted" /\ state.k = thread[t].k /\ state.refreshedAt = now
    OBVIOUS
  <2>4. thread' = [thread EXCEPT ![t] = state]
    BY <2>2
  <2> HIDE DEF state
  <2>5. LockInv'
    BY <1>0, <2>1, <2>3, <2>4 DEF LockInv
  <2>6. AtModel(t)' = AtModel(t) /\ AtModel(t) \in Models
    BY <1>0, <1>k, <2>1, <2>3, <2>4 DEF AtModel
  <2>7. \A u \in Threads \ {t} : thread'[u] = thread[u] /\ AtModel(u)' = AtModel(u)
    BY <1>0, <2>4 DEF AtModel
  <2>8. thread'[t] = state
    BY <1>0, <2>4
  <2>9. now <= clock /\ StampedBy(AtModel(t), now)
    BY <1>0, <2>1, <2>6 DEF StampInv
  <2>10. StampInv'
    BY <1>0, <2>1, <2>3, <2>6, <2>7, <2>8, <2>9 DEF StampInv
  <2> QED
    BY <2>1, <2>5, <2>10
<1>3. ASSUME NEW t \in Threads, RecordSuccess(t)
      PROVE  /\ LockInv' /\ StampInv'
             /\ \A m \in Models : models[m].refreshedAt # None =>
                   /\ models'[m].refreshedAt # None
                   /\ models[m].refreshedAt <= models'[m].refreshedAt
  <2> DEFINE m == AtModel(t)
             table == [rows |-> thread[t].rows, refreshedAt |-> thread[t].refreshedAt]
             next == IF thread[t].k < Len(ModelOrder)
                     THEN [at |-> "models", k |-> thread[t].k + 1] ELSE Idle
  <2>1. /\ thread[t].at = "inserted" /\ thread[t].refreshedAt \in Nat
        /\ models' = [models EXCEPT ![m] = table]
        /\ thread' = [thread EXCEPT ![t] = next] /\ UNCHANGED clock
    BY <1>0, <1>3 DEF RecordSuccess, Advance, ThreadStates, Refresh
  <2>2. m \in Models /\ thread[t].k \in DOMAIN ModelOrder
    BY <2>1, ModelAt DEF AtSome
  <2>3. /\ table.refreshedAt = thread[t].refreshedAt
        /\ thread[t].refreshedAt <= clock /\ StampedBy(m, thread[t].refreshedAt)
    BY <2>1 DEF StampInv
  <2>4. next.at \notin Locked
    BY DEF Idle
  <2>5. \A u \in Threads : thread[u].at \in Locked /\ u # t => AtModel(u) # m
    BY <2>1, <2>2, ModelAt, ModelOrderType DEF LockInv, AtModel, AtSome
  <2> HIDE DEF m, table, next
  <2>6. \A u \in Threads : thread'[u].at \in Locked =>
           u # t /\ thread'[u] = thread[u] /\ AtModel(u)' = AtModel(u)
    BY <1>0, <2>1, <2>4 DEF AtModel
  <2>7. LockInv'
    BY <2>6 DEF LockInv
  <2>8. models'[m] = table /\ \A n \in Models \ {m} : models'[n] = models[n]
    BY <1>0, <2>1, <2>2
  <2>9. \A n \in Models : models'[n].refreshedAt # None => models'[n].refreshedAt <= clock'
    BY <2>1, <2>3, <2>8 DEF StampInv
  <2>10. StampInv'
    BY <1>k, <2>1, <2>5, <2>6, <2>8, <2>9 DEF StampInv
  <2>11. \A n \in Models : models[n].refreshedAt # None =>
            /\ models'[n].refreshedAt # None
            /\ models[n].refreshedAt <= models'[n].refreshedAt
    BY <1>0, <2>1, <2>3, <2>8
  <2> QED
    BY <2>7, <2>10, <2>11
<1>4. ASSUME QuietThreads, clock <= clock', UNCHANGED models PROVE LockInv' /\ StampInv'
  <2>1. \A u \in Threads : thread'[u].at \in Locked =>
           thread'[u] = thread[u] /\ AtModel(u)' = AtModel(u)
    BY <1>4 DEF QuietThreads, AtModel
  <2>2. LockInv'
    BY <2>1 DEF LockInv
  <2>3. clock' \in Nat /\ \A n \in Nat : n <= clock => n <= clock'
    <3>1. clock' \in Nat
      BY TypeInvStep DEF TypeInv, AggregateTypeOK
    <3> QED
      BY <1>0, <1>4, <3>1
  <2>4. \A n \in Models : StampedBy(n, clock)'
    BY <1>0, <1>4, <2>3 DEF StampInv
  <2>5. \A u \in Threads :
          /\ thread[u].at = "deleted" => thread[u].since \in Nat
          /\ thread[u].at = "inserted" => thread[u].refreshedAt \in Nat
    BY <1>0 DEF ThreadStates, Refresh
  <2>6. StampInv'
    BY <1>4, <2>1, <2>3, <2>4, <2>5 DEF StampInv
  <2> QED
    BY <2>2, <2>6
<1>5. CASE \E t \in Threads : DeleteRows(t) \/ InsertRows(t) \/ RecordSuccess(t)
  BY <1>0, <1>1, <1>2, <1>3, <1>5
<1>6. CASE ~\E t \in Threads : DeleteRows(t) \/ InsertRows(t) \/ RecordSuccess(t)
  BY <1>0, <1>4, <1>6, QuietSteps
<1> QED
  BY <1>5, <1>6

LEMMA FreshnessStep == TypeInv /\ FreshnessInv /\ [Next]_vars => FreshnessInv'
<1> SUFFICES ASSUME TypeInv, FreshnessInv, [Next]_vars PROVE FreshnessInv'
  OBVIOUS
<1>0. /\ models \in [Models -> ModelTables] /\ None \notin Nat
      /\ modelState \in [Models -> ModelStates \cup {None}]
      /\ reader \in [Readers -> ReaderStates] /\ cache \in CacheEntries \cup {None}
      /\ \A m \in Models : models[m].refreshedAt \in Nat \cup {None}
      /\ \A r \in Readers : reader[r].at = "load" =>
            reader[r].seen \in SUBSET SeenRow
  BY BoundsAssumption DEF TypeInv, ModelTables, Stamp, ReaderStates
<1>s. /\ LockInv' /\ StampInv'
      /\ \A m \in Models : models[m].refreshedAt # None =>
            /\ models'[m].refreshedAt # None
            /\ models[m].refreshedAt <= models'[m].refreshedAt
  BY StampsStep DEF FreshnessInv
<1>t. TypeInv'
  BY TypeInvStep
\* Replaced rows are younger than those that a load has seen.
<1>m. ASSUME UNCHANGED reader PROVE SeenInv'
  <2> SUFFICES ASSUME NEW r \in Readers, reader[r].at = "load", NEW x \in reader[r].seen
               PROVE  /\ models'[x.model].refreshedAt # None
                      /\ x.refreshedAt <= models'[x.model].refreshedAt
    BY <1>m DEF SeenInv
  <2>1. x.model \in Models /\ x.refreshedAt \in Nat
    BY <1>0 DEF SeenRow
  <2>2. /\ models[x.model].refreshedAt # None
        /\ x.refreshedAt <= models[x.model].refreshedAt
    BY DEF FreshnessInv, SeenInv
  <2>3. models[x.model].refreshedAt \in Nat /\ models'[x.model].refreshedAt \in Nat \cup {None}
    BY <1>0, <1>t, <2>1, <2>2 DEF TypeInv, ModelTables, Stamp
  <2> QED
    BY <1>s, <2>1, <2>2, <2>3
<1>1. ASSUME UNCHANGED <<models, modelState, cache, reader>> PROVE FreshnessInv'
  BY <1>1, <1>m, <1>s DEF FreshnessInv, FreshnessVouchesForRows, Freshness, CoverInv, Answered
<1>2. ASSUME NEW t \in Threads, RecordSuccess(t) PROVE FreshnessInv'
  <2>1. thread[t].at = "inserted" /\ AtModel(t) \in Models /\ thread[t].refreshedAt \in Nat
    BY <1>2, ModelAt DEF RecordSuccess, AtSome, TypeInv, ThreadStates, Refresh
  <2>2. PICK now \in thread[t].refreshedAt .. clock :
           modelState' = [modelState EXCEPT ![AtModel(t)] =
              [status |-> "SUCCESS", refreshedAt |-> now, insertedAt |-> thread[t].refreshedAt]]
    BY <1>2 DEF RecordSuccess
  <2> DEFINE m == AtModel(t)
             table == [rows |-> thread[t].rows, refreshedAt |-> thread[t].refreshedAt]
             state == [status |-> "SUCCESS", refreshedAt |-> now, insertedAt |-> thread[t].refreshedAt]
  <2>3. /\ table.refreshedAt = state.insertedAt /\ table.refreshedAt <= state.refreshedAt
        /\ state # None => state.status = "SUCCESS"
    BY <2>1
  <2>4. /\ models' = [models EXCEPT ![m] = table] /\ modelState' = [modelState EXCEPT ![m] = state]
        /\ UNCHANGED <<cache, reader>>
    BY <1>2, <2>2 DEF RecordSuccess
  <2> HIDE DEF m, table, state
  <2>5. FreshnessVouchesForRows'
    BY <1>0, <2>3, <2>4 DEF FreshnessInv, FreshnessVouchesForRows, Freshness
  <2>6. CoverInv'
    BY <2>4 DEF FreshnessInv, CoverInv, Answered
  <2> QED
    BY <1>m, <1>s, <2>4, <2>5, <2>6 DEF FreshnessInv
<1>3. ASSUME NEW t \in Threads, RecordModelFailure(t) PROVE FreshnessInv'
  <2> DEFINE m == AtModel(t)
             state == [status |-> "FAILED", refreshedAt |-> clock, insertedAt |-> None]
  <2>1. state.status # "SUCCESS"
    OBVIOUS
  <2>2. modelState' = [modelState EXCEPT ![m] = state] /\ UNCHANGED <<models, cache, reader>>
    BY <1>3 DEF RecordModelFailure
  <2> HIDE DEF m, state
  <2>3. FreshnessVouchesForRows'
    BY <1>0, <2>1, <2>2 DEF FreshnessInv, FreshnessVouchesForRows, Freshness
  <2>4. CoverInv'
    BY <2>2 DEF FreshnessInv, CoverInv, Answered
  <2> QED
    BY <1>m, <1>s, <2>2, <2>3, <2>4 DEF FreshnessInv
<1>r. ASSUME UNCHANGED <<models, modelState>> PROVE FreshnessVouchesForRows'
  BY <1>r DEF FreshnessInv, FreshnessVouchesForRows, Freshness
<1>4. ASSUME NEW r \in Readers, GetSummaryHit(r) PROVE FreshnessInv'
  <2> DEFINE answer == [at |-> "answered", calledAt |-> clock, value |-> cache.value]
  <2>1. answer.at = "answered" /\ answer.value = cache.value /\ cache # None
    BY <1>4 DEF GetSummaryHit, Hit
  <2>2. reader' = [reader EXCEPT ![r] = answer] /\ UNCHANGED <<models, modelState, cache>>
    BY <1>4 DEF GetSummaryHit
  <2> HIDE DEF answer
  <2>3. SeenInv' /\ CoverInv'
    BY <1>0, <2>1, <2>2 DEF FreshnessInv, SeenInv, CoverInv, Answered
  <2> QED
    BY <1>r, <1>s, <2>2, <2>3 DEF FreshnessInv
<1>5. ASSUME NEW r \in Readers, GetSummaryMiss(r) PROVE FreshnessInv'
  <2> DEFINE load == [at |-> "load", calledAt |-> clock, next |-> 1, seen |-> {}]
  <2>1. load.at = "load" /\ load.seen = {}
    OBVIOUS
  <2>2. reader' = [reader EXCEPT ![r] = load] /\ UNCHANGED <<models, modelState, cache>>
    BY <1>5 DEF GetSummaryMiss
  <2> HIDE DEF load
  <2>3. SeenInv' /\ CoverInv'
    BY <1>0, <2>1, <2>2 DEF FreshnessInv, SeenInv, CoverInv, Answered
  <2> QED
    BY <1>r, <1>s, <2>2, <2>3 DEF FreshnessInv
<1>6. ASSUME NEW r \in Readers, ReadRows(r) PROVE FreshnessInv'
  <2> DEFINE found == Stamps(LoadOrder[reader[r].next])
             load == [reader[r] EXCEPT !.next = @ + 1, !.seen = @ \cup found]
  <2>1. reader[r].at = "load"
    BY <1>6 DEF ReadRows
  <2>2. reader[r] \in [at : {"load"}, calledAt : 0 .. MaxTime, next : 1 .. 5, seen : SUBSET SeenRow]
    BY <1>0, <2>1 DEF ReaderStates
  <2>3. load.at = "load" /\ load.seen = reader[r].seen \cup found
    BY <2>2
  <2>4. \A x \in found : /\ models[x.model].refreshedAt # None
                         /\ x.refreshedAt <= models[x.model].refreshedAt
    <3> SUFFICES ASSUME NEW x \in found
                 PROVE  /\ models[x.model].refreshedAt # None
                        /\ x.refreshedAt <= models[x.model].refreshedAt
      OBVIOUS
    <3>1. PICK y \in Models : /\ models[y].rows # {}
                              /\ x = [model |-> y, refreshedAt |-> models[y].refreshedAt]
      BY DEF Stamps
    <3>2. models[y].refreshedAt # None
      BY <3>1 DEF TypeInv
    <3>3. models[y].refreshedAt \in Nat
      BY <1>0, <3>2
    <3> QED
      BY <3>1, <3>2, <3>3
  <2>5. reader' = [reader EXCEPT ![r] = load] /\ UNCHANGED <<models, modelState, cache>>
    BY <1>6 DEF ReadRows
  <2> HIDE DEF load, found
  <2>6. SeenInv' /\ CoverInv'
    BY <1>0, <2>1, <2>3, <2>4, <2>5 DEF FreshnessInv, SeenInv, CoverInv, Answered
  <2> QED
    BY <1>r, <1>s, <2>5, <2>6 DEF FreshnessInv
<1>7. ASSUME NEW r \in Readers, StoreSummary(r) PROVE FreshnessInv'
  <2> DEFINE value == [loadedFrom |-> reader[r].calledAt, seen |-> reader[r].seen, freshness |-> Freshness]
             entry == [value |-> value, expiresAt |-> Expiry(r)]
             answer == [at |-> "answered", calledAt |-> reader[r].calledAt, value |-> value]
  <2>1. reader[r].at = "load" /\ reader[r].seen \in SUBSET SeenRow
    BY <1>0, <1>7 DEF StoreSummary
  <2>2. Covers(value)
    <3> SUFFICES ASSUME NEW x \in reader[r].seen, Freshness[x.model] # None
                 PROVE  x.refreshedAt <= Freshness[x.model]
      BY DEF Covers
    <3>1. x.model \in Models /\ x.refreshedAt \in Nat
      BY <2>1 DEF SeenRow
    <3>2. x.refreshedAt <= models[x.model].refreshedAt /\ models[x.model].refreshedAt \in Nat
      BY <1>0, <2>1, <3>1 DEF FreshnessInv, SeenInv
    <3>3. models[x.model].refreshedAt <= Freshness[x.model]
      BY <3>1 DEF FreshnessInv, FreshnessVouchesForRows
    <3>4. Freshness[x.model] \in Nat
      BY <1>0, <3>1 DEF Freshness, ModelStates
    <3> QED
      BY <3>1, <3>2, <3>3, <3>4
  <2>3. cache' = entry /\ reader' = [reader EXCEPT ![r] = answer] /\ UNCHANGED <<models, modelState>>
    BY <1>7 DEF StoreSummary
  <2> HIDE DEF value
  <2>4. entry.value = value /\ answer.value = value /\ answer.at = "answered"
    OBVIOUS
  <2> HIDE DEF entry, answer
  <2>5. SeenInv' /\ CoverInv'
    BY <1>0, <2>2, <2>3, <2>4 DEF FreshnessInv, SeenInv, CoverInv, Answered
  <2> QED
    BY <1>r, <1>s, <2>3, <2>5 DEF FreshnessInv
<1>8. ASSUME NEW r \in Readers, LoadRaises(r) PROVE FreshnessInv'
  <2>1. reader' = [reader EXCEPT ![r] = [at |-> "raised"]] /\ UNCHANGED <<models, modelState, cache>>
    BY <1>8 DEF LoadRaises
  <2>2. SeenInv' /\ CoverInv'
    BY <1>0, <2>1 DEF FreshnessInv, SeenInv, CoverInv, Answered
  <2> QED
    BY <1>r, <1>s, <2>1, <2>2 DEF FreshnessInv
<1>9. CASE \E t \in Threads : RecordSuccess(t) \/ RecordModelFailure(t)
  BY <1>2, <1>3, <1>9
<1>10. CASE \E r \in Readers : ReaderStep(r)
  BY <1>4, <1>5, <1>6, <1>7, <1>8, <1>10 DEF ReaderStep
<1>11. CASE /\ ~\E t \in Threads : RecordSuccess(t) \/ RecordModelFailure(t)
            /\ ~\E r \in Readers : ReaderStep(r)
  <2>1. UNCHANGED <<models, modelState, cache, reader>>
    BY <1>11 DEF Next, Source, BeginAggregate, RefreshDate, BeginRefreshAll, ModelStep,
       DeleteRows, InsertRows, RefreshModelFails, RecordModelFailureFails, vars, dashboardVars
  <2> QED
    BY <1>1, <2>1
<1> QED
  BY <1>9, <1>10, <1>11

\* A model shown with a freshness holds the rows that its refresh inserted, with
\* a stamp that the freshness is not older than.
THEOREM FreshnessIsOfTheRows == Spec => []FreshnessVouchesForRows
<1>1. FreshnessInv => FreshnessVouchesForRows
  BY DEF FreshnessInv
<1> QED
  BY TypeInvInit, TypeInvStep, FreshnessInit, FreshnessStep, <1>1, PTL DEF Spec

\* A summary never names a freshness older than a row it shows.
THEOREM SummariesNameTheirFreshness == Spec => []FreshnessCoversRows
<1>1. FreshnessInv => FreshnessCoversRows
  BY DEF FreshnessInv, CoverInv, Covers, FreshnessCoversRows
<1> QED
  BY TypeInvInit, TypeInvStep, FreshnessInit, FreshnessStep, <1>1, PTL DEF Spec

---------------------------------------------------------------------------
(* The summary row sums the daily rows *)

LEMMA SummaryInit == Init => SummaryFollowsDaily
<1> SUFFICES ASSUME Init PROVE RowsOf(daily) = 0
  BY DEF SummaryFollowsDaily
<1>1. {a \in Areas : daily[a] # {}} = {}
  BY DEF Init, AggregateInit
<1> QED
  BY <1>1, FS_EmptySet DEF RowsOf

LEMMA SummaryStep == SummaryFollowsDaily /\ [Next]_vars => SummaryFollowsDaily'
<1> SUFFICES ASSUME SummaryFollowsDaily, [Next]_vars PROVE SummaryFollowsDaily'
  OBVIOUS
<1>1. ASSUME RefreshEmpty PROVE SummaryFollowsDaily'
  <2>1. {a \in Areas : daily'[a] # {}} = {}
    BY <1>1 DEF RefreshEmpty
  <2>2. RowsOf(daily') = 0
    BY <2>1, FS_EmptySet DEF RowsOf
  <2> QED
    BY <2>2 DEF SummaryFollowsDaily
<1>2. ASSUME Rebuild PROVE SummaryFollowsDaily'
  <2>1. dailySummary' = SummaryOf(daily')
    BY <1>2 DEF Rebuild
  <2> QED
    BY <2>1, RowsOfType DEF SummaryFollowsDaily, SummaryOf
<1>3. CASE RefreshEmpty \/ Rebuild
  BY <1>1, <1>2, <1>3
<1>4. CASE ~(RefreshEmpty \/ Rebuild)
  <2>1. UNCHANGED <<daily, dailySummary>>
    BY <1>4 DEF Next, Source, SourceStep, AddData, UpdateData, DeleteData, Write, MoveSensor,
       Tick, BeginAggregate, BeginRefresh, RefreshDate, RefreshStep, SkipUnchanged,
       RefreshFails, RecordFailure, RecordFailureFails, BeginRefreshAll, ModelStep,
       DeleteRows, InsertRows, RecordSuccess, RefreshModelFails, RecordModelFailure,
       RecordModelFailureFails, ReaderStep, GetSummaryHit, GetSummaryMiss, ReadRows,
       StoreSummary, LoadRaises, vars, aggregateVars
  <2> QED
    BY <2>1 DEF SummaryFollowsDaily, RowsOf
<1> QED
  BY <1>3, <1>4

\* Wherever there are daily rows the summary row is their sum.
THEOREM SummariesFollowDaily == Spec => []SummaryFollowsDaily
BY SummaryInit, SummaryStep, PTL DEF Spec

---------------------------------------------------------------------------
(* A refresh is skipped only when the daily rows are current *)

Tables == [Inspections -> Inspection \cup {None}]
RowsIn(t) == {i \in Inspections : t[i] # None}
TimesIn(t) == {t[i].updateTime : i \in RowsIn(t)}
AggregateOf(t) ==
    [a \in Areas |-> {[id |-> i, value |-> t[i].value] :
                        i \in {j \in RowsIn(t) : sensor[t[j].sensor] = a}}]

\* The fingerprint is that of the table t.
Prints(fingerprint, t) ==
    /\ fingerprint.sourceCount = Cardinality(RowsIn(t))
    /\ RowsIn(t) # {} => fingerprint.sourceMaxUpdateTime = Max(TimesIn(t))

\* The table t is what the inspections were in the second readAt: every row that
\* is not younger than that is a row of t.
WasTable(t, readAt) ==
    /\ \A i \in RowsIn(t) : t[i].updateTime <= readAt
    /\ \A i \in RowsIn(inspection) :
          inspection[i].updateTime <= readAt => inspection[i] = t[i]

\* A recorded success that no blind change followed stands for an earlier table
\* which the daily rows aggregate; an open refresh that no write raced has read
\* the inspections as they are.
SkipInv ==
    /\ \A i \in RowsIn(inspection) : inspection[i].updateTime <= clock
    /\ refreshState # None /\ refreshState.status = "SUCCESS" /\ ~blind =>
          /\ refreshState.readAt \in 0 .. clock
          /\ \E t \in Tables : /\ Prints(refreshState.fingerprint, t)
                               /\ WasTable(t, refreshState.readAt)
                               /\ daily = AggregateOf(t)
    /\ InTransaction /\ ~Tx.raced =>
          /\ Tx.fingerprint = SourceFingerprint
          /\ Tx.readAt \in 0 .. clock
          /\ \A i \in RowsIn(inspection) : inspection[i].updateTime <= Tx.readAt

\* The model's fingerprint and aggregate are those of the current table.
LEMMA CurrentTable ==
  ASSUME TypeInv
  PROVE  /\ inspection \in Tables
         /\ Prints(SourceFingerprint, inspection)
         /\ Aggregate = AggregateOf(inspection)
<1>1. Rows = RowsIn(inspection)
  BY DEF Rows, RowsIn
<1> QED
  BY <1>1 DEF TypeInv, AggregateTypeOK, Tables, Prints, SourceFingerprint, Aggregate,
     AggregateOf, TimesIn

LEMMA RowsInFinite ==
  ASSUME NEW t PROVE IsFiniteSet(RowsIn(t))
<1>1. RowsIn(t) \in SUBSET Inspections
  BY DEF RowsIn
<1> QED
  BY <1>1, FS_Subset, BoundsAssumption

\* Two tables without rows have one aggregate, that without samples.
LEMMA EmptyAggregate ==
  ASSUME NEW t, RowsIn(t) = {} PROVE AggregateOf(t) = [a \in Areas |-> {}]
BY DEF AggregateOf

\* No row is younger than the newest update_time.
LEMMA NewestTime ==
  ASSUME NEW t \in Tables, RowsIn(t) # {}
  PROVE  /\ Max(TimesIn(t)) \in TimesIn(t)
         /\ \A i \in RowsIn(t) : t[i].updateTime <= Max(TimesIn(t))
<1>1. TimesIn(t) \in SUBSET (0 .. MaxTime) /\ TimesIn(t) # {}
  BY DEF TimesIn, RowsIn, Tables, Inspection
<1>2. MaxTime \in Nat
  BY BoundsAssumption
<1>3. Max(TimesIn(t)) \in TimesIn(t) /\ \A y \in TimesIn(t) : Max(TimesIn(t)) >= y
  BY <1>1, <1>2, MaxProperty
<1>4. \A i \in RowsIn(t) : t[i].updateTime \in TimesIn(t)
  BY DEF TimesIn
<1> QED
  BY <1>1, <1>3, <1>4

\* An equal fingerprint of an earlier table means an equal table: no row can be
\* younger than that fingerprint, the older ones are in both, and they are as many.
LEMMA EqualFingerprint ==
  ASSUME TypeInv, NEW t \in Tables, NEW fp, NEW readAt \in Nat,
         Prints(fp, t), WasTable(t, readAt), fp = SourceFingerprint
  PROVE  AggregateOf(t) = Aggregate
<1>1. /\ inspection \in Tables /\ Prints(fp, inspection)
      /\ Aggregate = AggregateOf(inspection)
  BY CurrentTable
<1>2. Cardinality(RowsIn(t)) = Cardinality(RowsIn(inspection))
  BY <1>1 DEF Prints
<1>3. CASE RowsIn(inspection) = {}
  <2>1. RowsIn(t) = {}
    BY <1>2, <1>3, RowsInFinite, FS_EmptySet
  <2> QED
    BY <1>1, <1>3, <2>1, EmptyAggregate
<1>4. CASE RowsIn(inspection) # {}
  <2>1. RowsIn(t) # {}
    BY <1>2, <1>4, RowsInFinite, FS_EmptySet
  <2>2. Max(TimesIn(inspection)) = Max(TimesIn(t))
    BY <1>1, <1>4, <2>1 DEF Prints
  <2>3. PICK j \in RowsIn(t) : Max(TimesIn(t)) = t[j].updateTime
    BY <2>1, NewestTime DEF TimesIn
  <2>4. \A i \in RowsIn(inspection) : inspection[i].updateTime <= t[j].updateTime
    BY <1>1, <1>4, <2>2, <2>3, NewestTime
  <2>5. t[j].updateTime <= readAt /\ t[j].updateTime \in Nat
    BY <2>3 DEF WasTable, Tables, RowsIn, Inspection
  <2>6. \A i \in RowsIn(inspection) : inspection[i].updateTime \in Nat
    BY <1>1 DEF Tables, RowsIn, Inspection
  <2>7. \A i \in RowsIn(inspection) : inspection[i].updateTime <= readAt
    BY <2>4, <2>5, <2>6
  <2>8. \A i \in RowsIn(inspection) : inspection[i] = t[i]
    BY <2>7 DEF WasTable
  <2>9. RowsIn(inspection) \in SUBSET RowsIn(t)
    BY <2>8 DEF RowsIn
  <2>10. RowsIn(inspection) = RowsIn(t)
    BY <1>2, <2>9, RowsInFinite, FS_Subset
  <2>11. AggregateOf(t) = AggregateOf(inspection)
    BY <2>8, <2>10 DEF AggregateOf
  <2> QED
    BY <1>1, <2>11
<1> QED
  BY <1>3, <1>4

LEMMA SkipInvInit == Init => SkipInv
<1> SUFFICES ASSUME Init PROVE SkipInv
  OBVIOUS
<1>1. ~InTransaction
  BY BoundsAssumption DEF Init, InTransaction, Idle
<1> QED
  BY <1>1 DEF Init, AggregateInit, SkipInv, RowsIn

\* An open refresh that has raced nothing can stand for what it is about to
\* record: the inspections are still the table it has read.
LEMMA CommitRecords ==
  ASSUME TypeInv, SkipInv, InTransaction, NEW rows, Commit(rows), UNCHANGED <<inspection, sensor, clock>>,
         ~Tx.raced => daily' = Aggregate
  PROVE  SkipInv'
<1>1. /\ refreshState'.fingerprint = Tx.fingerprint /\ refreshState'.readAt = Tx.readAt
      /\ blind' = Tx.raced /\ thread' = [thread EXCEPT !["scheduler"] = Idle]
  BY DEF Commit
<1>2. ~InTransaction'
  BY <1>1, BoundsAssumption DEF InTransaction, Idle, TypeInv
<1>3. ASSUME ~Tx.raced
      PROVE  /\ refreshState'.readAt \in 0 .. clock'
             /\ \E t \in Tables : /\ Prints(refreshState'.fingerprint, t)
                                  /\ WasTable(t, refreshState.readAt)'
                                  /\ daily' = AggregateOf(t)'
  <2>1. /\ Tx.fingerprint = SourceFingerprint /\ Tx.readAt \in 0 .. clock
        /\ \A i \in RowsIn(inspection) : inspection[i].updateTime <= Tx.readAt
    BY <1>3 DEF SkipInv
  <2>2. /\ inspection \in Tables /\ Prints(SourceFingerprint, inspection)
        /\ Aggregate = AggregateOf(inspection)
    BY CurrentTable
  <2>3. PICK t \in Tables : t = inspection
    BY <2>2
  <2>4. Prints(refreshState'.fingerprint, t)
    BY <1>1, <2>1, <2>2, <2>3
  <2>5. WasTable(t, refreshState.readAt)'
    BY <1>1, <2>1, <2>3 DEF WasTable, RowsIn
  <2>6. daily' = AggregateOf(t)'
    BY <1>3, <2>2, <2>3 DEF AggregateOf
  <2> QED
    BY <1>1, <2>1, <2>4, <2>5, <2>6
<1> QED
  BY <1>1, <1>2, <1>3 DEF SkipInv, RowsIn

LEMMA SkipInvStep == TypeInv /\ SkipInv /\ [Next]_vars => SkipInv'
<1> SUFFICES ASSUME TypeInv, SkipInv, [Next]_vars PROVE SkipInv'
  OBVIOUS
<1>t. clock \in Nat /\ thread \in [Threads -> ThreadStates] /\ "scheduler" \in Threads
  BY BoundsAssumption DEF TypeInv, AggregateTypeOK
<1>a. ASSUME NEW i \in Inspections, NEW x \in Inspection \cup {None}, NEW now \in 0 .. clock,
             x # None => x.updateTime = now, Write([inspection EXCEPT ![i] = x], now)
      PROVE  SkipInv'
  <2> DEFINE rows == [inspection EXCEPT ![i] = x]
  <2>1. /\ inspection' = rows /\ inspection \in Tables
        /\ UNCHANGED <<sensor, daily, refreshState, clock>>
        /\ blind' = (blind \/ (refreshState # None /\ refreshState.readAt \in now .. clock))
        /\ thread' = IF InTransaction THEN [thread EXCEPT !["scheduler"].raced = TRUE] ELSE thread
    BY <1>a DEF Write, TypeInv, AggregateTypeOK, Tables
  <2>2. \A k \in RowsIn(rows) :
           \/ rows[k].updateTime = now
           \/ k \in RowsIn(inspection) /\ rows[k] = inspection[k]
    BY <1>a, <2>1 DEF RowsIn, Tables
  <2> HIDE DEF rows
  <2>3. \A k \in RowsIn(inspection)' : inspection'[k].updateTime <= clock'
    BY <1>t, <2>1, <2>2 DEF SkipInv, RowsIn
  <2>4. ASSUME refreshState' # None, refreshState'.status = "SUCCESS", ~blind'
        PROVE  /\ refreshState'.readAt \in 0 .. clock'
               /\ \E t \in Tables : /\ Prints(refreshState'.fingerprint, t)
                                    /\ WasTable(t, refreshState.readAt)'
                                    /\ daily' = AggregateOf(t)'
    <3>0. ~blind /\ refreshState.readAt \notin now .. clock
      BY <2>1, <2>4
    <3>a. refreshState.readAt \in 0 .. clock
      BY <2>1, <2>4, <3>0 DEF SkipInv
    <3>1. refreshState.readAt \in 0 .. clock /\ refreshState.readAt < now
      BY <1>t, <3>0, <3>a
    <3>2. PICK t \in Tables : /\ Prints(refreshState.fingerprint, t)
                              /\ WasTable(t, refreshState.readAt)
                              /\ daily = AggregateOf(t)
      BY <2>1, <2>4 DEF SkipInv
    <3>3. \A k \in RowsIn(rows) : rows[k].updateTime <= refreshState.readAt => rows[k] = t[k]
      <4> SUFFICES ASSUME NEW k \in RowsIn(rows), rows[k].updateTime <= refreshState.readAt
                   PROVE  rows[k] = t[k]
        OBVIOUS
      <4>1. rows[k].updateTime # now
        BY <1>t, <3>1
      <4>2. k \in RowsIn(inspection) /\ rows[k] = inspection[k]
        BY <2>2, <4>1
      <4> QED
        BY <3>2, <4>2 DEF WasTable
    <3>4. WasTable(t, refreshState.readAt)'
      BY <2>1, <3>2, <3>3 DEF WasTable, RowsIn
    <3>5. daily' = AggregateOf(t)'
      BY <2>1, <3>2 DEF AggregateOf
    <3> QED
      BY <2>1, <3>1, <3>2, <3>4, <3>5
  <2>5. InTransaction' => Tx'.raced
    <3>1. ASSUME InTransaction PROVE Tx'.raced
      <4>1. thread["scheduler"] \in Refresh
        BY <1>t, <3>1 DEF InTransaction, ThreadStates
      <4>2. [thread["scheduler"] EXCEPT !.raced = TRUE].raced = TRUE
        BY <4>1 DEF Refresh
      <4>3. thread' = [thread EXCEPT !["scheduler"] = [thread["scheduler"] EXCEPT !.raced = TRUE]]
        BY <2>1, <3>1
      <4> QED
        BY <1>t, <4>2, <4>3 DEF Tx
    <3>2. ASSUME ~InTransaction PROVE ~InTransaction'
      BY <2>1, <3>2 DEF InTransaction
    <3> QED
      BY <3>1, <3>2
  <2> QED
    BY <2>3, <2>4, <2>5 DEF SkipInv
\* A step that leaves the aggregates alone and at most ends a transaction.
<1>b. ASSUME UNCHANGED <<inspection, sensor, daily, refreshState, clock, blind>>,
             InTransaction' => InTransaction /\ Tx' = Tx
      PROVE  SkipInv'
  BY <1>b DEF SkipInv, RowsIn, WasTable, AggregateOf, SourceFingerprint, Rows
<1>c. ASSUME NEW t \in Threads, NEW state, state.at # "refresh",
             thread' = [thread EXCEPT ![t] = state]
      PROVE  InTransaction' => InTransaction /\ Tx' = Tx
  BY <1>t, <1>c DEF InTransaction, Tx
<1>d. ASSUME NEW t \in Threads, Advance(t) PROVE InTransaction' => InTransaction /\ Tx' = Tx
  <2> DEFINE next == IF thread[t].k < Len(ModelOrder)
                     THEN [at |-> "models", k |-> thread[t].k + 1] ELSE Idle
  <2>1. next.at # "refresh"
    BY DEF Idle
  <2>2. thread' = [thread EXCEPT ![t] = next]
    BY <1>d DEF Advance
  <2> HIDE DEF next
  <2> QED
    BY <1>c, <2>1, <2>2
<1>1. ASSUME NEW i \in Inspections, NEW s \in Sensors, NEW v \in Values,
             AddData(i, s, v) \/ UpdateData(i, s, v)
      PROVE  SkipInv'
  <2>1. PICK now \in 0 .. clock :
           Write([inspection EXCEPT ![i] = [sensor |-> s, value |-> v, updateTime |-> now]], now)
    BY <1>1 DEF AddData, UpdateData
  <2> DEFINE x == [sensor |-> s, value |-> v, updateTime |-> now]
  <2>2. x \in Inspection /\ x.updateTime = now /\ Write([inspection EXCEPT ![i] = x], now)
    BY <2>1, BoundsAssumption DEF Inspection, TypeInv, AggregateTypeOK
  <2> HIDE DEF x
  <2> QED
    BY <1>a, <2>2
<1>2. ASSUME NEW i \in Inspections, DeleteData(i) PROVE SkipInv'
  <2>1. Write([inspection EXCEPT ![i] = None], clock) /\ clock \in 0 .. clock
    BY <1>2, <1>t DEF DeleteData
  <2> QED
    BY <1>a, <2>1
<1>3. ASSUME NEW s \in Sensors, NEW a \in Areas \cup {None}, MoveSensor(s, a) PROVE SkipInv'
  BY <1>3 DEF MoveSensor, SkipInv, RowsIn, InTransaction, Tx, SourceFingerprint, Rows
<1>4. ASSUME Tick PROVE SkipInv'
  <2>1. clock' = clock + 1 /\ UNCHANGED <<inspection, sensor, daily, refreshState, thread, blind>>
    BY <1>4 DEF Tick
  <2>2. \A i \in RowsIn(inspection) : inspection[i].updateTime \in Nat
    BY DEF TypeInv, AggregateTypeOK, RowsIn, Inspection
  <2>3. \A i \in RowsIn(inspection) : inspection[i].updateTime <= clock'
    BY <1>t, <2>1, <2>2 DEF SkipInv
  <2>4. \A n \in 0 .. clock : n \in 0 .. clock'
    BY <1>t, <2>1
  <2> QED
    BY <2>1, <2>3, <2>4 DEF SkipInv, RowsIn, WasTable, AggregateOf, SourceFingerprint, Rows,
       InTransaction, Tx
<1>5. ASSUME BeginAggregate PROVE SkipInv'
  <2>1. Tx' = [at |-> "refresh", fingerprint |-> SourceFingerprint, state |-> refreshState,
               rows |-> RowsOf(daily), readAt |-> clock, raced |-> FALSE]
    BY <1>5, <1>t DEF BeginAggregate, BeginRefresh, Tx
  <2>2. Tx'.fingerprint = SourceFingerprint /\ Tx'.readAt = clock
    BY <2>1
  <2>3. UNCHANGED <<inspection, sensor, daily, refreshState, clock, blind>>
    BY <1>5 DEF BeginAggregate, BeginRefresh
  <2>4. clock \in 0 .. clock
    BY <1>t
  <2> QED
    BY <2>2, <2>3, <2>4 DEF SkipInv, RowsIn, WasTable, AggregateOf, SourceFingerprint, Rows
<1>6. ASSUME RefreshEmpty PROVE SkipInv'
  <2>1. ASSUME ~Tx.raced PROVE daily' = Aggregate
    <3>0. InTransaction /\ Tx.fingerprint.sourceCount = 0 /\ Tx.fingerprint = SourceFingerprint
      BY <1>6, <2>1 DEF RefreshEmpty, SkipInv
    <3>1. Cardinality(RowsIn(inspection)) = 0
      BY <3>0 DEF SourceFingerprint, Rows, RowsIn
    <3>2. RowsIn(inspection) = {}
      BY <3>1, RowsInFinite, FS_EmptySet
    <3>3. Aggregate = [a \in Areas |-> {}]
      BY <3>2, CurrentTable, EmptyAggregate
    <3> QED
      BY <1>6, <3>3 DEF RefreshEmpty
  <2> QED
    BY <1>6, <2>1, CommitRecords DEF RefreshEmpty
<1>7. ASSUME SkipUnchanged PROVE SkipInv'
  <2>1. ~InTransaction'
    BY <1>7, <1>t DEF SkipUnchanged, InTransaction, Idle
  <2> QED
    BY <1>7, <1>b, <2>1 DEF SkipUnchanged
<1>8. ASSUME Rebuild PROVE SkipInv'
  BY <1>8, CommitRecords DEF Rebuild
<1>9. ASSUME RefreshFails PROVE SkipInv'
  <2>1. ~InTransaction'
    BY <1>9, <1>t DEF RefreshFails, InTransaction
  <2> QED
    BY <1>9, <1>b, <2>1 DEF RefreshFails
<1>10. ASSUME RecordFailure PROVE SkipInv'
  <2>1. UNCHANGED <<inspection, clock>> /\ thread' = [thread EXCEPT !["scheduler"] = Idle]
    BY <1>10 DEF RecordFailure
  <2>2. refreshState'.status # "SUCCESS"
    <3>1. CASE refreshState = None
      BY <1>10, <3>1 DEF RecordFailure
    <3>2. CASE refreshState # None
      <4>1. refreshState \in RefreshState
        BY <3>2 DEF TypeInv, AggregateTypeOK
      <4> QED
        BY <1>10, <3>2, <4>1 DEF RecordFailure, RefreshState
    <3> QED
      BY <3>1, <3>2
  <2>3. ~InTransaction'
    BY <1>t, <2>1 DEF InTransaction, Idle
  <2> QED
    BY <2>1, <2>2, <2>3 DEF SkipInv, RowsIn
<1>11. ASSUME RecordFailureFails PROVE SkipInv'
  <2>1. ~InTransaction'
    BY <1>11, <1>t DEF RecordFailureFails, InTransaction, Idle
  <2> QED
    BY <1>11, <1>b, <2>1 DEF RecordFailureFails
<1>12. ASSUME BeginRefreshAll PROVE SkipInv'
  <2>1. ~InTransaction'
    BY <1>12, <1>t DEF BeginRefreshAll, InTransaction
  <2> QED
    BY <1>12, <1>b, <2>1 DEF BeginRefreshAll, dashboardVars
<1>13. ASSUME NEW t \in Threads, RecordSuccess(t) PROVE SkipInv'
  BY <1>13, <1>b, <1>d DEF RecordSuccess
<1>19. ASSUME NEW t \in Threads, DeleteRows(t) PROVE SkipInv'
  <2>1. InTransaction' => InTransaction /\ Tx' = Tx
    BY <1>19, <1>c DEF DeleteRows
  <2> QED
    BY <1>19, <1>b, <2>1 DEF DeleteRows
<1>20. ASSUME NEW t \in Threads, InsertRows(t) PROVE SkipInv'
  <2>1. PICK now : thread' = [thread EXCEPT ![t] = [at |-> "inserted", k |-> thread[t].k,
                                  rows |-> RowsFor(AtModel(t)), refreshedAt |-> now]]
    BY <1>20 DEF InsertRows
  <2>2. InTransaction' => InTransaction /\ Tx' = Tx
    BY <1>c, <2>1
  <2> QED
    BY <1>20, <1>b, <2>2 DEF InsertRows
<1>14. ASSUME NEW t \in Threads, RefreshModelFails(t) PROVE SkipInv'
  <2>1. InTransaction' => InTransaction /\ Tx' = Tx
    BY <1>14, <1>c DEF RefreshModelFails
  <2> QED
    BY <1>14, <1>b, <2>1 DEF RefreshModelFails
<1>15. ASSUME NEW t \in Threads, RecordModelFailure(t) PROVE SkipInv'
  BY <1>15, <1>b, <1>d DEF RecordModelFailure
<1>16. ASSUME NEW t \in Threads, RecordModelFailureFails(t) PROVE SkipInv'
  BY <1>16, <1>b, <1>d DEF RecordModelFailureFails
<1>17. ASSUME NEW r \in Readers, ReaderStep(r) PROVE SkipInv'
  <2>1. UNCHANGED <<inspection, sensor, daily, refreshState, clock, blind, thread>>
    BY <1>17 DEF ReaderStep, GetSummaryHit, GetSummaryMiss, ReadRows, StoreSummary, LoadRaises,
       aggregateVars
  <2> QED
    BY <1>b, <2>1 DEF InTransaction, Tx
<1>18. ASSUME UNCHANGED vars PROVE SkipInv'
  BY <1>18, <1>b DEF vars, aggregateVars, InTransaction, Tx
<1> QED
  BY <1>1, <1>2, <1>3, <1>4, <1>5, <1>6, <1>7, <1>8, <1>9, <1>10, <1>11, <1>12,
     <1>13, <1>14, <1>15, <1>16, <1>17, <1>18, <1>19, <1>20
     DEF Next, Source, SourceStep, RefreshDate, RefreshStep, ModelStep

\* The refresh skips a day only while its daily rows are the aggregate of its
\* inspections, blind changes aside.
THEOREM SkipsAreSound == Spec => []SkippedOnlyWhenCurrent
<1>1. ASSUME TypeInv, SkipInv PROVE SkippedOnlyWhenCurrent
  <2> SUFFICES ASSUME refreshState # None, refreshState.status = "SUCCESS",
                      refreshState.fingerprint = SourceFingerprint, ~blind
               PROVE  daily = Aggregate
    BY DEF SkippedOnlyWhenCurrent
  <2>1. PICK t \in Tables : /\ Prints(refreshState.fingerprint, t)
                            /\ WasTable(t, refreshState.readAt)
                            /\ daily = AggregateOf(t)
    BY <1>1 DEF SkipInv
  <2>2. refreshState.readAt \in Nat
    BY <1>1 DEF SkipInv
  <2> QED
    BY <1>1, <2>1, <2>2, EqualFingerprint
<1> QED
  BY TypeInvInit, TypeInvStep, SkipInvInit, SkipInvStep, <1>1, PTL DEF Spec
=============================================================================
