-------------------------- MODULE EventReplayProofs --------------------------
(***************************************************************************)
(* What readers of EventReplay are told, for every value of its constants. *)
(***************************************************************************)
EXTENDS EventReplay, FiniteSetTheorems, FunctionTheorems, TLAPS

---------------------------------------------------------------------------
(* The log only grows *)

EventTypes == {"step", "decision", "export"}

\* A completed run has its decision in the log.
LogInv ==
    /\ events \in [Turns -> Seq(EventTypes)]
    /\ runStatus \in [Turns -> Statuses]
    /\ \A r \in Turns : runStatus[r] = "completed" => Decided(r)

\* What has been appended stays where it is.
Grow ==
    \A r \in Turns :
        /\ Len(events[r]) \in Nat /\ Len(events'[r]) \in Nat
        /\ Len(events[r]) <= Len(events'[r])
        /\ \A k \in 1..Len(events[r]) : events'[r][k] = events[r][k]

LEMMA LogInit == Init => LogInv
BY DEF Init, LogInv, Statuses, EventTypes

LEMMA AppendGrows ==
  ASSUME LogInv, NEW r \in Turns, NEW type \in EventTypes,
         events' = [events EXCEPT ![r] = Append(events[r], type)]
  PROVE  /\ events' \in [Turns -> Seq(EventTypes)]
         /\ Grow
         /\ \A q \in Turns : Decided(q) => Decided(q)'
<1>1. events[r] \in Seq(EventTypes) /\ Append(events[r], type) \in Seq(EventTypes)
  BY DEF LogInv
<1>2. /\ Len(Append(events[r], type)) = Len(events[r]) + 1
      /\ \A k \in 1..Len(events[r]) : Append(events[r], type)[k] = events[r][k]
  BY <1>1
<1>3. events' \in [Turns -> Seq(EventTypes)]
  BY <1>1 DEF LogInv
<1>4. Grow
  <2> SUFFICES ASSUME NEW q \in Turns
               PROVE  /\ Len(events[q]) \in Nat /\ Len(events'[q]) \in Nat
                      /\ Len(events[q]) <= Len(events'[q])
                      /\ \A k \in 1..Len(events[q]) : events'[q][k] = events[q][k]
    BY DEF Grow
  <2>1. events[q] \in Seq(EventTypes) /\ events'[q] \in Seq(EventTypes)
    BY <1>3 DEF LogInv
  <2>2. CASE q = r
    BY <1>1, <1>2, <2>1, <2>2 DEF LogInv
  <2>3. CASE q # r
    BY <2>1, <2>3 DEF LogInv
  <2> QED
    BY <2>2, <2>3
<1>5. \A q \in Turns : Decided(q) => Decided(q)'
  BY <1>3, <1>4 DEF Grow, Decided, LogInv
<1> QED
  BY <1>3, <1>4, <1>5

LEMMA KeptGrows ==
  ASSUME LogInv, UNCHANGED events
  PROVE  Grow /\ \A q \in Turns : Decided(q) => Decided(q)'
BY DEF LogInv, Grow, Decided

LEMMA LogStep == LogInv /\ [Next]_vars => LogInv' /\ Grow
<1> SUFFICES ASSUME LogInv, [Next]_vars PROVE LogInv' /\ Grow
  OBVIOUS
<1>1. ASSUME UNCHANGED <<events, runStatus>> PROVE LogInv' /\ Grow
  BY <1>1, KeptGrows DEF LogInv
<1>2. ASSUME NEW r \in Turns, StartRun(r) \/ CancelRun(r) PROVE LogInv' /\ Grow
  <2>1. UNCHANGED events
    BY <1>2 DEF StartRun, CancelRun
  <2>2. /\ runStatus' \in [Turns -> Statuses]
        /\ \A q \in Turns : runStatus'[q] = "completed" => runStatus[q] = "completed"
    BY <1>2 DEF StartRun, CancelRun, LogInv, Statuses
  <2> QED
    BY <2>1, <2>2, KeptGrows DEF LogInv
<1>3. ASSUME NEW r \in Turns, CompleteRun(r) PROVE LogInv' /\ Grow
  <2>1. UNCHANGED events /\ Decided(r)
    BY <1>3 DEF CompleteRun
  <2>2. /\ runStatus' \in [Turns -> Statuses]
        /\ \A q \in Turns : runStatus'[q] = "completed" => runStatus[q] = "completed" \/ q = r
    BY <1>3 DEF CompleteRun, LogInv, Statuses
  <2> QED
    BY <2>1, <2>2, KeptGrows DEF LogInv
<1>4. ASSUME NEW r \in Turns, AppendEvent(r) \/ AppendExport(r) PROVE LogInv' /\ Grow
  <2>1. PICK type \in EventTypes : events' = [events EXCEPT ![r] = Append(events[r], type)]
    BY <1>4 DEF AppendEvent, AppendExport, EventTypes
  <2>2. UNCHANGED runStatus
    BY <1>4 DEF AppendEvent, AppendExport
  <2> QED
    BY <2>1, <2>2, AppendGrows DEF LogInv
<1>5. ASSUME NEW r \in Turns, \/ BeginMessage(r) \/ CommitMessage(r) \/ SaveSummary(r)
                              \/ Reconnect(r) \/ SelectItem(r)
      PROVE  LogInv' /\ Grow
  BY <1>1, <1>5 DEF BeginMessage, CommitMessage, SaveSummary, Reconnect, SelectItem, storeVars,
     runsVars
<1>6. ASSUME \/ Tick \/ ReadStatus \/ ReplayRun \/ ListSessionEvents \/ ListPage
             \/ ReadRun \/ ReadSummary \/ CountEvents \/ SnapshotEvents \/ UNCHANGED vars
      PROVE  LogInv' /\ Grow
  BY <1>1, <1>6 DEF Tick, ReadStatus, ReplayRun, ListSessionEvents, ListPage, ReadRun,
     ReadSummary, CountEvents, SnapshotEvents, Read, vars, runsVars
<1> QED
  BY <1>2, <1>3, <1>4, <1>5, <1>6 DEF Next, Write

\* A step of a handler, or none: no reader notices.
LEMMA HandlerSteps ==
  ASSUME [Next]_vars
  PROVE  \/ UNCHANGED readerVars
         \/ \E r \in Turns : Reconnect(r) \/ SelectItem(r)
         \/ ReadStatus \/ ReplayRun \/ ListSessionEvents \/ ListPage
         \/ ReadRun \/ ReadSummary \/ CountEvents \/ SnapshotEvents
BY DEF Next, Write, vars, Tick, BeginMessage, CommitMessage, StartRun, AppendEvent, CancelRun,
   CompleteRun, SaveSummary, AppendExport

---------------------------------------------------------------------------
(* The first events of a run *)

Prefix(r, n) == {<<r, k>> : k \in 1..n}

LEMMA PrefixCount == ASSUME NEW r, NEW n \in Nat PROVE Cardinality(Prefix(r, n)) = n
<1> DEFINE f == [k \in 1..n |-> <<r, k>>]
<1>1. f \in Bijection(1..n, Prefix(r, n))
  BY DEF Prefix, Bijection, Injection, Surjection, IsInjective
<1>2. ExistsBijection(1..n, Prefix(r, n))
  BY <1>1 DEF ExistsBijection
<1>3. IsFiniteSet(1..n) /\ Cardinality(1..n) = n
  BY FS_Interval
<1> QED
  BY <1>2, <1>3, FS_Bijection

LEMMA RowsOfRun ==
  ASSUME NEW r \in Turns, NEW k
  PROVE  <<r, k>> \in Rows <=> k \in DOMAIN events[r]
BY DEF Rows

---------------------------------------------------------------------------
(* Clients *)

Decision(r, k) == k \in 1..Len(events[r]) /\ events[r][k] = "decision"

\* The rows a client has of the run it resumes are the first ones, up to some
\* number, and past the decision when it was told that the run is completed.
HasPrefix == \E n \in 0..Len(events[of]) : got = Prefix(of, n)

ClientInv ==
    reader = "client" =>
        /\ at \in {"start", "resume", "replay", "done"}
        /\ at # "start" => of \in Turns
        /\ at \in {"start", "resume"} => seenStatus = "none"
        /\ at \in {"resume", "replay"} => HasPrefix
        /\ at = "replay" /\ seenStatus = "completed" => Decided(of)
        /\ at = "done" =>
              \/ /\ HasPrefix
                 /\ seenStatus = "completed" => \E n \in Nat : got = Prefix(of, n)
                                                   /\ \E k \in 1..n : Decision(of, k)
              \/ scope = "session" /\ seenStatus = "none" /\ \E row \in got : row[1] # of

ReaderTypes ==
    /\ reader \in {"client", "pager", "sharer"}
    /\ reader = "pager" => at \in {"start", "more", "done"}
    /\ reader = "sharer" => at \in {"start", "run", "summary", "count", "events", "done"}

LEMMA ClientInit == Init => ClientInv /\ ReaderTypes
BY DEF Init, ClientInv, ReaderTypes

LEMMA ReaderTypesStep == ReaderTypes /\ ClientInv /\ [Next]_vars => ReaderTypes'
<1> SUFFICES ASSUME ReaderTypes, ClientInv, [Next]_vars PROVE ReaderTypes'
  OBVIOUS
<1> QED
  BY HandlerSteps DEF ReaderTypes, ClientInv, readerVars, Reconnect, SelectItem, ReadStatus, ReplayRun,
     ListSessionEvents, ListPage, ReadRun, ReadSummary, CountEvents, SnapshotEvents, Read

\* Nothing a client has is invalidated when the log grows.
LEMMA ClientStays ==
  ASSUME LogInv, Grow, ClientInv, UNCHANGED readerVars
  PROVE  ClientInv'
<1>1. SUFFICES ASSUME reader = "client", at # "start" PROVE ClientInv'
  BY DEF ClientInv, readerVars, clientVars
<1>2. of \in Turns
  BY <1>1 DEF ClientInv
<1>3. HasPrefix => HasPrefix'
  BY <1>2 DEF HasPrefix, Grow, readerVars, clientVars
<1>4. \A k : Decision(of, k) => Decision(of, k)'
  BY <1>2 DEF Decision, Grow, readerVars
<1>5. Decided(of) <=> \E k : Decision(of, k)
  BY <1>2 DEF Decided, Decision, LogInv
<1>6. (\E k : Decision(of, k)') => Decided(of)'
  BY <1>2 DEF Decided, Decision, Grow, readerVars
<1> QED
  BY <1>1, <1>2, <1>3, <1>4, <1>5, <1>6 DEF ClientInv, readerVars, clientVars

LEMMA ClientStep ==
  LogInv /\ ReaderTypes /\ ClientInv /\ Grow /\ [Next]_vars => ClientInv'
<1> SUFFICES ASSUME LogInv, ReaderTypes, ClientInv, Grow, [Next]_vars PROVE ClientInv'
  OBVIOUS
<1>1. CASE UNCHANGED readerVars
  BY <1>1, ClientStays
<1>2. ASSUME NEW r \in Turns, Reconnect(r) PROVE ClientInv'
  <2>1. PICK n \in 0..Len(events[r]) : got' = {<<r, seq>> : seq \in 1..n}
    BY <1>2 DEF Reconnect
  <2>2. of' = r /\ at' = "resume" /\ UNCHANGED <<reader, seenStatus, events>> /\ at = "start"
        /\ reader = "client"
    BY <1>2 DEF Reconnect, runsVars
  <2>3. HasPrefix'
    BY <2>1, <2>2 DEF HasPrefix, Prefix
  <2> QED
    BY <2>2, <2>3 DEF ClientInv
<1>3. CASE ReadStatus
  <2>1. reader = "client" /\ at = "resume" /\ of \in Turns
    BY <1>3 DEF ReadStatus, ReaderTypes, ClientInv
  <2>2. HasPrefix' /\ (seenStatus' = "completed" => Decided(of)')
    BY <1>3, <2>1 DEF ReadStatus, ClientInv, HasPrefix, LogInv, runsVars, Decided
  <2> QED
    BY <1>3, <2>1, <2>2 DEF ReadStatus, ClientInv
<1>4. CASE ReplayRun
  <2>1. reader = "client" /\ at = "replay" /\ of \in Turns /\ HasPrefix
    BY <1>4 DEF ReplayRun, ReaderTypes, ClientInv
  <2>2. PICK n \in 0..Len(events[of]) : got = Prefix(of, n)
    BY <2>1 DEF HasPrefix
  <2> DEFINE len == Len(events[of])
  <2>3. events[of] \in Seq(EventTypes) /\ len \in Nat /\ n \in Nat /\ DOMAIN events[of] = 1..len
    BY <2>1, <2>2 DEF LogInv
  <2>4. Cardinality(got) = n
    BY <2>2, <2>3, PrefixCount
  <2>5. {row \in RowsAfter(n) : row[1] = of} = {<<of, k>> : k \in (n + 1)..len}
    BY <2>1, <2>3 DEF RowsAfter, Rows, LogInv
  <2>6. got' = Prefix(of, len)
    BY <1>4, <2>2, <2>3, <2>4, <2>5 DEF ReplayRun, Prefix
  <2>7. UNCHANGED <<events, of, seenStatus, reader>> /\ at' = "done"
    BY <1>4 DEF ReplayRun, runsVars
  <2>8. seenStatus = "completed" => \E k \in 1..len : Decision(of, k)
    BY <2>1, <2>3 DEF ClientInv, Decided, Decision
  <2>9. HasPrefix'
    BY <2>3, <2>6, <2>7 DEF HasPrefix
  <2>10. seenStatus' = "completed" =>
            \E m \in Nat : got' = Prefix(of', m) /\ \E k \in 1..m : Decision(of, k)'
    BY <2>3, <2>6, <2>7, <2>8 DEF Decision
  <2> QED
    BY <2>1, <2>7, <2>9, <2>10 DEF ClientInv
<1>5. CASE ListSessionEvents
  <2>1. reader = "client" /\ at = "resume" /\ of \in Turns /\ HasPrefix /\ seenStatus = "none"
    BY <1>5 DEF ListSessionEvents, ReaderTypes, ClientInv
  <2>2. PICK n \in 0..Len(events[of]) : got = Prefix(of, n)
    BY <2>1 DEF HasPrefix
  <2> DEFINE len == Len(events[of])
  <2>3. events[of] \in Seq(EventTypes) /\ len \in Nat /\ n \in Nat /\ DOMAIN events[of] = 1..len
    BY <2>1, <2>2 DEF LogInv
  <2>4. Cardinality(got) = n
    BY <2>2, <2>3, PrefixCount
  <2>5. got' = got \cup RowsAfter(n) /\ scope = "session"
    BY <1>5, <2>4 DEF ListSessionEvents
  <2>6. UNCHANGED <<events, of, seenStatus, reader, scope>> /\ at' = "done"
    BY <1>5 DEF ListSessionEvents, runsVars
  <2>7. {row \in RowsAfter(n) : row[1] = of} = {<<of, k>> : k \in (n + 1)..len}
    BY <2>1, <2>3 DEF RowsAfter, Rows, LogInv
  <2>8. CASE \E row \in got' : row[1] # of
    BY <2>1, <2>5, <2>6, <2>8 DEF ClientInv
  <2>9. CASE \A row \in got' : row[1] = of
    <3>1. RowsAfter(n) = {<<of, k>> : k \in (n + 1)..len}
      BY <2>5, <2>7, <2>9
    <3>2. got' = Prefix(of, len)
      BY <2>2, <2>3, <2>5, <3>1 DEF Prefix
    <3>3. HasPrefix'
      BY <2>3, <2>6, <3>2 DEF HasPrefix
    <3> QED
      BY <2>1, <2>6, <3>3 DEF ClientInv
  <2> QED
    BY <2>8, <2>9
<1>6. CASE \/ \E r \in Turns : SelectItem(r)
           \/ ListPage \/ ReadRun \/ ReadSummary \/ CountEvents \/ SnapshotEvents
  BY <1>6 DEF SelectItem, ListPage, ReadRun, ReadSummary, CountEvents, SnapshotEvents, Read, ClientInv
<1> QED
  BY <1>1, <1>2, <1>3, <1>4, <1>5, <1>6, HandlerSteps

\* A client that was told its run is completed has all events the status rests on.
THEOREM ReplaysAreWhole == Spec => []ReplayIsWhole
<1>1. LogInv /\ ClientInv => ReplayIsWhole
  <2> SUFFICES ASSUME LogInv, ClientInv, reader = "client", at = "done"
               PROVE  /\ seenStatus = "completed" => WholeIn(of, got)
                      /\ \/ scope = "session" /\ \E row \in got : row[1] # of
                         \/ \A row \in got : \A seq \in 1..row[2] : <<of, seq>> \in got
    BY DEF ReplayIsWhole
  <2>1. of \in Turns /\ events[of] \in Seq(EventTypes)
    BY DEF ClientInv, LogInv
  <2>2. seenStatus = "completed" => WholeIn(of, got)
    <3> SUFFICES ASSUME seenStatus = "completed" PROVE WholeIn(of, got)
      OBVIOUS
    <3>1. PICK n \in Nat : got = Prefix(of, n) /\ \E k \in 1..n : Decision(of, k)
      BY DEF ClientInv
    <3>2. PICK k \in 1..n : Decision(of, k)
      BY <3>1
    <3>3. \A j \in 1..k : <<of, j>> \in got
      BY <3>1, <3>2 DEF Prefix
    <3> QED
      BY <2>1, <3>2, <3>3 DEF WholeIn, Decision
  <2>3. CASE HasPrefix
    <3>1. PICK n \in 0..Len(events[of]) : got = Prefix(of, n)
      BY <2>3 DEF HasPrefix
    <3>2. \A row \in got : \A seq \in 1..row[2] : <<of, seq>> \in got
      BY <2>1, <3>1 DEF Prefix
    <3> QED
      BY <2>2, <3>2
  <2>4. CASE ~HasPrefix
    BY <2>2, <2>4 DEF ClientInv
  <2> QED
    BY <2>3, <2>4
<1> QED
  BY LogInit, LogStep, ClientInit, ClientStep, ReaderTypesStep, <1>1, PTL DEF Spec

---------------------------------------------------------------------------
(* Shares *)

Items == [status : Statuses, summary : BOOLEAN, count : Nat, events : SUBSET (Turns \X Nat)]

\* A status that was read as completed has its decision in the log already, and so
\* in whatever is read of the log afterwards.
SharerInv ==
    /\ item.status = "completed" =>
          /\ reader = "sharer" /\ of \in Turns
          /\ at # "start"
          /\ Decided(of)
          /\ at = "events" => \E k \in Nat : k <= item.count /\ Decision(of, k)
          /\ at = "done" => WholeIn(of, item.events)
    /\ reader = "sharer" /\ at # "start" => of \in Turns
    /\ item \in Items

LEMMA SharerInit == Init => SharerInv
BY DEF Init, SharerInv, NoItem, Statuses, Items

\* Nothing a sharer has read is invalidated when the log grows.
LEMMA SharerStays ==
  ASSUME LogInv, Grow, SharerInv, UNCHANGED <<reader, at, of, item>>
  PROVE  SharerInv'
<1>1. ASSUME of \in Turns, Decided(of) PROVE Decided(of)'
  BY <1>1 DEF Decided, Grow, LogInv
<1>2. ASSUME of \in Turns, NEW k, Decision(of, k) PROVE Decision(of, k)'
  BY <1>2 DEF Decision, Grow
<1>3. ASSUME of \in Turns, WholeIn(of, item.events) PROVE WholeIn(of, item.events)'
  BY <1>3 DEF WholeIn, Grow, LogInv
<1> QED
  BY <1>1, <1>2, <1>3 DEF SharerInv

\* One read of an item, which the log survives.
LEMMA ReadKeeps ==
  ASSUME SharerInv, NEW here, NEW there, NEW now, Read(here, there, now)
  PROVE  /\ reader = "sharer" /\ at = here /\ at' = there /\ item' = now
         /\ UNCHANGED <<reader, of, events, runStatus>>
BY DEF Read, runsVars

LEMMA SummaryRead ==
  ASSUME NEW b \in BOOLEAN, item \in Items
  PROVE  /\ [item EXCEPT !.summary = b] \in Items
         /\ [item EXCEPT !.summary = b].status = item.status
BY DEF Items

LEMMA SharerStep ==
  LogInv /\ ReaderTypes /\ ClientInv /\ SharerInv /\ Grow /\ [Next]_vars => SharerInv'
<1> SUFFICES ASSUME LogInv, ReaderTypes, ClientInv, SharerInv, Grow, [Next]_vars PROVE SharerInv'
  OBVIOUS
<1>0. item \in Items
  BY DEF SharerInv
<1>1. CASE UNCHANGED readerVars
  BY <1>1, SharerStays DEF readerVars
<1>2. CASE \/ \E r \in Turns : Reconnect(r)
           \/ ReadStatus \/ ReplayRun \/ ListSessionEvents \/ ListPage
  <2>1. reader # "sharer"
    BY <1>2 DEF Reconnect, ReadStatus, ReplayRun, ListSessionEvents, ListPage, ReaderTypes
  <2>2. UNCHANGED <<item, reader>>
    BY <1>2 DEF Reconnect, ReadStatus, ReplayRun, ListSessionEvents, ListPage
  <2> QED
    BY <2>1, <2>2 DEF SharerInv
<1>3. ASSUME NEW r \in Turns, SelectItem(r) PROVE SharerInv'
  <2>1. item.status # "completed"
    BY <1>3 DEF SelectItem, SharerInv
  <2> QED
    BY <1>3, <2>1 DEF SelectItem, SharerInv
<1>4. CASE ReadRun
  <2>1. /\ reader = "sharer" /\ at = "run" /\ at' = "summary" /\ UNCHANGED <<reader, of, events, runStatus>>
        /\ item' = [item EXCEPT !.status = runStatus[of]]
    BY <1>4, ReadKeeps DEF ReadRun
  <2>2. of \in Turns /\ runStatus[of] \in Statuses /\ (runStatus[of] = "completed" => Decided(of))
    BY <2>1 DEF SharerInv, LogInv
  <2>3. item' \in Items /\ item'.status = runStatus[of]
    BY <1>0, <2>1, <2>2 DEF Items
  <2>4. Decided(of) => Decided(of)'
    BY <2>1 DEF Decided
  <2> QED
    BY <2>1, <2>2, <2>3, <2>4 DEF SharerInv
<1>5. CASE ReadSummary
  <2>1. /\ reader = "sharer" /\ at = "summary" /\ at' = "count"
        /\ UNCHANGED <<reader, of, events, runStatus>>
    BY <1>5, ReadKeeps DEF ReadSummary
  <2>2. item' \in Items /\ item'.status = item.status
    <3>1. (of \in summaries) \in BOOLEAN
      OBVIOUS
    <3>2. item' = [item EXCEPT !.summary = of \in summaries]
      BY <1>5, Zenon DEF ReadSummary, Read
    <3> DEFINE b == of \in summaries
    <3>3. b \in BOOLEAN /\ item' = [item EXCEPT !.summary = b]
      BY <3>1, <3>2, Zenon
    <3> HIDE DEF b
    <3> QED
      BY <1>0, <3>3, SummaryRead
  <2>3. Decided(of) => Decided(of)'
    BY <2>1 DEF Decided
  <2> QED
    BY <2>1, <2>2, <2>3 DEF SharerInv
<1>6. CASE CountEvents
  <2>1. /\ reader = "sharer" /\ at = "count" /\ at' = "events"
        /\ UNCHANGED <<reader, of, events, runStatus>>
        /\ item' = [item EXCEPT !.count = Len(events[of])]
    BY <1>6, ReadKeeps DEF CountEvents
  <2>2. of \in Turns /\ events[of] \in Seq(EventTypes)
    BY <2>1 DEF SharerInv, LogInv
  <2>3. item' \in Items /\ item'.status = item.status /\ item'.count = Len(events[of])
    BY <1>0, <2>1, <2>2 DEF Items
  <2>4. Decided(of) => Decided(of)'
    BY <2>1 DEF Decided
  <2>5. Decided(of) => \E k \in Nat : k <= item'.count /\ Decision(of, k)'
    BY <2>1, <2>2, <2>3 DEF Decided, Decision
  <2> QED
    BY <2>1, <2>2, <2>3, <2>4, <2>5 DEF SharerInv
<1>7. CASE SnapshotEvents
  <2>1. /\ reader = "sharer" /\ at = "events" /\ at' = "done"
        /\ UNCHANGED <<reader, of, events, runStatus>>
        /\ item' = [item EXCEPT !.events = Rows]
    BY <1>7, ReadKeeps DEF SnapshotEvents
  <2>2. of \in Turns /\ events[of] \in Seq(EventTypes)
    BY <2>1 DEF SharerInv, LogInv
  <2>3. Rows \subseteq Turns \X Nat
    BY DEF Rows, LogInv
  <2>4. item' \in Items /\ item'.status = item.status /\ item'.events = Rows
    BY <1>0, <2>1, <2>3 DEF Items
  <2>5. Decided(of) => Decided(of)'
    BY <2>1 DEF Decided
  <2>6. Decided(of) => WholeIn(of, Rows)'
    BY <2>1, <2>2 DEF Decided, WholeIn, Rows
  <2>7. Rows' = Rows
    BY <2>1 DEF Rows
  <2> QED
    BY <2>1, <2>2, <2>4, <2>5, <2>6, <2>7 DEF SharerInv
<1> QED
  BY <1>1, <1>2, <1>3, <1>4, <1>5, <1>6, <1>7, HandlerSteps

\* A timeline item shown as completed counts, and its snapshot has, the events its
\* status rests on.
THEOREM CompletedItemsHaveEvents == Spec => []CompletedItemHasEvents
<1>1. LogInv /\ SharerInv => CompletedItemHasEvents
  <2> SUFFICES ASSUME LogInv, SharerInv, item.status = "completed", at = "events"
               PROVE  WholeIn(of, {<<of, k>> : k \in 1..item.count})
    BY DEF CompletedItemHasEvents, SharerInv
  <2>1. of \in Turns /\ events[of] \in Seq(EventTypes) /\ item.count \in Nat
    BY DEF SharerInv, LogInv, Items
  <2>2. PICK k \in Nat : k <= item.count /\ Decision(of, k)
    BY DEF SharerInv
  <2> QED
    BY <2>1, <2>2 DEF WholeIn, Decision
<1> QED
  BY LogInit, LogStep, ClientInit, ClientStep, ReaderTypesStep, SharerInit, SharerStep, <1>1,
     PTL DEF Spec

---------------------------------------------------------------------------
(* The order of the messages *)

\* A message is committed once, and after its transaction began.
MessageInv ==
    /\ store \in {"database", "memory"}
    /\ clock \in 1..MaxTime
    /\ created \in [Turns -> 0..MaxTime]
    /\ messages \in Seq(Turns)
    /\ \A i, j \in DOMAIN messages : messages[i] = messages[j] => i = j
    /\ \A r \in Committed : created[r] > 0

\* What is committed stays, in its order.
Keeps ==
    /\ Committed \subseteq Committed'
    /\ UNCHANGED store
    /\ \A q, r \in Committed : Older(q, r)' <=> Older(q, r)

LEMMA Numbers == Turns \subseteq Nat \ {0} /\ MaxTime \in Nat \ {0} /\ PageSize \in Nat \ {0}
BY ConstantsAssumption

LEMMA NumbersOf ==
  ASSUME MessageInv, NEW i \in DOMAIN messages
  PROVE  messages[i] \in Turns /\ messages[i] \in Nat \ {0} /\ created[messages[i]] \in Nat
<1>1. messages[i] \in Turns
  BY DEF MessageInv
<1>2. created[messages[i]] \in 0..MaxTime
  BY <1>1 DEF MessageInv
<1>3. 0..MaxTime \subseteq Nat
  OBVIOUS
<1> QED
  BY <1>1, <1>2, <1>3, Numbers

LEMMA PlaceOf ==
  ASSUME MessageInv, NEW i \in DOMAIN messages
  PROVE  Position(messages[i]) = i
BY DEF Position, MessageInv

\* Both keys of the cursor order the messages totally.
LEMMA OlderIsTotal ==
  ASSUME MessageInv, NEW q \in Committed, NEW r \in Committed
  PROVE  /\ ~Older(q, q)
         /\ Older(q, r) => ~Older(r, q)
         /\ q = r \/ Older(q, r) \/ Older(r, q)
<1>1. PICK i \in DOMAIN messages : messages[i] = q
  BY DEF Committed
<1>2. PICK j \in DOMAIN messages : messages[j] = r
  BY DEF Committed
<1>3. Position(q) = i /\ Position(r) = j /\ i \in Nat /\ j \in Nat
  BY <1>1, <1>2, PlaceOf DEF MessageInv
<1>4. q \in Nat /\ r \in Nat /\ created[q] \in Nat /\ created[r] \in Nat
  BY <1>1, <1>2, NumbersOf
<1>5. CASE store = "memory"
  BY <1>1, <1>2, <1>3, <1>5 DEF Older
<1>6. CASE store # "memory"
  BY <1>4, <1>6 DEF Older
<1> QED
  BY <1>5, <1>6

LEMMA OlderIsTransitive ==
  ASSUME MessageInv, NEW q \in Committed, NEW r \in Committed, NEW s \in Committed,
         Older(q, r), Older(r, s)
  PROVE  Older(q, s)
<1>1. PICK i \in DOMAIN messages : messages[i] = q
  BY DEF Committed
<1>2. PICK j \in DOMAIN messages : messages[j] = r
  BY DEF Committed
<1>3. PICK k \in DOMAIN messages : messages[k] = s
  BY DEF Committed
<1>4. /\ Position(q) = i /\ Position(r) = j /\ Position(s) = k
      /\ i \in Nat /\ j \in Nat /\ k \in Nat
  BY <1>1, <1>2, <1>3, PlaceOf DEF MessageInv
<1>5. /\ q \in Nat /\ r \in Nat /\ s \in Nat
      /\ created[q] \in Nat /\ created[r] \in Nat /\ created[s] \in Nat
  BY <1>1, <1>2, <1>3, NumbersOf
<1>6. CASE store = "memory"
  BY <1>4, <1>6 DEF Older
<1>7. CASE store # "memory"
  BY <1>5, <1>7 DEF Older
<1> QED
  BY <1>6, <1>7

LEMMA CommittedIsFinite ==
  ASSUME MessageInv
  PROVE  Committed \subseteq Turns /\ IsFiniteSet(Committed)
<1>1. Committed \subseteq Turns
  BY DEF Committed, MessageInv
<1> QED
  BY <1>1, FS_Subset, ConstantsAssumption

LEMMA MessageInit == Init => MessageInv
BY ConstantsAssumption DEF Init, MessageInv, Committed

LEMMA MessagesKept ==
  ASSUME MessageInv, UNCHANGED <<store, messages>>,
         \A r \in Committed : created'[r] = created[r]
  PROVE  Keeps
<1>1. Committed' = Committed
  BY DEF Committed
<1>2. \A r : Position(r)' = Position(r)
  BY DEF Position
<1> QED
  BY <1>1, <1>2 DEF Keeps, Older

LEMMA CommitKeeps ==
  ASSUME MessageInv, NEW r \in Turns, CommitMessage(r)
  PROVE  MessageInv' /\ Keeps
<1>1. /\ messages' = Append(messages, r) /\ r \notin Committed /\ created[r] # 0
      /\ UNCHANGED <<store, clock, created>>
  BY DEF CommitMessage
<1>2. /\ messages' \in Seq(Turns)
      /\ DOMAIN messages = 1..Len(messages) /\ Len(messages) \in Nat
      /\ DOMAIN messages' = 1..(Len(messages) + 1)
      /\ \A i \in DOMAIN messages : messages'[i] = messages[i]
      /\ messages'[Len(messages) + 1] = r
  BY <1>1 DEF MessageInv
<1>3. Committed' = Committed \cup {r}
  BY <1>2 DEF Committed
<1>4. \A i, j \in DOMAIN messages' : messages'[i] = messages'[j] => i = j
  <2> SUFFICES ASSUME NEW i \in DOMAIN messages', NEW j \in DOMAIN messages',
                      messages'[i] = messages'[j]
               PROVE  i = j
    OBVIOUS
  <2>1. CASE i \in DOMAIN messages /\ j \in DOMAIN messages
    BY <1>2, <2>1 DEF MessageInv
  <2>2. CASE i \in DOMAIN messages /\ j = Len(messages) + 1
    BY <1>1, <1>2, <2>2 DEF Committed
  <2>3. CASE j \in DOMAIN messages /\ i = Len(messages) + 1
    BY <1>1, <1>2, <2>3 DEF Committed
  <2> QED
    BY <1>2, <2>1, <2>2, <2>3
<1>5. MessageInv'
  BY <1>1, <1>2, <1>3, <1>4 DEF MessageInv
<1>6. \A q \in Committed : Position(q)' = Position(q)
  <2>1. TAKE q \in Committed
  <2>2. PICK i \in DOMAIN messages : messages[i] = q
    BY DEF Committed
  <2>3. Position(q) = i
    BY <2>2, PlaceOf
  <2>4. messages'[i] = q /\ i \in DOMAIN messages'
    BY <1>2, <2>2
  <2>5. (CHOOSE j \in DOMAIN messages' : messages'[j] = q) = i
    BY <1>4, <2>4
  <2> QED
    BY <2>3, <2>5 DEF Position
<1> QED
  BY <1>1, <1>3, <1>5, <1>6 DEF Keeps, Older

LEMMA MessageStep == MessageInv /\ [Next]_vars => MessageInv' /\ Keeps
<1> SUFFICES ASSUME MessageInv, [Next]_vars PROVE MessageInv' /\ Keeps
  OBVIOUS
<1>1. ASSUME UNCHANGED <<store, messages, created>>, clock' \in 1..MaxTime
      PROVE  MessageInv' /\ Keeps
  <2>1. Committed' = Committed
    BY <1>1 DEF Committed
  <2>2. Keeps
    BY <1>1, MessagesKept
  <2> QED
    BY <1>1, <2>1, <2>2 DEF MessageInv
<1>2. CASE Tick
  BY <1>1, <1>2, ConstantsAssumption DEF Tick, MessageInv
<1>3. ASSUME NEW r \in Turns, BeginMessage(r) PROVE MessageInv' /\ Keeps
  <2>1. /\ created[r] = 0 /\ created' = [created EXCEPT ![r] = clock]
        /\ UNCHANGED <<store, clock, messages>>
    BY <1>3 DEF BeginMessage
  <2>2. r \notin Committed
    BY <2>1 DEF MessageInv
  <2>3. Committed' = Committed
    BY <2>1 DEF Committed
  <2>4. created' \in [Turns -> 0..MaxTime] /\ \A q \in Committed : created'[q] = created[q]
    BY <2>1, <2>2, CommittedIsFinite DEF MessageInv
  <2>5. Keeps
    BY <2>1, <2>4, MessagesKept
  <2> QED
    BY <2>1, <2>3, <2>4, <2>5 DEF MessageInv
<1>4. ASSUME NEW r \in Turns, CommitMessage(r) PROVE MessageInv' /\ Keeps
  BY <1>4, CommitKeeps
<1>5. ASSUME NEW r \in Turns, \/ StartRun(r) \/ AppendEvent(r) \/ CancelRun(r) \/ CompleteRun(r)
                              \/ SaveSummary(r) \/ AppendExport(r) \/ Reconnect(r) \/ SelectItem(r)
      PROVE  MessageInv' /\ Keeps
  <2>1. UNCHANGED <<store, clock, created, messages>>
    BY <1>5 DEF StartRun, AppendEvent, CancelRun, CompleteRun, SaveSummary, AppendExport,
       Reconnect, SelectItem, storeVars
  <2> QED
    BY <1>1, <2>1 DEF MessageInv
<1>6. ASSUME \/ ReadStatus \/ ReplayRun \/ ListSessionEvents \/ ListPage
             \/ ReadRun \/ ReadSummary \/ CountEvents \/ SnapshotEvents \/ UNCHANGED vars
      PROVE  MessageInv' /\ Keeps
  <2>1. UNCHANGED <<store, clock, created, messages>>
    BY <1>6 DEF ReadStatus, ReplayRun, ListSessionEvents, ListPage, ReadRun, ReadSummary,
       CountEvents, SnapshotEvents, Read, storeVars, vars
  <2> QED
    BY <1>1, <2>1 DEF MessageInv
<1> QED
  BY <1>2, <1>3, <1>4, <1>5, <1>6 DEF Next, Write

---------------------------------------------------------------------------
(* A page, newest first *)

\* An injection between finite sets of one size leaves nothing out.
LEMMA InjectionIsOnto ==
  ASSUME NEW S, NEW T, IsFiniteSet(T), NEW f \in [S -> T],
         \A a, b \in S : f[a] = f[b] => a = b,
         Cardinality(S) = Cardinality(T)
  PROVE  \A y \in T : \E x \in S : f[x] = y
<1>1. f \in Injection(S, T)
  BY Fun_IsInj
<1>2. f \in Surjection(S, T)
  BY <1>1, FS_Injection
<1> QED
  BY <1>2, Fun_SurjectionProperties

LEMMA CountTo ==
  ASSUME NEW n \in Nat
  PROVE  IsFiniteSet(1..n) /\ Cardinality(1..n) = n
BY FS_Interval

Newer(S, r) == {q \in S : Older(r, q)}
Rank(S, r) == Cardinality(Newer(S, r))

\* Of two messages the older has more that are newer.
LEMMA RankOfOlder ==
  ASSUME MessageInv, NEW S \in SUBSET Committed, NEW q \in S, NEW r \in S
  PROVE  /\ Rank(S, q) \in Nat
         /\ Rank(S, q) < Cardinality(S)
         /\ Older(q, r) <=> Rank(S, r) < Rank(S, q)
         /\ Rank(S, q) = Rank(S, r) => q = r
<1>1. IsFiniteSet(S) /\ Cardinality(S) \in Nat
  BY CommittedIsFinite, FS_Subset, FS_CardinalityType
<1>2. ASSUME NEW x \in S
      PROVE  /\ IsFiniteSet(Newer(S, x)) /\ Rank(S, x) \in Nat /\ x \notin Newer(S, x)
             /\ Rank(S, x) < Cardinality(S)
  <2>1. x \notin Newer(S, x) /\ Newer(S, x) \in SUBSET S
    BY OlderIsTotal DEF Newer
  <2>2. IsFiniteSet(Newer(S, x)) /\ Rank(S, x) \in Nat
    BY <1>1, <2>1, FS_Subset, FS_CardinalityType DEF Rank
  <2>3. Rank(S, x) <= Cardinality(S) /\ Rank(S, x) # Cardinality(S)
    BY <1>1, <2>1, FS_Subset DEF Rank
  <2> QED
    BY <1>1, <2>1, <2>2, <2>3
<1>3. ASSUME NEW x \in S, NEW y \in S, Older(x, y) PROVE Rank(S, y) < Rank(S, x)
  <2>1. Newer(S, y) \in SUBSET Newer(S, x)
    BY <1>3, OlderIsTransitive DEF Newer
  <2>2. y \in Newer(S, x) /\ y \notin Newer(S, y)
    BY <1>2, <1>3 DEF Newer
  <2>3. Rank(S, y) <= Rank(S, x) /\ Rank(S, y) # Rank(S, x)
    BY <1>2, <2>1, <2>2, FS_Subset DEF Rank
  <2> QED
    BY <1>2, <2>3
<1> QED
  BY <1>2, <1>3, OlderIsTotal

Sorted(s) == \A i, j \in DOMAIN s : i < j => Older(s[j], s[i])

\* A sorted sequence of all messages of a set names each of them.
LEMMA SortedIsOnto ==
  ASSUME MessageInv, NEW S \in SUBSET Committed,
         NEW s \in [1..Cardinality(S) -> S], Sorted(s)
  PROVE  \A r \in S : \E i \in 1..Cardinality(S) : s[i] = r
<1>1. IsFiniteSet(S) /\ Cardinality(S) \in Nat
  BY CommittedIsFinite, FS_Subset, FS_CardinalityType
<1>2. \A i, j \in 1..Cardinality(S) : s[i] = s[j] => i = j
  <2> SUFFICES ASSUME NEW i \in 1..Cardinality(S), NEW j \in 1..Cardinality(S), s[i] = s[j], i < j
               PROVE  FALSE
    BY <1>1
  <2>1. Older(s[j], s[i]) /\ s[i] \in Committed /\ s[j] \in Committed
    BY DEF Sorted
  <2> QED
    BY <2>1, OlderIsTotal
<1>3. Cardinality(1..Cardinality(S)) = Cardinality(S)
  BY <1>1, CountTo
<1> QED
  BY <1>1, <1>2, <1>3, InjectionIsOnto

\* The page can be put in order: what NewestFirst chooses exists.
LEMMA NewestFirstIsSorted ==
  ASSUME MessageInv, NEW S \in SUBSET Committed
  PROVE  /\ NewestFirst(S) \in [1..Cardinality(S) -> S]
         /\ Sorted(NewestFirst(S))
<1> DEFINE n == Cardinality(S)
<1> DEFINE place == [r \in S |-> Rank(S, r) + 1]
<1>1. IsFiniteSet(S) /\ n \in Nat /\ IsFiniteSet(1..n) /\ Cardinality(1..n) = n
  BY CommittedIsFinite, FS_Subset, FS_CardinalityType, CountTo
<1>2. place \in [S -> 1..n]
  <2>1. \A r \in S : Rank(S, r) \in Nat /\ Rank(S, r) < n
    BY RankOfOlder
  <2> QED
    BY <1>1, <2>1
<1>3. \A q, r \in S : place[q] = place[r] => q = r
  <2>1. \A q, r \in S : /\ Rank(S, q) \in Nat /\ Rank(S, r) \in Nat
                        /\ Rank(S, q) = Rank(S, r) => q = r
    BY RankOfOlder
  <2> QED
    BY <2>1
<1>4. \A i \in 1..n : \E r \in S : place[r] = i
  <2> DEFINE T == 1..n
  <2>1. place \in [S -> T] /\ IsFiniteSet(T) /\ Cardinality(S) = Cardinality(T)
    BY <1>1, <1>2
  <2> HIDE DEF place, T
  <2>2. \A i \in T : \E r \in S : place[r] = i
    BY <1>3, <2>1, InjectionIsOnto
  <2> QED
    BY <2>2 DEF T
<1> DEFINE s == [i \in 1..n |-> CHOOSE r \in S : place[r] = i]
<1>5. \A i \in 1..n : s[i] \in S /\ place[s[i]] = i
  BY <1>4
<1>6. s \in [1..n -> S]
  BY <1>5
<1>7. \A i, j \in DOMAIN s : i < j => Older(s[j], s[i])
  <2> SUFFICES ASSUME NEW i \in 1..n, NEW j \in 1..n, i < j PROVE Older(s[j], s[i])
    BY <1>6
  <2>1. Rank(S, s[i]) + 1 = i /\ Rank(S, s[j]) + 1 = j /\ s[i] \in S /\ s[j] \in S
    BY <1>5
  <2>2. Rank(S, s[i]) \in Nat /\ Rank(S, s[j]) \in Nat
    BY <2>1, RankOfOlder
  <2>3. Rank(S, s[i]) < Rank(S, s[j])
    BY <2>1, <2>2
  <2> HIDE DEF s
  <2> QED
    BY <2>1, <2>3, RankOfOlder
<1>8. \E t \in [1..n -> S] : \A i, j \in DOMAIN t : i < j => Older(t[j], t[i])
  BY <1>6, <1>7
<1> HIDE DEF s, place
<1> QED
  BY <1>8 DEF NewestFirst, Sorted

LEMMA OldestIsLast ==
  ASSUME MessageInv, NEW S \in SUBSET Committed, S # {}
  PROVE  /\ Oldest(S) \in S
         /\ \A q \in S : q = Oldest(S) \/ Older(Oldest(S), q)
<1> DEFINE n == Cardinality(S)
<1>1. IsFiniteSet(S) /\ n \in Nat /\ n # 0
  BY CommittedIsFinite, FS_Subset, FS_CardinalityType, FS_EmptySet
<1>2. PICK s \in [1..n -> S] : Sorted(s)
  BY NewestFirstIsSorted
<1>3. \A q \in S \ {s[n]} : Older(s[n], q)
  <2> SUFFICES ASSUME NEW q \in S, q # s[n] PROVE Older(s[n], q)
    OBVIOUS
  <2>1. PICK i \in 1..n : s[i] = q
    BY <1>2, SortedIsOnto
  <2> QED
    BY <1>1, <1>2, <2>1 DEF Sorted
<1>4. \E r \in S : \A q \in S \ {r} : Older(r, q)
  BY <1>1, <1>3
<1> QED
  BY <1>4 DEF Oldest

LEMMA PageIsNewest ==
  ASSUME MessageInv
  PROVE  /\ BeforeCursor \subseteq Committed /\ Page \subseteq BeforeCursor
         /\ \A r \in BeforeCursor \ Page : \A q \in Page : Older(r, q)
         /\ ~HasMoreBefore => Page = BeforeCursor
<1>1. BeforeCursor \subseteq Committed /\ Page \subseteq BeforeCursor
  BY DEF BeforeCursor, Page
<1>2. \A r \in BeforeCursor : r \in Page <=> Rank(BeforeCursor, r) < PageSize
  BY DEF Page, Rank, Newer
<1>3. BeforeCursor \in SUBSET Committed
  BY <1>1
<1>4. Cardinality(BeforeCursor) \in Nat /\ PageSize \in Nat
  BY <1>3, CommittedIsFinite, FS_Subset, FS_CardinalityType, Numbers
<1>5. ASSUME NEW r \in BeforeCursor \ Page, NEW q \in Page PROVE Older(r, q)
  <2>1. Rank(BeforeCursor, r) \in Nat /\ Rank(BeforeCursor, q) \in Nat
    BY <1>1, <1>3, RankOfOlder
  <2>2. Rank(BeforeCursor, q) < PageSize /\ ~(Rank(BeforeCursor, r) < PageSize)
    BY <1>1, <1>2
  <2>3. Rank(BeforeCursor, q) < Rank(BeforeCursor, r)
    BY <1>4, <2>1, <2>2
  <2> QED
    BY <1>1, <1>3, <2>3, RankOfOlder
<1>6. ASSUME ~HasMoreBefore, NEW r \in BeforeCursor PROVE r \in Page
  <2>1. Rank(BeforeCursor, r) \in Nat /\ Rank(BeforeCursor, r) < Cardinality(BeforeCursor)
    BY <1>3, RankOfOlder
  <2> QED
    BY <1>2, <1>4, <1>6, <2>1 DEF HasMoreBefore
<1> QED
  BY <1>1, <1>5, <1>6

---------------------------------------------------------------------------
(* The pages *)

Shown == {pages[i] : i \in DOMAIN pages}

\* What a pager was shown is sorted and ends with the cursor; what it may still
\* miss is older, and nothing is missing when it is done.
PagerInv ==
    /\ pages \in Seq(Turns)
    /\ Shown \subseteq Committed
    /\ missable \subseteq Committed
    /\ \A i, j \in DOMAIN pages : i < j => Older(pages[j], pages[i])
    /\ cursor = 0 => pages = <<>>
    /\ cursor # 0 => cursor \in Shown /\ \A r \in Shown : r = cursor \/ Older(cursor, r)
    /\ reader = "pager" /\ at = "start" => cursor = 0
    /\ \A r \in missable : cursor # 0 /\ (r \in Shown \/ Older(r, cursor))
    /\ reader = "pager" /\ at = "done" => missable \subseteq Shown

LEMMA PagerInit == Init => PagerInv
BY DEF Init, PagerInv, Shown

\* A message committed meanwhile disturbs no page.
LEMMA PagerStays ==
  ASSUME PagerInv, Keeps, UNCHANGED pagerVars,
         reader' = "pager" => UNCHANGED <<reader, at>>
  PROVE  PagerInv'
<1>1. Shown' = Shown /\ UNCHANGED <<cursor, pages, missable>>
  BY DEF Shown, pagerVars
<1>2. \A i \in DOMAIN pages : pages[i] \in Shown
  BY DEF Shown
<1>3. \A i, j \in DOMAIN pages : i < j => Older(pages[j], pages[i])'
  BY <1>1, <1>2 DEF PagerInv, Keeps
<1>4. cursor # 0 => cursor \in Shown /\ \A r \in Shown : r = cursor \/ Older(cursor, r)'
  BY <1>1 DEF PagerInv, Keeps
<1>5. \A r \in missable : cursor # 0 /\ (r \in Shown \/ Older(r, cursor)')
  BY <1>1, <1>4 DEF PagerInv, Keeps
<1> QED
  BY <1>1, <1>3, <1>4, <1>5 DEF PagerInv, Keeps

LEMMA ListPageStep ==
  ASSUME MessageInv, PagerInv, ListPage
  PROVE  PagerInv'
<1> DEFINE page == NewestFirst(Page)
<1> DEFINE n == Cardinality(Page)
<1> DEFINE len == Len(pages)
<1>1. /\ reader = "pager" /\ at \in {"start", "more"} /\ Page # {}
      /\ pages' = pages \o page /\ cursor' = Oldest(Page)
      /\ missable' = (IF at = "start" THEN Committed ELSE missable)
      /\ at' = (IF HasMoreBefore THEN "more" ELSE "done")
      /\ UNCHANGED <<store, created, messages, reader>>
  BY DEF ListPage, storeVars
<1>2. Page \in SUBSET Committed /\ Committed \subseteq Turns /\ IsFiniteSet(Page) /\ n \in Nat
  BY PageIsNewest, CommittedIsFinite, FS_Subset, FS_CardinalityType
<1>3. page \in [1..n -> Page] /\ Sorted(page) /\ \A r \in Page : \E i \in 1..n : page[i] = r
  BY <1>2, NewestFirstIsSorted, SortedIsOnto
<1>4. cursor' \in Page /\ \A q \in Page : q = cursor' \/ Older(cursor', q)
  BY <1>1, <1>2, OldestIsLast
<1>5. /\ Committed' = Committed
      /\ \A q, r : Older(q, r)' <=> Older(q, r)
  BY <1>1 DEF Committed, Older, Position
<1>6. /\ pages' \in Seq(Turns) /\ len \in Nat
      /\ DOMAIN pages = 1..len /\ DOMAIN pages' = 1..(len + n)
      /\ \A i \in 1..len : pages'[i] = pages[i]
      /\ \A i \in 1..n : pages'[len + i] = page[i]
  <2>1. page \in Seq(Turns) /\ Len(page) = n
    BY <1>2, <1>3
  <2> HIDE DEF page, n
  <2> QED
    BY <1>1, <2>1 DEF PagerInv
<1>7. Shown' = Shown \cup Page
  <2>1. Shown' \subseteq Shown \cup Page
    <3> SUFFICES ASSUME NEW i \in 1..(len + n) PROVE pages'[i] \in Shown \cup Page
      BY <1>6 DEF Shown
    <3>1. CASE i \in 1..len
      BY <1>6, <3>1 DEF Shown
    <3>2. CASE i \notin 1..len
      <4>1. i - len \in 1..n /\ len + (i - len) = i
        BY <1>2, <1>6, <3>2
      <4> QED
        BY <1>3, <1>6, <4>1
    <3> QED
      BY <3>1, <3>2
  <2>2. Shown \subseteq Shown'
    BY <1>2, <1>6 DEF Shown
  <2>3. Page \subseteq Shown'
    <3> SUFFICES ASSUME NEW r \in Page PROVE r \in Shown'
      OBVIOUS
    <3>1. PICK i \in 1..n : page[i] = r
      BY <1>3
    <3>2. len + i \in 1..(len + n) /\ pages'[len + i] = r
      BY <1>2, <1>6, <3>1
    <3> QED
      BY <1>6, <3>2 DEF Shown
  <2> QED
    BY <2>1, <2>2, <2>3
<1>8. ASSUME NEW r \in Shown, NEW q \in Page PROVE Older(q, r)
  <2>1. cursor # 0 /\ cursor \in Committed /\ r \in Committed /\ q \in Committed
    BY <1>2, <1>6 DEF PagerInv, Shown
  <2>2. Older(q, cursor)
    BY <2>1, PageIsNewest DEF BeforeCursor
  <2>3. r = cursor \/ Older(cursor, r)
    BY <2>1 DEF PagerInv
  <2> QED
    BY <2>1, <2>2, <2>3, OlderIsTransitive
<1>9. ASSUME NEW i \in DOMAIN pages', NEW j \in DOMAIN pages', i < j
      PROVE  Older(pages'[j], pages'[i])
  <2>1. i \in Int /\ j \in Int
    BY <1>6
  <2>2. CASE j <= len
    BY <1>6, <1>9, <2>1, <2>2 DEF PagerInv
  <2>3. CASE i > len
    <3>1. /\ i - len \in 1..n /\ j - len \in 1..n /\ i - len < j - len
          /\ len + (i - len) = i /\ len + (j - len) = j
      BY <1>2, <1>6, <1>9, <2>1, <2>3
    <3>2. pages'[i] = page[i - len] /\ pages'[j] = page[j - len]
      BY <1>6, <3>1
    <3> HIDE DEF page, n
    <3> QED
      BY <1>3, <3>1, <3>2 DEF Sorted
  <2>4. CASE i <= len /\ j > len
    <3>1. j - len \in 1..n /\ len + (j - len) = j /\ i \in 1..len
      BY <1>2, <1>6, <2>1, <2>4
    <3>2. pages'[j] \in Page /\ pages'[i] \in Shown
      BY <1>3, <1>6, <3>1 DEF Shown
    <3> QED
      BY <1>8, <3>2
  <2> QED
    BY <1>6, <2>1, <2>2, <2>3, <2>4
<1>10. cursor' # 0 /\ cursor' \in Shown' /\ \A r \in Shown' : r = cursor' \/ Older(cursor', r)
  BY <1>2, <1>4, <1>7, <1>8, Numbers
<1>11. ASSUME NEW r \in missable'
       PROVE  /\ r \in Committed
              /\ r \in Shown' \/ (r \in BeforeCursor /\ r \notin Page /\ Older(r, cursor'))
  <2>1. r \in Committed /\ (r \in Shown \/ r \in BeforeCursor)
    BY <1>1, <1>11 DEF PagerInv, BeforeCursor
  <2> QED
    BY <1>4, <1>7, <2>1, PageIsNewest
<1>12. at' = "done" => missable' \subseteq Shown'
  BY <1>1, <1>11, PageIsNewest
<1>13. (\A i, j \in DOMAIN pages : i < j => Older(pages[j], pages[i]))'
  <2>1. UNCHANGED <<store, created, messages>>
    BY <1>1
  <2> QED
    BY <1>9, <2>1 DEF Older, Position
<1>14. (\A r \in Shown : r = cursor \/ Older(cursor, r))'
  BY <1>1, <1>10 DEF Older, Position
<1>15. (\A r \in missable : r \in Shown \/ Older(r, cursor))'
  BY <1>1, <1>11 DEF Older, Position
<1>16. Shown' \subseteq Committed' /\ missable' \subseteq Committed'
  BY <1>2, <1>5, <1>7, <1>11 DEF PagerInv
<1>17. at' \in {"more", "done"}
  BY <1>1
<1> QED
  BY <1>6, <1>10, <1>12, <1>13, <1>14, <1>15, <1>16, <1>17 DEF PagerInv

LEMMA PagerStep ==
  MessageInv /\ ReaderTypes /\ ClientInv /\ PagerInv /\ Keeps /\ [Next]_vars => PagerInv'
<1> SUFFICES ASSUME MessageInv, ReaderTypes, ClientInv, PagerInv, Keeps, [Next]_vars
             PROVE  PagerInv'
  OBVIOUS
<1>1. CASE UNCHANGED readerVars
  BY <1>1, PagerStays DEF readerVars
<1>2. CASE \/ \E r \in Turns : Reconnect(r) \/ SelectItem(r)
           \/ ReadStatus \/ ReplayRun \/ ListSessionEvents
           \/ ReadRun \/ ReadSummary \/ CountEvents \/ SnapshotEvents
  <2>1. UNCHANGED pagerVars /\ reader' = reader
    BY <1>2 DEF Reconnect, SelectItem, ReadStatus, ReplayRun, ListSessionEvents, ReadRun,
       ReadSummary, CountEvents, SnapshotEvents, Read
  <2>2. reader # "pager"
    BY <1>2 DEF Reconnect, SelectItem, ReadStatus, ReplayRun, ListSessionEvents, ReadRun,
       ReadSummary, CountEvents, SnapshotEvents, Read, ReaderTypes
  <2> QED
    BY <2>1, <2>2, PagerStays
<1>3. CASE ListPage
  BY <1>3, ListPageStep
<1> QED
  BY <1>1, <1>2, <1>3, HandlerSteps

\* Following the cursors shows every message there was at the first page, none
\* twice and none out of order, whatever is committed meanwhile.
THEOREM PagesShowEachTurnOnce == Spec => []PagingShowsEachTurnOnce
<1>1. MessageInv /\ PagerInv => PagingShowsEachTurnOnce
  <2> SUFFICES ASSUME MessageInv, PagerInv PROVE PagingShowsEachTurnOnce
    OBVIOUS
  <2>1. ASSUME NEW i \in DOMAIN pages, NEW j \in DOMAIN pages, i < j
        PROVE  /\ pages[i] # pages[j]
               /\ store = "database" => created[pages[j]] <= created[pages[i]]
    <3>1. pages[i] \in Committed /\ pages[j] \in Committed /\ Older(pages[j], pages[i])
      BY <2>1 DEF PagerInv, Shown
    <3>2. pages[i] # pages[j]
      BY <3>1, OlderIsTotal
    <3>3. created[pages[i]] \in Nat /\ created[pages[j]] \in Nat
      BY <3>1, NumbersOf DEF Committed
    <3>4. store = "database" => \/ created[pages[j]] < created[pages[i]]
                                \/ created[pages[j]] = created[pages[i]]
      BY <3>1 DEF Older
    <3> QED
      BY <3>2, <3>3, <3>4
  <2>2. ASSUME reader = "pager", at = "done", NEW r \in missable
        PROVE  \E i \in DOMAIN pages : pages[i] = r
    BY <2>2 DEF PagerInv, Shown
  <2> QED
    BY <2>1, <2>2 DEF PagingShowsEachTurnOnce
<1> QED
  BY LogInit, LogStep, ClientInit, ClientStep, ReaderTypesStep, MessageInit, MessageStep,
     PagerInit, PagerStep, <1>1, PTL DEF Spec

---------------------------------------------------------------------------
(* Types *)

\* A summary is of a run that has ended, what a reader has are rows of the log.
RowsInv ==
    /\ summaries \subseteq {r \in Turns : runStatus[r] \in {"completed", "cancelled"}}
    /\ seenStatus \in Statuses
    /\ got \subseteq Rows
    /\ item.events \subseteq Rows

LEMMA RowsGrow == ASSUME LogInv, LogInv', Grow PROVE Rows \subseteq Rows'
<1> SUFFICES ASSUME NEW r \in Turns, NEW k \in DOMAIN events[r] PROVE <<r, k>> \in Rows'
  BY DEF Rows
<1>1. k \in DOMAIN events'[r]
  BY DEF LogInv, Grow
<1> QED
  BY <1>1 DEF Rows

LEMMA RowsInit == Init => RowsInv
BY DEF Init, RowsInv, NoItem, Statuses

LEMMA RowsStep ==
  LogInv /\ LogInv' /\ Grow /\ SharerInv /\ RowsInv /\ ClientInv /\ ReaderTypes /\ [Next]_vars
     => RowsInv'
<1> SUFFICES ASSUME LogInv, LogInv', Grow, SharerInv, RowsInv, ClientInv, ReaderTypes, [Next]_vars
             PROVE  RowsInv'
  OBVIOUS
<1>1. Rows \subseteq Rows'
  BY RowsGrow
<1>2. (summaries \subseteq {r \in Turns : runStatus[r] \in {"completed", "cancelled"}})'
  <2>1. ASSUME NEW r \in Turns, StartRun(r) \/ CancelRun(r) \/ CompleteRun(r)
        PROVE  (summaries \subseteq {q \in Turns : runStatus[q] \in {"completed", "cancelled"}})'
    BY <2>1 DEF StartRun, CancelRun, CompleteRun, RowsInv, LogInv
  <2>2. ASSUME NEW r \in Turns, SaveSummary(r)
        PROVE  (summaries \subseteq {q \in Turns : runStatus[q] \in {"completed", "cancelled"}})'
    BY <2>2 DEF SaveSummary, RowsInv
  <2>3. ASSUME UNCHANGED <<runStatus, summaries>>
        PROVE  (summaries \subseteq {q \in Turns : runStatus[q] \in {"completed", "cancelled"}})'
    BY <2>3 DEF RowsInv
  <2>4. ASSUME NEW r \in Turns, \/ BeginMessage(r) \/ CommitMessage(r) \/ AppendEvent(r)
                                \/ AppendExport(r) \/ Reconnect(r) \/ SelectItem(r)
        PROVE  UNCHANGED <<runStatus, summaries>>
    BY <2>4 DEF BeginMessage, CommitMessage, AppendEvent, AppendExport, Reconnect, SelectItem,
       runsVars
  <2>5. ASSUME \/ Tick \/ ReadStatus \/ ReplayRun \/ ListSessionEvents \/ ListPage
               \/ ReadRun \/ ReadSummary \/ CountEvents \/ SnapshotEvents \/ UNCHANGED vars
        PROVE  UNCHANGED <<runStatus, summaries>>
    BY <2>5 DEF Tick, ReadStatus, ReplayRun, ListSessionEvents, ListPage, ReadRun, ReadSummary,
       CountEvents, SnapshotEvents, Read, vars, runsVars
  <2> QED
    BY <2>1, <2>2, <2>3, <2>4, <2>5 DEF Next, Write
<1>3. ASSUME UNCHANGED <<seenStatus, got, item>> PROVE RowsInv'
  BY <1>1, <1>2, <1>3 DEF RowsInv
<1>4. CASE UNCHANGED readerVars
  BY <1>3, <1>4 DEF readerVars, clientVars
<1>5. ASSUME NEW r \in Turns, Reconnect(r) PROVE RowsInv'
  <2>1. PICK k \in 0..Len(events[r]) : got' = {<<r, seq>> : seq \in 1..k}
    BY <1>5 DEF Reconnect
  <2>2. got' \subseteq Rows
    BY <2>1 DEF Rows, LogInv
  <2> QED
    BY <1>1, <1>2, <1>5, <2>2 DEF Reconnect, RowsInv
<1>6. CASE ReadStatus
  BY <1>1, <1>2, <1>6 DEF ReadStatus, RowsInv, Statuses
<1>7. CASE ReplayRun \/ ListSessionEvents
  <2>1. got' \subseteq Rows /\ UNCHANGED <<seenStatus, item>>
    BY <1>7 DEF ReplayRun, ListSessionEvents, RowsAfter, RowsInv
  <2> QED
    BY <1>1, <1>2, <2>1 DEF RowsInv
<1>8. CASE ListPage \/ \E r \in Turns : SelectItem(r)
  BY <1>3, <1>8 DEF ListPage, SelectItem, clientVars
<1>9. CASE ReadRun \/ ReadSummary \/ CountEvents \/ SnapshotEvents
  <2>1. item'.events \in {item.events, Rows}
    <3>1. item \in Items
      BY DEF SharerInv
    <3> QED
      BY <1>9, <3>1 DEF ReadRun, ReadSummary, CountEvents, SnapshotEvents, Read, Items
  <2>2. UNCHANGED <<seenStatus, got>>
    BY <1>9 DEF ReadRun, ReadSummary, CountEvents, SnapshotEvents, Read, clientVars
  <2> QED
    BY <1>1, <1>2, <2>1, <2>2 DEF RowsInv
<1> QED
  BY <1>4, <1>5, <1>6, <1>7, <1>8, <1>9, HandlerSteps

\* What is stored and what a reader holds has its type: a page is a sequence of
\* messages, an event a reader has is a row of the log.
THEOREM TypeCorrect == Spec => []TypeOK
<1>1. LogInv /\ MessageInv /\ PagerInv /\ SharerInv /\ RowsInv => TypeOK
  BY DEF LogInv, MessageInv, PagerInv, SharerInv, RowsInv, TypeOK, Items, EventTypes
<1> QED
  BY LogInit, LogStep, ClientInit, ClientStep, ReaderTypesStep, SharerInit, SharerStep,
     MessageInit, MessageStep, PagerInit, PagerStep, RowsInit, RowsStep, <1>1, PTL DEF Spec
=============================================================================
