------------------------- MODULE RunLifecycleProofs -------------------------
(***************************************************************************)
(* Theorems about RunLifecycle for every value of its constants.           *)
(***************************************************************************)
EXTENDS RunLifecycle, TLAPS

---------------------------------------------------------------------------
(* Type correctness *)

\* A handler that has passed its reads knows a real run.
TargetsKnown ==
    /\ \A s \in Streams : pc[s] \notin {"idle", "create", "done"} => target[s] \in Runs
    /\ \A c \in Ctls : ctlPc[c] = "flag" => ctlRun[c] \in Runs
    /\ \A c \in Ctls : ctlPc[c] = "apply" /\ ctlKind[c] = "cancel" => ctlRun[c] \in Runs

TypeInv == TypeOK /\ TargetsKnown

LEMMA TypeInvInit == Init => TypeInv
<1> SUFFICES ASSUME Init PROVE TypeOK /\ TargetsKnown
  BY DEF TypeInv
<1>1. TypeOK
  BY DEF Init, TypeOK, RunStatus, SessionStatus, StreamPc, AllKinds, RuntimeEvents
<1>2. TargetsKnown
  BY DEF Init, TargetsKnown
<1> QED
  BY <1>1, <1>2

\* A row that an execution inserts is well formed.
LEMMA RowType ==
  ASSUME NEW r \in Runs, NEW s \in Streams, NEW seq \in Nat,
         NEW type \in RuntimeEvents \cup {"export_created"}, NEW late \in BOOLEAN
  PROVE  [run |-> r, by |-> s, seq |-> seq, type |-> type, late |-> late] \in EventRow
BY DEF EventRow

LEMMA TypeInvStep == TypeInv /\ [Next]_vars => TypeInv'
<1> SUFFICES ASSUME TypeInv, [Next]_vars PROVE TypeInv'
  OBVIOUS
<1> USE ConstantsAssumption
    DEF TypeInv, TypeOK, TargetsKnown, tables, session, redis, streamVars, ctlVars,
        RunStatus, SessionStatus, Terminal, Active, SummaryRow, MessageRow,
        RuntimeEvents, TerminalEvents, StreamPc, TryBlock, OutsideTry, Cleanup,
        AllKinds, Goto
<1>1. ASSUME NEW p \in Posts, CheckNoActiveRun(p) PROVE TypeInv'
  BY <1>1 DEF CheckNoActiveRun
<1>2. ASSUME NEW p \in Posts, SaveUserMessage(p) PROVE TypeInv'
  BY <1>2 DEF SaveUserMessage
<1>3. ASSUME NEW p \in Posts, CreateMessageRun(p) PROVE TypeInv'
  BY <1>3 DEF CreateMessageRun, CreateRunRow
<1>4. ASSUME NEW p \in Posts, PostFails(p) PROVE TypeInv'
  BY <1>4 DEF PostFails
<1>5. ASSUME NEW s \in Streams, NEW r \in Runs, OpenRunStream(s, r) PROVE TypeInv'
  BY <1>5 DEF OpenRunStream
<1>6. ASSUME NEW s \in Streams, OpenSessionStream(s) PROVE TypeInv'
  BY <1>6 DEF OpenSessionStream
<1>7. ASSUME NEW s \in Streams, OpenPostRun(s) PROVE TypeInv'
  BY <1>7 DEF OpenPostRun
<1>8. ASSUME NEW s \in Streams, CreateStreamRun(s) PROVE TypeInv'
  BY <1>8 DEF CreateStreamRun, CreateRunRow
<1>9. ASSUME NEW s \in Streams, StartRun(s) PROVE TypeInv'
  BY <1>9 DEF StartRun, StartRunRow
<1>10. ASSUME NEW s \in Streams, EnterLoop(s) PROVE TypeInv'
  BY <1>10 DEF EnterLoop
<1>11. ASSUME NEW s \in Streams, NextEvent(s) PROVE TypeInv'
  BY <1>11 DEF NextEvent, Offers
<1>12. ASSUME NEW s \in Streams, AppendEvent(s) PROVE TypeInv'
  <2> DEFINE row == [run |-> target[s], by |-> s, seq |-> count[s] + 1, type |-> event[s],
                     late |-> (target[s] \in cancelled)]
  <2>1. /\ target[s] \in Runs
        /\ events \subseteq EventRow
        /\ count[s] + 1 \in Nat
        /\ event[s] \in RuntimeEvents \cup {"export_created"}
        /\ (target[s] \in cancelled) \in BOOLEAN
    BY <1>12 DEF AppendEvent
  <2>2. row \in EventRow
    BY <2>1, RowType
  <2>3. events' = events \cup {row}
    BY <1>12 DEF AppendEvent, Persist, NextOwnSeq
  <2>4. events' \subseteq EventRow
    BY <2>1, <2>2, <2>3
  <2> QED
    BY <1>12, <2>1, <2>4 DEF AppendEvent
<1>13. ASSUME NEW s \in Streams, RememberSeq(s) PROVE TypeInv'
  BY <1>13 DEF RememberSeq
<1>14. ASSUME NEW s \in Streams, LoopEnds(s) PROVE TypeInv'
  BY <1>14 DEF LoopEnds
<1>15. ASSUME NEW s \in Streams, FinishRun(s) PROVE TypeInv'
  BY <1>15 DEF FinishRun, CompleteRunRow, DeriveStatus
<1>16. ASSUME NEW s \in Streams, SaveSummary(s) PROVE TypeInv'
  BY <1>16 DEF SaveSummary
<1>17. ASSUME NEW s \in Streams, SaveAnswer(s) PROVE TypeInv'
  BY <1>17 DEF SaveAnswer
<1>18. ASSUME NEW s \in Streams, ExportEvent(s) PROVE TypeInv'
  <2> DEFINE row == [run |-> target[s], by |-> s, seq |-> count[s] + 2, type |-> "export_created",
                     late |-> FALSE]
  <2>1. /\ target[s] \in Runs
        /\ events \subseteq EventRow
        /\ count[s] + 2 \in Nat
        /\ "export_created" \in RuntimeEvents \cup {"export_created"}
        /\ FALSE \in BOOLEAN
    BY <1>18 DEF ExportEvent
  <2>2. row \in EventRow
    BY <2>1, RowType
  <2>3. events' = events \cup {row}
    BY <1>18 DEF ExportEvent, Persist, NextOwnSeq
  <2>4. events' \subseteq EventRow
    BY <2>1, <2>2, <2>3
  <2> QED
    BY <1>18, <2>1, <2>4 DEF ExportEvent
<1>19. ASSUME NEW s \in Streams, NoExport(s) PROVE TypeInv'
  BY <1>19 DEF NoExport
<1>20. ASSUME NEW s \in Streams, RememberExportSeq(s) PROVE TypeInv'
  BY <1>20 DEF RememberExportSeq, NextOwnSeq
<1>21. ASSUME NEW s \in Streams, CompleteCancelled(s) PROVE TypeInv'
  BY <1>21 DEF CompleteCancelled, CompleteRunRow
<1>22. ASSUME NEW s \in Streams, RecordFailure(s) PROVE TypeInv'
  <2> DEFINE row == [run |-> target[s], by |-> s, seq |-> count[s] + 2, type |-> "run_failed",
                     late |-> FALSE]
  <2>1. /\ target[s] \in Runs
        /\ events \subseteq EventRow
        /\ count[s] + 2 \in Nat
        /\ "run_failed" \in RuntimeEvents \cup {"export_created"}
        /\ FALSE \in BOOLEAN
    BY <1>22 DEF RecordFailure
  <2>2. row \in EventRow
    BY <2>1, RowType
  <2>3. events' = events \cup {row}
    BY <1>22 DEF RecordFailure, Persist, NextOwnSeq
  <2>4. events' \subseteq EventRow
    BY <2>1, <2>2, <2>3
  <2> QED
    BY <1>22, <2>1, <2>4 DEF RecordFailure
<1>23. ASSUME NEW s \in Streams, CompleteFailed(s) PROVE TypeInv'
  BY <1>23 DEF CompleteFailed, CompleteRunRow
<1>24. ASSUME NEW s \in Streams, CleanFlag(s) PROVE TypeInv'
  BY <1>24 DEF CleanFlag
<1>25. ASSUME NEW s \in Streams, CleanRun(s) PROVE TypeInv'
  BY <1>25 DEF CleanRun
<1>26. ASSUME NEW s \in Streams, CleanSession(s) PROVE TypeInv'
  BY <1>26 DEF CleanSession
<1>27. ASSUME NEW s \in Streams, EventRejected(s) PROVE TypeInv'
  BY <1>27 DEF EventRejected, Raise
<1>28. ASSUME NEW s \in Streams, RowRejected(s) PROVE TypeInv'
  BY <1>28 DEF RowRejected
<1>29. ASSUME NEW s \in Streams, RuntimeRaises(s) PROVE TypeInv'
  BY <1>29 DEF RuntimeRaises, Raise
<1>30. ASSUME NEW s \in Streams, StoreRaises(s) PROVE TypeInv'
  BY <1>30 DEF StoreRaises, Raise
<1>31. ASSUME NEW s \in Streams, Disconnect(s) PROVE TypeInv'
  BY <1>31 DEF Disconnect
<1>32. ASSUME NEW s \in Streams, Abort(s) PROVE TypeInv'
  BY <1>32 DEF Abort
<1>33. ASSUME NEW c \in Ctls, NEW r \in Runs, LookupCancel(c, r) PROVE TypeInv'
  BY <1>33 DEF LookupCancel
<1>34. ASSUME NEW c \in Ctls, LookupDelete(c) PROVE TypeInv'
  BY <1>34 DEF LookupDelete
<1>35. ASSUME NEW c \in Ctls, RequestCancel(c) PROVE TypeInv'
  BY <1>35 DEF RequestCancel
<1>36. ASSUME NEW c \in Ctls, ApplyCancel(c) PROVE TypeInv'
  BY <1>36 DEF ApplyCancel, CompleteRunRow
<1>37. ASSUME NEW c \in Ctls, ApplyDelete(c) PROVE TypeInv'
  <2>1. run' \in [Runs -> RunStatus]
    BY <1>37 DEF ApplyDelete
  <2>2. /\ exists' \in BOOLEAN /\ events' = {} /\ summaries' = {} /\ messages' = {}
        /\ ctlPc' = [ctlPc EXCEPT ![c] = "done"]
    BY <1>37 DEF ApplyDelete
  <2> QED
    BY <1>37, <2>1, <2>2 DEF ApplyDelete
<1>38. ASSUME NEW c \in Ctls, CtlFails(c) PROVE TypeInv'
  BY <1>38 DEF CtlFails
<1>39. ASSUME NEW c \in Ctls, NEW archive \in BOOLEAN, SetArchived(c, archive) PROVE TypeInv'
  BY <1>39 DEF SetArchived
<1>40. ASSUME Crash PROVE TypeInv'
  BY <1>40 DEF Crash
<1>41. ASSUME UNCHANGED vars PROVE TypeInv'
  BY <1>41 DEF vars
<1> HIDE DEF TypeInv, TypeOK, TargetsKnown, tables, session, redis,
    streamVars, ctlVars, RunStatus, SessionStatus, Terminal, Active,
    SummaryRow, MessageRow, RuntimeEvents, TerminalEvents, StreamPc, TryBlock,
    OutsideTry, Cleanup, AllKinds, Goto
<1> QED
  BY <1>1, <1>2, <1>3, <1>4, <1>5, <1>6, <1>7, <1>8, <1>9, <1>10, <1>11,
     <1>12, <1>13, <1>14, <1>15, <1>16, <1>17, <1>18, <1>19, <1>20, <1>21,
     <1>22, <1>23, <1>24, <1>25, <1>26, <1>27, <1>28, <1>29, <1>30, <1>31,
     <1>32, <1>33, <1>34, <1>35, <1>36, <1>37, <1>38, <1>39, <1>40, <1>41
     DEF Next, PostStep, OpenStep, Progress, Mishap, CtlStep

\* Every variable keeps its type, whatever the handlers do.
THEOREM TypeCorrect == Spec => []TypeOK
<1>1. TypeInv => TypeOK
  BY DEF TypeInv
<1> QED
  BY TypeInvInit, TypeInvStep, <1>1, PTL DEF Spec

---------------------------------------------------------------------------
(* A cancelled run carries its flag *)

\* Whoever is about to write "cancelled" has set the flag, or has seen it, and
\* nothing takes a flag back.
CancelInv ==
    /\ CancelledImpliesFlag
    /\ \A s \in Streams :
          pc[s] \in {"cancelling", "cleanRun", "cleanSession"} => target[s] \in cancelled
    /\ \A c \in Ctls :
          ctlPc[c] = "apply" /\ ctlKind[c] = "cancel" => ctlRun[c] \in cancelled

LEMMA CancelInvInit == Init => CancelInv
BY DEF Init, CancelInv, CancelledImpliesFlag

LEMMA CancelInvStep == TypeInv /\ CancelInv /\ [Next]_vars => CancelInv'
<1> SUFFICES ASSUME TypeInv, CancelInv, [Next]_vars PROVE CancelInv'
  OBVIOUS
<1> USE ConstantsAssumption
    DEF CancelInv, CancelledImpliesFlag, TypeInv, TypeOK, TargetsKnown, tables, session,
        redis, streamVars, ctlVars, Goto
<1>1. ASSUME NEW p \in Posts, CheckNoActiveRun(p) PROVE CancelInv'
  BY <1>1 DEF CheckNoActiveRun
<1>2. ASSUME NEW p \in Posts, SaveUserMessage(p) PROVE CancelInv'
  BY <1>2 DEF SaveUserMessage
<1>3. ASSUME NEW p \in Posts, CreateMessageRun(p) PROVE CancelInv'
  BY <1>3 DEF CreateMessageRun, CreateRunRow
<1>4. ASSUME NEW p \in Posts, PostFails(p) PROVE CancelInv'
  BY <1>4 DEF PostFails
<1>5. ASSUME NEW s \in Streams, NEW r \in Runs, OpenRunStream(s, r) PROVE CancelInv'
  BY <1>5 DEF OpenRunStream
<1>6. ASSUME NEW s \in Streams, OpenSessionStream(s) PROVE CancelInv'
  BY <1>6 DEF OpenSessionStream
<1>7. ASSUME NEW s \in Streams, OpenPostRun(s) PROVE CancelInv'
  BY <1>7 DEF OpenPostRun
<1>8. ASSUME NEW s \in Streams, CreateStreamRun(s) PROVE CancelInv'
  BY <1>8 DEF CreateStreamRun, CreateRunRow
<1>9. ASSUME NEW s \in Streams, StartRun(s) PROVE CancelInv'
  BY <1>9 DEF StartRun, StartRunRow
<1>10. ASSUME NEW s \in Streams, EnterLoop(s) PROVE CancelInv'
  BY <1>10 DEF EnterLoop
<1>11. ASSUME NEW s \in Streams, NextEvent(s) PROVE CancelInv'
  BY <1>11 DEF NextEvent, Offers
<1>12. ASSUME NEW s \in Streams, AppendEvent(s) PROVE CancelInv'
  BY <1>12 DEF AppendEvent, Persist
<1>13. ASSUME NEW s \in Streams, RememberSeq(s) PROVE CancelInv'
  BY <1>13 DEF RememberSeq
<1>14. ASSUME NEW s \in Streams, LoopEnds(s) PROVE CancelInv'
  BY <1>14 DEF LoopEnds
<1>15. ASSUME NEW s \in Streams, FinishRun(s) PROVE CancelInv'
  BY <1>15 DEF FinishRun, CompleteRunRow, DeriveStatus
<1>16. ASSUME NEW s \in Streams, SaveSummary(s) PROVE CancelInv'
  BY <1>16 DEF SaveSummary
<1>17. ASSUME NEW s \in Streams, SaveAnswer(s) PROVE CancelInv'
  BY <1>17 DEF SaveAnswer
<1>18. ASSUME NEW s \in Streams, ExportEvent(s) PROVE CancelInv'
  BY <1>18 DEF ExportEvent, Persist, NextOwnSeq
<1>19. ASSUME NEW s \in Streams, NoExport(s) PROVE CancelInv'
  BY <1>19 DEF NoExport
<1>20. ASSUME NEW s \in Streams, RememberExportSeq(s) PROVE CancelInv'
  BY <1>20 DEF RememberExportSeq, NextOwnSeq
<1>21. ASSUME NEW s \in Streams, CompleteCancelled(s) PROVE CancelInv'
  BY <1>21 DEF CompleteCancelled, CompleteRunRow
<1>22. ASSUME NEW s \in Streams, RecordFailure(s) PROVE CancelInv'
  BY <1>22 DEF RecordFailure, Persist, NextOwnSeq
<1>23. ASSUME NEW s \in Streams, CompleteFailed(s) PROVE CancelInv'
  BY <1>23 DEF CompleteFailed, CompleteRunRow
<1>24. ASSUME NEW s \in Streams, CleanFlag(s) PROVE CancelInv'
  BY <1>24 DEF CleanFlag
<1>25. ASSUME NEW s \in Streams, CleanRun(s) PROVE CancelInv'
  BY <1>25 DEF CleanRun
<1>26. ASSUME NEW s \in Streams, CleanSession(s) PROVE CancelInv'
  BY <1>26 DEF CleanSession
<1>27. ASSUME NEW s \in Streams, EventRejected(s) PROVE CancelInv'
  BY <1>27 DEF EventRejected, Raise
<1>28. ASSUME NEW s \in Streams, RowRejected(s) PROVE CancelInv'
  BY <1>28 DEF RowRejected, Inserts
<1>29. ASSUME NEW s \in Streams, RuntimeRaises(s) PROVE CancelInv'
  BY <1>29 DEF RuntimeRaises, Raise
<1>30. ASSUME NEW s \in Streams, StoreRaises(s) PROVE CancelInv'
  BY <1>30 DEF StoreRaises, Raise, TryBlock
<1>31. ASSUME NEW s \in Streams, Disconnect(s) PROVE CancelInv'
  BY <1>31 DEF Disconnect, TryBlock
<1>32. ASSUME NEW s \in Streams, Abort(s) PROVE CancelInv'
  BY <1>32 DEF Abort
<1>33. ASSUME NEW c \in Ctls, NEW r \in Runs, LookupCancel(c, r) PROVE CancelInv'
  BY <1>33 DEF LookupCancel
<1>34. ASSUME NEW c \in Ctls, LookupDelete(c) PROVE CancelInv'
  BY <1>34 DEF LookupDelete
<1>35. ASSUME NEW c \in Ctls, RequestCancel(c) PROVE CancelInv'
  BY <1>35 DEF RequestCancel
<1>36. ASSUME NEW c \in Ctls, ApplyCancel(c) PROVE CancelInv'
  BY <1>36 DEF ApplyCancel, CompleteRunRow
<1>37. ASSUME NEW c \in Ctls, ApplyDelete(c) PROVE CancelInv'
  BY <1>37 DEF ApplyDelete
<1>38. ASSUME NEW c \in Ctls, CtlFails(c) PROVE CancelInv'
  BY <1>38 DEF CtlFails
<1>39. ASSUME NEW c \in Ctls, NEW archive \in BOOLEAN, SetArchived(c, archive) PROVE CancelInv'
  BY <1>39 DEF SetArchived
<1>40. ASSUME Crash PROVE CancelInv'
  BY <1>40 DEF Crash
<1>41. ASSUME UNCHANGED vars PROVE CancelInv'
  BY <1>41 DEF vars
<1> HIDE DEF CancelInv, CancelledImpliesFlag, TypeInv, TypeOK, TargetsKnown,
    tables, session, redis, streamVars, ctlVars, Goto
<1> QED
  BY <1>1, <1>2, <1>3, <1>4, <1>5, <1>6, <1>7, <1>8, <1>9, <1>10, <1>11,
     <1>12, <1>13, <1>14, <1>15, <1>16, <1>17, <1>18, <1>19, <1>20, <1>21,
     <1>22, <1>23, <1>24, <1>25, <1>26, <1>27, <1>28, <1>29, <1>30, <1>31,
     <1>32, <1>33, <1>34, <1>35, <1>36, <1>37, <1>38, <1>39, <1>40, <1>41
     DEF Next, PostStep, OpenStep, Progress, Mishap, CtlStep

\* A run is cancelled in the database only if its cancel flag is set in redis.
THEOREM CancelledRunsAreFlagged == Spec => []CancelledImpliesFlag
<1>1. CancelInv => CancelledImpliesFlag
  BY DEF CancelInv
<1> QED
  BY TypeInvInit, TypeInvStep, CancelInvInit, CancelInvStep, <1>1, PTL DEF Spec

---------------------------------------------------------------------------
(* A settled run has its event *)

HasEvent(r, type) == \E e \in events : e.run = r /\ e.type = type

\* An execution that is about to settle its run has persisted the event it
\* settles it by; the rows only disappear together with the runs.
EventInv ==
    /\ \A r \in Runs :
          run[r] \in {"completed", "failed", "awaiting_user"} => HasEvent(r, Witness(run[r]))
    /\ \A s \in Streams : pc[s] \in {"idle", "create", "prep", "ready"} => event[s] = "step"
    /\ \A s \in Streams : pc[s] = "finish" => event[s] # "step"
    /\ \A s \in Streams :
          exists /\ pc[s] \in {"remember", "loop", "finish"} /\ event[s] # "step"
              => HasEvent(target[s], event[s])
    /\ \A s \in Streams :
          exists /\ pc[s] = "failed" => HasEvent(target[s], "run_failed")
    /\ ~exists => \A r \in Runs : run[r] \in {"none", "deleted"}

LEMMA EventInvInit == Init => EventInv
BY DEF Init, EventInv

LEMMA EventInvStep == TypeInv /\ EventInv /\ [Next]_vars => EventInv'
<1> SUFFICES ASSUME TypeInv, EventInv, [Next]_vars PROVE EventInv'
  OBVIOUS
<1> USE ConstantsAssumption
    DEF EventInv, HasEvent, Witness, TypeInv, TypeOK, TargetsKnown, tables, session,
        redis, streamVars, ctlVars, Goto, RuntimeEvents, TerminalEvents
<1>1. ASSUME NEW p \in Posts, CheckNoActiveRun(p) PROVE EventInv'
  BY <1>1 DEF CheckNoActiveRun
<1>2. ASSUME NEW p \in Posts, SaveUserMessage(p) PROVE EventInv'
  BY <1>2 DEF SaveUserMessage
<1>3. ASSUME NEW p \in Posts, CreateMessageRun(p) PROVE EventInv'
  BY <1>3 DEF CreateMessageRun, CreateRunRow
<1>4. ASSUME NEW p \in Posts, PostFails(p) PROVE EventInv'
  BY <1>4 DEF PostFails
<1>5. ASSUME NEW s \in Streams, NEW r \in Runs, OpenRunStream(s, r) PROVE EventInv'
  BY <1>5 DEF OpenRunStream
<1>6. ASSUME NEW s \in Streams, OpenSessionStream(s) PROVE EventInv'
  BY <1>6 DEF OpenSessionStream
<1>7. ASSUME NEW s \in Streams, OpenPostRun(s) PROVE EventInv'
  BY <1>7 DEF OpenPostRun
<1>8. ASSUME NEW s \in Streams, CreateStreamRun(s) PROVE EventInv'
  BY <1>8 DEF CreateStreamRun, CreateRunRow
<1>9. ASSUME NEW s \in Streams, StartRun(s) PROVE EventInv'
  BY <1>9 DEF StartRun, StartRunRow
<1>10. ASSUME NEW s \in Streams, EnterLoop(s) PROVE EventInv'
  BY <1>10 DEF EnterLoop
<1>11. ASSUME NEW s \in Streams, NextEvent(s) PROVE EventInv'
  BY <1>11 DEF NextEvent, Offers
<1>12. ASSUME NEW s \in Streams, AppendEvent(s) PROVE EventInv'
  <2> DEFINE row == [run |-> target[s], by |-> s, seq |-> count[s] + 1, type |-> event[s],
                     late |-> (target[s] \in cancelled)]
  <2>1. events' = events \cup {row}
    BY <1>12 DEF AppendEvent, Persist, NextOwnSeq
  <2>2. row.run = target[s] /\ row.type = event[s]
    OBVIOUS
  <2> HIDE DEF row
  <2>3. \E e \in events' : e.run = target[s] /\ e.type = event[s]
    BY <2>1, <2>2
  <2>4. \A r \in Runs, type \in RuntimeEvents : HasEvent(r, type) => HasEvent(r, type)'
    BY <2>1
  <2> QED
    BY <1>12, <2>3, <2>4 DEF AppendEvent
<1>13. ASSUME NEW s \in Streams, RememberSeq(s) PROVE EventInv'
  BY <1>13 DEF RememberSeq
<1>14. ASSUME NEW s \in Streams, LoopEnds(s) PROVE EventInv'
  BY <1>14 DEF LoopEnds
<1>15. ASSUME NEW s \in Streams, FinishRun(s) PROVE EventInv'
  BY <1>15 DEF FinishRun, CompleteRunRow, DeriveStatus
<1>16. ASSUME NEW s \in Streams, SaveSummary(s) PROVE EventInv'
  BY <1>16 DEF SaveSummary
<1>17. ASSUME NEW s \in Streams, SaveAnswer(s) PROVE EventInv'
  BY <1>17 DEF SaveAnswer
<1>18. ASSUME NEW s \in Streams, ExportEvent(s) PROVE EventInv'
  BY <1>18 DEF ExportEvent, Persist, NextOwnSeq
<1>19. ASSUME NEW s \in Streams, NoExport(s) PROVE EventInv'
  BY <1>19 DEF NoExport
<1>20. ASSUME NEW s \in Streams, RememberExportSeq(s) PROVE EventInv'
  BY <1>20 DEF RememberExportSeq, NextOwnSeq
<1>21. ASSUME NEW s \in Streams, CompleteCancelled(s) PROVE EventInv'
  BY <1>21 DEF CompleteCancelled, CompleteRunRow
<1>22. ASSUME NEW s \in Streams, RecordFailure(s) PROVE EventInv'
  <2> DEFINE row == [run |-> target[s], by |-> s, seq |-> count[s] + 2, type |-> "run_failed",
                     late |-> FALSE]
  <2>1. events' = events \cup {row}
    BY <1>22 DEF RecordFailure, Persist, NextOwnSeq
  <2>2. row.run = target[s] /\ row.type = "run_failed"
    OBVIOUS
  <2> HIDE DEF row
  <2>3. \E e \in events' : e.run = target[s] /\ e.type = "run_failed"
    BY <2>1, <2>2
  <2>4. events \subseteq events'
    BY <2>1
  <2>5. /\ pc' = [pc EXCEPT ![s] = "failed"]
        /\ UNCHANGED <<run, exists, target, event>>
    BY <1>22 DEF RecordFailure
  <2>6. pc'[s] = "failed" /\ \A q \in Streams : q # s => pc'[q] = pc[q]
    BY <2>5
  <2>7. \A q \in Streams :
           /\ pc'[q] \in {"idle", "create", "prep", "ready"} => event'[q] = "step"
           /\ pc'[q] = "finish" => event'[q] # "step"
    BY <2>5, <2>6
  <2>8. \A r \in Runs :
           run'[r] \in {"completed", "failed", "awaiting_user"} => HasEvent(r, Witness(run[r]))'
    <3> SUFFICES ASSUME NEW r \in Runs, run'[r] \in {"completed", "failed", "awaiting_user"}
                 PROVE  \E e \in events' : e.run = r /\ e.type = Witness(run'[r])
      OBVIOUS
    <3>1. run'[r] = run[r]
      BY <2>5
    <3>2. PICK e \in events : e.run = r /\ e.type = Witness(run[r])
      BY <3>1
    <3> QED
      BY <2>4, <3>1, <3>2
  <2>9. \A q \in Streams :
           exists' /\ pc'[q] \in {"remember", "loop", "finish"} /\ event'[q] # "step"
               => HasEvent(target[q], event[q])'
    BY <2>4, <2>5, <2>6
  <2>10. \A q \in Streams :
            exists' /\ pc'[q] = "failed" => HasEvent(target[q], "run_failed")'
    BY <2>3, <2>4, <2>5, <2>6
  <2>11. ~exists' => \A r \in Runs : run'[r] \in {"none", "deleted"}
    BY <2>5
  <2> QED
    BY <2>7, <2>8, <2>9, <2>10, <2>11
<1>23. ASSUME NEW s \in Streams, CompleteFailed(s) PROVE EventInv'
  BY <1>23 DEF CompleteFailed, CompleteRunRow
<1>24. ASSUME NEW s \in Streams, CleanFlag(s) PROVE EventInv'
  BY <1>24 DEF CleanFlag
<1>25. ASSUME NEW s \in Streams, CleanRun(s) PROVE EventInv'
  BY <1>25 DEF CleanRun
<1>26. ASSUME NEW s \in Streams, CleanSession(s) PROVE EventInv'
  BY <1>26 DEF CleanSession
<1>27. ASSUME NEW s \in Streams, EventRejected(s) PROVE EventInv'
  BY <1>27 DEF EventRejected, Raise
<1>28. ASSUME NEW s \in Streams, RowRejected(s) PROVE EventInv'
  BY <1>28 DEF RowRejected, Inserts
<1>29. ASSUME NEW s \in Streams, RuntimeRaises(s) PROVE EventInv'
  BY <1>29 DEF RuntimeRaises, Raise
<1>30. ASSUME NEW s \in Streams, StoreRaises(s) PROVE EventInv'
  BY <1>30 DEF StoreRaises, Raise, TryBlock
<1>31. ASSUME NEW s \in Streams, Disconnect(s) PROVE EventInv'
  BY <1>31 DEF Disconnect, TryBlock
<1>32. ASSUME NEW s \in Streams, Abort(s) PROVE EventInv'
  BY <1>32 DEF Abort
<1>33. ASSUME NEW c \in Ctls, NEW r \in Runs, LookupCancel(c, r) PROVE EventInv'
  BY <1>33 DEF LookupCancel
<1>34. ASSUME NEW c \in Ctls, LookupDelete(c) PROVE EventInv'
  BY <1>34 DEF LookupDelete
<1>35. ASSUME NEW c \in Ctls, RequestCancel(c) PROVE EventInv'
  BY <1>35 DEF RequestCancel
<1>36. ASSUME NEW c \in Ctls, ApplyCancel(c) PROVE EventInv'
  BY <1>36 DEF ApplyCancel, CompleteRunRow
<1>37. ASSUME NEW c \in Ctls, ApplyDelete(c) PROVE EventInv'
  BY <1>37 DEF ApplyDelete
<1>38. ASSUME NEW c \in Ctls, CtlFails(c) PROVE EventInv'
  BY <1>38 DEF CtlFails
<1>39. ASSUME NEW c \in Ctls, NEW archive \in BOOLEAN, SetArchived(c, archive) PROVE EventInv'
  BY <1>39 DEF SetArchived
<1>40. ASSUME Crash PROVE EventInv'
  BY <1>40 DEF Crash
<1>41. ASSUME UNCHANGED vars PROVE EventInv'
  BY <1>41 DEF vars
<1> HIDE DEF EventInv, HasEvent, Witness, TypeInv, TypeOK, TargetsKnown,
    tables, session, redis, streamVars, ctlVars, Goto, RuntimeEvents,
    TerminalEvents
<1> QED
  BY <1>1, <1>2, <1>3, <1>4, <1>5, <1>6, <1>7, <1>8, <1>9, <1>10, <1>11,
     <1>12, <1>13, <1>14, <1>15, <1>16, <1>17, <1>18, <1>19, <1>20, <1>21,
     <1>22, <1>23, <1>24, <1>25, <1>26, <1>27, <1>28, <1>29, <1>30, <1>31,
     <1>32, <1>33, <1>34, <1>35, <1>36, <1>37, <1>38, <1>39, <1>40, <1>41
     DEF Next, PostStep, OpenStep, Progress, Mishap, CtlStep

\* A run that is completed, failed or awaiting the user has the event that says
\* so among its persisted events.
THEOREM SettledRunsHaveEvents == Spec => []TerminalStatusHasEvent
<1>1. EventInv => TerminalStatusHasEvent
  BY DEF EventInv, TerminalStatusHasEvent, HasEvent
<1> QED
  BY TypeInvInit, TypeInvStep, EventInvInit, EventInvStep, <1>1, PTL DEF Spec

---------------------------------------------------------------------------
(* The session row and its current run *)

CurrentRunIn(statuses) == exists /\ current # NoRun => run[current] \in statuses

\* Only the clean-up of a disconnect ends a run without releasing the session.
SessionInv ==
    /\ RunningSessionNamesRun
    /\ CurrentRunIn(Active \cup {"cancelled"})
    /\ "disconnect" \notin Faults =>
          /\ \A s \in Streams : pc[s] \notin Cleanup
          /\ CurrentRunIn(Active)

LEMMA SessionInvInit == Init => SessionInv
BY DEF Init, SessionInv, CurrentRunIn, RunningSessionNamesRun, Cleanup

LEMMA SessionInvStep == TypeInv /\ SessionInv /\ [Next]_vars => SessionInv'
<1> SUFFICES ASSUME TypeInv, SessionInv, [Next]_vars PROVE SessionInv'
  OBVIOUS
<1> USE ConstantsAssumption
    DEF SessionInv, CurrentRunIn, RunningSessionNamesRun, TypeInv, TypeOK,
        TargetsKnown, tables, session, redis, streamVars, ctlVars, Goto, Active, Terminal, Cleanup
<1>1. ASSUME NEW p \in Posts, CheckNoActiveRun(p) PROVE SessionInv'
  BY <1>1 DEF CheckNoActiveRun
<1>2. ASSUME NEW p \in Posts, SaveUserMessage(p) PROVE SessionInv'
  BY <1>2 DEF SaveUserMessage
<1>3. ASSUME NEW p \in Posts, CreateMessageRun(p) PROVE SessionInv'
  BY <1>3 DEF CreateMessageRun, CreateRunRow
<1>4. ASSUME NEW p \in Posts, PostFails(p) PROVE SessionInv'
  BY <1>4 DEF PostFails
<1>5. ASSUME NEW s \in Streams, NEW r \in Runs, OpenRunStream(s, r) PROVE SessionInv'
  BY <1>5 DEF OpenRunStream
<1>6. ASSUME NEW s \in Streams, OpenSessionStream(s) PROVE SessionInv'
  BY <1>6 DEF OpenSessionStream
<1>7. ASSUME NEW s \in Streams, OpenPostRun(s) PROVE SessionInv'
  BY <1>7 DEF OpenPostRun
<1>8. ASSUME NEW s \in Streams, CreateStreamRun(s) PROVE SessionInv'
  BY <1>8 DEF CreateStreamRun, CreateRunRow
<1>9. ASSUME NEW s \in Streams, StartRun(s) PROVE SessionInv'
  BY <1>9 DEF StartRun, StartRunRow
<1>10. ASSUME NEW s \in Streams, EnterLoop(s) PROVE SessionInv'
  BY <1>10 DEF EnterLoop
<1>11. ASSUME NEW s \in Streams, NextEvent(s) PROVE SessionInv'
  BY <1>11 DEF NextEvent, Offers
<1>12. ASSUME NEW s \in Streams, AppendEvent(s) PROVE SessionInv'
  BY <1>12 DEF AppendEvent, Persist
<1>13. ASSUME NEW s \in Streams, RememberSeq(s) PROVE SessionInv'
  BY <1>13 DEF RememberSeq
<1>14. ASSUME NEW s \in Streams, LoopEnds(s) PROVE SessionInv'
  BY <1>14 DEF LoopEnds
<1>15. ASSUME NEW s \in Streams, FinishRun(s) PROVE SessionInv'
  BY <1>15 DEF FinishRun, CompleteRunRow, DeriveStatus
<1>16. ASSUME NEW s \in Streams, SaveSummary(s) PROVE SessionInv'
  BY <1>16 DEF SaveSummary
<1>17. ASSUME NEW s \in Streams, SaveAnswer(s) PROVE SessionInv'
  BY <1>17 DEF SaveAnswer
<1>18. ASSUME NEW s \in Streams, ExportEvent(s) PROVE SessionInv'
  BY <1>18 DEF ExportEvent, Persist, NextOwnSeq
<1>19. ASSUME NEW s \in Streams, NoExport(s) PROVE SessionInv'
  BY <1>19 DEF NoExport
<1>20. ASSUME NEW s \in Streams, RememberExportSeq(s) PROVE SessionInv'
  BY <1>20 DEF RememberExportSeq, NextOwnSeq
<1>21. ASSUME NEW s \in Streams, CompleteCancelled(s) PROVE SessionInv'
  BY <1>21 DEF CompleteCancelled, CompleteRunRow
<1>22. ASSUME NEW s \in Streams, RecordFailure(s) PROVE SessionInv'
  BY <1>22 DEF RecordFailure, Persist, NextOwnSeq
<1>23. ASSUME NEW s \in Streams, CompleteFailed(s) PROVE SessionInv'
  BY <1>23 DEF CompleteFailed, CompleteRunRow
<1>24. ASSUME NEW s \in Streams, CleanFlag(s) PROVE SessionInv'
  BY <1>24 DEF CleanFlag
<1>25. ASSUME NEW s \in Streams, CleanRun(s) PROVE SessionInv'
  BY <1>25 DEF CleanRun
<1>26. ASSUME NEW s \in Streams, CleanSession(s) PROVE SessionInv'
  BY <1>26 DEF CleanSession
<1>27. ASSUME NEW s \in Streams, EventRejected(s) PROVE SessionInv'
  BY <1>27 DEF EventRejected, Raise
<1>28. ASSUME NEW s \in Streams, RowRejected(s) PROVE SessionInv'
  BY <1>28 DEF RowRejected, Inserts
<1>29. ASSUME NEW s \in Streams, RuntimeRaises(s) PROVE SessionInv'
  BY <1>29 DEF RuntimeRaises, Raise
<1>30. ASSUME NEW s \in Streams, StoreRaises(s) PROVE SessionInv'
  BY <1>30 DEF StoreRaises, Raise, TryBlock
<1>31. ASSUME NEW s \in Streams, Disconnect(s) PROVE SessionInv'
  BY <1>31 DEF Disconnect, TryBlock
<1>32. ASSUME NEW s \in Streams, Abort(s) PROVE SessionInv'
  BY <1>32 DEF Abort
<1>33. ASSUME NEW c \in Ctls, NEW r \in Runs, LookupCancel(c, r) PROVE SessionInv'
  BY <1>33 DEF LookupCancel
<1>34. ASSUME NEW c \in Ctls, LookupDelete(c) PROVE SessionInv'
  BY <1>34 DEF LookupDelete
<1>35. ASSUME NEW c \in Ctls, RequestCancel(c) PROVE SessionInv'
  BY <1>35 DEF RequestCancel
<1>36. ASSUME NEW c \in Ctls, ApplyCancel(c) PROVE SessionInv'
  BY <1>36 DEF ApplyCancel, CompleteRunRow
<1>37. ASSUME NEW c \in Ctls, ApplyDelete(c) PROVE SessionInv'
  BY <1>37 DEF ApplyDelete
<1>38. ASSUME NEW c \in Ctls, CtlFails(c) PROVE SessionInv'
  BY <1>38 DEF CtlFails
<1>39. ASSUME NEW c \in Ctls, NEW archive \in BOOLEAN, SetArchived(c, archive) PROVE SessionInv'
  BY <1>39 DEF SetArchived
<1>40. ASSUME Crash PROVE SessionInv'
  BY <1>40 DEF Crash
<1>41. ASSUME UNCHANGED vars PROVE SessionInv'
  BY <1>41 DEF vars
<1> HIDE DEF SessionInv, CurrentRunIn, RunningSessionNamesRun, TypeInv,
    TypeOK, TargetsKnown, tables, session, redis, streamVars, ctlVars, Goto,
    Active, Terminal, Cleanup
<1> QED
  BY <1>1, <1>2, <1>3, <1>4, <1>5, <1>6, <1>7, <1>8, <1>9, <1>10, <1>11,
     <1>12, <1>13, <1>14, <1>15, <1>16, <1>17, <1>18, <1>19, <1>20, <1>21,
     <1>22, <1>23, <1>24, <1>25, <1>26, <1>27, <1>28, <1>29, <1>30, <1>31,
     <1>32, <1>33, <1>34, <1>35, <1>36, <1>37, <1>38, <1>39, <1>40, <1>41
     DEF Next, PostStep, OpenStep, Progress, Mishap, CtlStep

\* Whatever goes wrong around the handlers, the session never keeps pointing at
\* a run that was completed, failed or left waiting for its user.
THEOREM CurrentRunStaysOpen == Spec => []CurrentRunIn(Active \cup {"cancelled"})
<1>1. SessionInv => CurrentRunIn(Active \cup {"cancelled"})
  BY DEF SessionInv
<1> QED
  BY TypeInvInit, TypeInvStep, SessionInvInit, SessionInvStep, <1>1, PTL DEF Spec

\* The design document's rule that every terminal status releases the session's
\* active run, while no client goes away.
THEOREM TerminalRunsAreReleased ==
  Spec => []("disconnect" \notin Faults => TerminalReleasesRun)
<1>1. SessionInv => ("disconnect" \notin Faults => TerminalReleasesRun)
  BY DEF SessionInv, CurrentRunIn, TerminalReleasesRun, Active, Terminal
<1> QED
  BY TypeInvInit, TypeInvStep, SessionInvInit, SessionInvStep, <1>1, PTL DEF Spec

\* A session shown as running names the run that a cancel needs.
THEOREM RunningSessionsNameRuns == Spec => []RunningSessionNamesRun
<1>1. SessionInv => RunningSessionNamesRun
  BY DEF SessionInv
<1> QED
  BY TypeInvInit, TypeInvStep, SessionInvInit, SessionInvStep, <1>1, PTL DEF Spec

---------------------------------------------------------------------------
(* What a stream still writes after a cancel request *)

\* A late row shows that the flag was set when it was written; its stream is
\* past the check that let it through and cannot pass that check again.
LateInv ==
    /\ AtMostOneLateEvent
    /\ \A e \in events : e.run = target[e.by]
    /\ \A e \in events : pc[e.by] \notin {"idle", "create", "prep", "ready"}
    /\ \A e \in events : e.late => e.run \in cancelled
    /\ \A e \in events : e.late /\ kind[e.by] # "post" => pc[e.by] # "append"

LEMMA LateInvInit == Init => LateInv
BY DEF Init, LateInv, AtMostOneLateEvent

LEMMA LateInvStep == TypeInv /\ LateInv /\ [Next]_vars => LateInv'
<1> SUFFICES ASSUME TypeInv, LateInv, [Next]_vars PROVE LateInv'
  OBVIOUS
<1>rows. \A e \in events : e.by \in Streams
  BY DEF TypeInv, TypeOK, EventRow
<1> USE ConstantsAssumption
    DEF LateInv, AtMostOneLateEvent, TypeInv, TypeOK, TargetsKnown, tables, session,
        redis, streamVars, ctlVars, Goto
<1>1. ASSUME NEW p \in Posts, CheckNoActiveRun(p) PROVE LateInv'
  BY <1>1, <1>rows DEF CheckNoActiveRun
<1>2. ASSUME NEW p \in Posts, SaveUserMessage(p) PROVE LateInv'
  BY <1>2, <1>rows DEF SaveUserMessage
<1>3. ASSUME NEW p \in Posts, CreateMessageRun(p) PROVE LateInv'
  BY <1>3, <1>rows DEF CreateMessageRun, CreateRunRow
<1>4. ASSUME NEW p \in Posts, PostFails(p) PROVE LateInv'
  BY <1>4, <1>rows DEF PostFails
<1>5. ASSUME NEW s \in Streams, NEW r \in Runs, OpenRunStream(s, r) PROVE LateInv'
  BY <1>5, <1>rows DEF OpenRunStream
<1>6. ASSUME NEW s \in Streams, OpenSessionStream(s) PROVE LateInv'
  BY <1>6, <1>rows DEF OpenSessionStream
<1>7. ASSUME NEW s \in Streams, OpenPostRun(s) PROVE LateInv'
  BY <1>7, <1>rows DEF OpenPostRun
<1>8. ASSUME NEW s \in Streams, CreateStreamRun(s) PROVE LateInv'
  BY <1>8, <1>rows DEF CreateStreamRun, CreateRunRow
<1>9. ASSUME NEW s \in Streams, StartRun(s) PROVE LateInv'
  BY <1>9, <1>rows DEF StartRun, StartRunRow
<1>10. ASSUME NEW s \in Streams, EnterLoop(s) PROVE LateInv'
  BY <1>10, <1>rows DEF EnterLoop
<1>11. ASSUME NEW s \in Streams, NextEvent(s) PROVE LateInv'
  BY <1>11, <1>rows DEF NextEvent, Offers
<1>12. ASSUME NEW s \in Streams, AppendEvent(s) PROVE LateInv'
  <2> DEFINE row == [run |-> target[s], by |-> s, seq |-> count[s] + 1, type |-> event[s],
                     late |-> (target[s] \in cancelled)]
  <2>1. events' = events \cup {row}
    BY <1>12 DEF AppendEvent, Persist
  <2>2. row.run = target[s] /\ row.by = s /\ row.late = (target[s] \in cancelled)
    OBVIOUS
  <2> HIDE DEF row
  <2>3. /\ pc[s] = "append" /\ pc' = [pc EXCEPT ![s] = "remember"]
        /\ UNCHANGED <<kind, target, cancelled>>
    BY <1>12 DEF AppendEvent
  <2>4. \A e \in events : e.late /\ kind[e.by] # "post" => e.by # s
    BY <2>3
  <2>5. AtMostOneLateEvent'
    BY <2>1, <2>2, <2>3, <2>4
  <2>6. \A e \in events' : e.by \in Streams /\ e.run = target[e.by]
    BY <1>rows, <2>1, <2>2
  <2>7. \A e \in events' : pc'[e.by] \notin {"idle", "create", "prep", "ready"}
    BY <1>rows, <2>1, <2>2, <2>3
  <2>8. \A e \in events' : e.late => e.run \in cancelled
    BY <2>1, <2>2
  <2>9. \A e \in events' : pc'[e.by] = "append" => e.by # s /\ e \in events
    BY <1>rows, <2>1, <2>2, <2>3
  <2> QED
    BY <1>rows, <2>3, <2>5, <2>6, <2>7, <2>8, <2>9
<1>13. ASSUME NEW s \in Streams, RememberSeq(s) PROVE LateInv'
  BY <1>13, <1>rows DEF RememberSeq
<1>14. ASSUME NEW s \in Streams, LoopEnds(s) PROVE LateInv'
  BY <1>14, <1>rows DEF LoopEnds
<1>15. ASSUME NEW s \in Streams, FinishRun(s) PROVE LateInv'
  BY <1>15, <1>rows DEF FinishRun, CompleteRunRow, DeriveStatus
<1>16. ASSUME NEW s \in Streams, SaveSummary(s) PROVE LateInv'
  BY <1>16, <1>rows DEF SaveSummary
<1>17. ASSUME NEW s \in Streams, SaveAnswer(s) PROVE LateInv'
  BY <1>17, <1>rows DEF SaveAnswer
<1>18. ASSUME NEW s \in Streams, ExportEvent(s) PROVE LateInv'
  <2> DEFINE row == [run |-> target[s], by |-> s, seq |-> count[s] + 2, type |-> "export_created",
                     late |-> FALSE]
  <2>1. events' = events \cup {row}
    BY <1>18 DEF ExportEvent, Persist, NextOwnSeq
  <2>2. row.run = target[s] /\ row.by = s /\ row.late = FALSE
    OBVIOUS
  <2> HIDE DEF row
  <2>3. \A e \in events : e.by \in Streams
    BY DEF EventRow
  <2> QED
    BY <1>18, <2>1, <2>2, <2>3 DEF ExportEvent
<1>19. ASSUME NEW s \in Streams, NoExport(s) PROVE LateInv'
  BY <1>19, <1>rows DEF NoExport
<1>20. ASSUME NEW s \in Streams, RememberExportSeq(s) PROVE LateInv'
  BY <1>20, <1>rows DEF RememberExportSeq, NextOwnSeq
<1>21. ASSUME NEW s \in Streams, CompleteCancelled(s) PROVE LateInv'
  BY <1>21, <1>rows DEF CompleteCancelled, CompleteRunRow
<1>22. ASSUME NEW s \in Streams, RecordFailure(s) PROVE LateInv'
  <2> DEFINE row == [run |-> target[s], by |-> s, seq |-> count[s] + 2, type |-> "run_failed",
                     late |-> FALSE]
  <2>1. events' = events \cup {row}
    BY <1>22 DEF RecordFailure, Persist, NextOwnSeq
  <2>2. row.run = target[s] /\ row.by = s /\ row.late = FALSE
    OBVIOUS
  <2> HIDE DEF row
  <2>3. \A e \in events : e.by \in Streams
    BY DEF EventRow
  <2> QED
    BY <1>22, <2>1, <2>2, <2>3 DEF RecordFailure
<1>23. ASSUME NEW s \in Streams, CompleteFailed(s) PROVE LateInv'
  BY <1>23, <1>rows DEF CompleteFailed, CompleteRunRow
<1>24. ASSUME NEW s \in Streams, CleanFlag(s) PROVE LateInv'
  BY <1>24, <1>rows DEF CleanFlag
<1>25. ASSUME NEW s \in Streams, CleanRun(s) PROVE LateInv'
  BY <1>25, <1>rows DEF CleanRun
<1>26. ASSUME NEW s \in Streams, CleanSession(s) PROVE LateInv'
  BY <1>26, <1>rows DEF CleanSession
<1>27. ASSUME NEW s \in Streams, EventRejected(s) PROVE LateInv'
  BY <1>27, <1>rows DEF EventRejected, Raise
<1>28. ASSUME NEW s \in Streams, RowRejected(s) PROVE LateInv'
  BY <1>28, <1>rows DEF RowRejected, Inserts
<1>29. ASSUME NEW s \in Streams, RuntimeRaises(s) PROVE LateInv'
  BY <1>29, <1>rows DEF RuntimeRaises, Raise
<1>30. ASSUME NEW s \in Streams, StoreRaises(s) PROVE LateInv'
  BY <1>30, <1>rows DEF StoreRaises, Raise, TryBlock
<1>31. ASSUME NEW s \in Streams, Disconnect(s) PROVE LateInv'
  BY <1>31, <1>rows DEF Disconnect, TryBlock
<1>32. ASSUME NEW s \in Streams, Abort(s) PROVE LateInv'
  BY <1>32, <1>rows DEF Abort
<1>33. ASSUME NEW c \in Ctls, NEW r \in Runs, LookupCancel(c, r) PROVE LateInv'
  BY <1>33, <1>rows DEF LookupCancel
<1>34. ASSUME NEW c \in Ctls, LookupDelete(c) PROVE LateInv'
  BY <1>34, <1>rows DEF LookupDelete
<1>35. ASSUME NEW c \in Ctls, RequestCancel(c) PROVE LateInv'
  BY <1>35, <1>rows DEF RequestCancel
<1>36. ASSUME NEW c \in Ctls, ApplyCancel(c) PROVE LateInv'
  BY <1>36, <1>rows DEF ApplyCancel, CompleteRunRow
<1>37. ASSUME NEW c \in Ctls, ApplyDelete(c) PROVE LateInv'
  BY <1>37, <1>rows DEF ApplyDelete
<1>38. ASSUME NEW c \in Ctls, CtlFails(c) PROVE LateInv'
  BY <1>38, <1>rows DEF CtlFails
<1>39. ASSUME NEW c \in Ctls, NEW archive \in BOOLEAN, SetArchived(c, archive) PROVE LateInv'
  BY <1>39, <1>rows DEF SetArchived
<1>40. ASSUME Crash PROVE LateInv'
  BY <1>40, <1>rows DEF Crash
<1>41. ASSUME UNCHANGED vars PROVE LateInv'
  BY <1>41, <1>rows DEF vars
<1> HIDE DEF LateInv, AtMostOneLateEvent, TypeInv, TypeOK, TargetsKnown,
    tables, session, redis, streamVars, ctlVars, Goto
<1> QED
  BY <1>1, <1>2, <1>3, <1>4, <1>5, <1>6, <1>7, <1>8, <1>9, <1>10, <1>11,
     <1>12, <1>13, <1>14, <1>15, <1>16, <1>17, <1>18, <1>19, <1>20, <1>21,
     <1>22, <1>23, <1>24, <1>25, <1>26, <1>27, <1>28, <1>29, <1>30, <1>31,
     <1>32, <1>33, <1>34, <1>35, <1>36, <1>37, <1>38, <1>39, <1>40, <1>41
     DEF Next, PostStep, OpenStep, Progress, Mishap, CtlStep

\* A stream persists at most one event after a cancel request was recorded.
THEOREM CancelStopsTheStream == Spec => []AtMostOneLateEvent
<1>1. LateInv => AtMostOneLateEvent
  BY DEF LateInv
<1> QED
  BY TypeInvInit, TypeInvStep, LateInvInit, LateInvStep, <1>1, PTL DEF Spec
=============================================================================
