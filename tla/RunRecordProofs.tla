---------------------------- MODULE RunRecordProofs ----------------------------
(***************************************************************************)
(* What a finished run leaves behind, for every value of the constants of  *)
(* RunLifecycle: the answer with its summary and event, and the cursor     *)
(* that a client resumes from.                                             *)
(***************************************************************************)
EXTENDS RunLifecycleProofs

---------------------------------------------------------------------------
(* An answer has its summary and its terminal event *)

\* The execution has persisted how its run ended.
Told(s) ==
    \E e \in events : e.run = target[s] /\ e.by = s /\ e.type \in TerminalEvents

\* An execution comes to the answer by way of its terminal event and its
\* summary, and the rows only disappear together.
AnswerInv ==
    /\ AnswerHasSummaryAndEvent
    /\ \A s \in Streams : pc[s] \in {"idle", "create", "prep", "ready"} => event[s] = "step"
    /\ \A s \in Streams : pc[s] = "finish" => event[s] # "step"
    /\ \A s \in Streams :
          exists /\ pc[s] \in {"remember", "loop", "finish"} /\ event[s] # "step" => Told(s)
    /\ \A s \in Streams : exists /\ pc[s] \in {"summary", "answer"} => Told(s)
    /\ \A s \in Streams :
          exists /\ pc[s] = "answer" => [run |-> target[s], by |-> s] \in summaries

LEMMA AnswerInvInit == Init => AnswerInv
BY DEF Init, AnswerInv, AnswerHasSummaryAndEvent

LEMMA AnswerInvStep == TypeInv /\ AnswerInv /\ [Next]_vars => AnswerInv'
<1> SUFFICES ASSUME TypeInv, AnswerInv, [Next]_vars PROVE AnswerInv'
  OBVIOUS
<1> USE ConstantsAssumption
    DEF AnswerInv, AnswerHasSummaryAndEvent, Told, TypeInv, TypeOK, TargetsKnown, tables, session,
        redis, streamVars, ctlVars, Goto, RuntimeEvents,
        TerminalEvents, MessageRow
<1>1. ASSUME NEW p \in Posts, CheckNoActiveRun(p) PROVE AnswerInv'
  BY <1>1 DEF CheckNoActiveRun
<1>2. ASSUME NEW p \in Posts, SaveUserMessage(p) PROVE AnswerInv'
  BY <1>2 DEF SaveUserMessage
<1>3. ASSUME NEW p \in Posts, CreateMessageRun(p) PROVE AnswerInv'
  BY <1>3 DEF CreateMessageRun, CreateRunRow
<1>4. ASSUME NEW p \in Posts, PostFails(p) PROVE AnswerInv'
  BY <1>4 DEF PostFails
<1>5. ASSUME NEW s \in Streams, NEW r \in Runs, OpenRunStream(s, r) PROVE AnswerInv'
  BY <1>5 DEF OpenRunStream
<1>6. ASSUME NEW s \in Streams, OpenSessionStream(s) PROVE AnswerInv'
  BY <1>6 DEF OpenSessionStream
<1>7. ASSUME NEW s \in Streams, OpenPostRun(s) PROVE AnswerInv'
  BY <1>7 DEF OpenPostRun
<1>8. ASSUME NEW s \in Streams, CreateStreamRun(s) PROVE AnswerInv'
  BY <1>8 DEF CreateStreamRun, CreateRunRow
<1>9. ASSUME NEW s \in Streams, StartRun(s) PROVE AnswerInv'
  BY <1>9 DEF StartRun, StartRunRow
<1>10. ASSUME NEW s \in Streams, EnterLoop(s) PROVE AnswerInv'
  BY <1>10 DEF EnterLoop
<1>11. ASSUME NEW s \in Streams, NextEvent(s) PROVE AnswerInv'
  BY <1>11 DEF NextEvent, Offers
<1>12. ASSUME NEW s \in Streams, AppendEvent(s) PROVE AnswerInv'
  <2> DEFINE row == [run |-> target[s], by |-> s, seq |-> count[s] + 1, type |-> event[s],
                     late |-> (target[s] \in cancelled)]
  <2>1. events' = events \cup {row}
    BY <1>12 DEF AppendEvent, Persist, NextOwnSeq
  <2>2. row.run = target[s] /\ row.by = s /\ row.type = event[s] /\ row.seq = count[s] + 1
    OBVIOUS
  <2> HIDE DEF row
  <2>3. event[s] \in TerminalEvents => Told(s)'
    BY <1>12, <2>1, <2>2 DEF AppendEvent
  <2>4. \A t \in Streams : Told(t) => Told(t)'
    BY <1>12, <2>1 DEF AppendEvent
  <2>5. AnswerHasSummaryAndEvent'
    BY <1>12, <2>1 DEF AppendEvent
  <2> QED
    BY <1>12, <2>3, <2>4, <2>5 DEF AppendEvent
<1>13. ASSUME NEW s \in Streams, RememberSeq(s) PROVE AnswerInv'
  BY <1>13 DEF RememberSeq
<1>14. ASSUME NEW s \in Streams, LoopEnds(s) PROVE AnswerInv'
  BY <1>14 DEF LoopEnds
<1>15. ASSUME NEW s \in Streams, FinishRun(s) PROVE AnswerInv'
  BY <1>15 DEF FinishRun, CompleteRunRow, DeriveStatus
<1>16. ASSUME NEW s \in Streams, SaveSummary(s) PROVE AnswerInv'
  BY <1>16 DEF SaveSummary
<1>17. ASSUME NEW s \in Streams, SaveAnswer(s) PROVE AnswerInv'
  <2> DEFINE answer == [role |-> "assistant", by |-> s, run |-> target[s]]
  <2>1. messages' = messages \cup {answer}
    BY <1>17 DEF SaveAnswer
  <2>2. answer.run = target[s] /\ answer.by = s
    OBVIOUS
  <2> HIDE DEF answer
  <2>3. [run |-> target[s], by |-> s] \in summaries /\ Told(s)
    BY <1>17 DEF SaveAnswer
  <2>4. AnswerHasSummaryAndEvent'
    BY <1>17, <2>1, <2>2, <2>3 DEF SaveAnswer
  <2> QED
    BY <1>17, <2>4 DEF SaveAnswer
<1>18. ASSUME NEW s \in Streams, ExportEvent(s) PROVE AnswerInv'
  <2> DEFINE row == [run |-> target[s], by |-> s, seq |-> count[s] + 2, type |-> "export_created",
                     late |-> FALSE]
  <2>1. events' = events \cup {row}
    BY <1>18 DEF ExportEvent, Persist, NextOwnSeq
  <2>2. row.run = target[s] /\ row.by = s /\ row.type = "export_created" /\ row.seq = count[s] + 2
    OBVIOUS
  <2> HIDE DEF row
  <2>3. \A t \in Streams : Told(t) => Told(t)'
    BY <1>18, <2>1 DEF ExportEvent
  <2>4. AnswerHasSummaryAndEvent'
    BY <1>18, <2>1 DEF ExportEvent
  <2> QED
    BY <1>18, <2>3, <2>4 DEF ExportEvent
<1>19. ASSUME NEW s \in Streams, NoExport(s) PROVE AnswerInv'
  BY <1>19 DEF NoExport
<1>20. ASSUME NEW s \in Streams, RememberExportSeq(s) PROVE AnswerInv'
  BY <1>20 DEF RememberExportSeq, NextOwnSeq
<1>21. ASSUME NEW s \in Streams, CompleteCancelled(s) PROVE AnswerInv'
  BY <1>21 DEF CompleteCancelled, CompleteRunRow
<1>22. ASSUME NEW s \in Streams, RecordFailure(s) PROVE AnswerInv'
  <2> DEFINE row == [run |-> target[s], by |-> s, seq |-> count[s] + 2, type |-> "run_failed",
                     late |-> FALSE]
  <2>1. events' = events \cup {row}
    BY <1>22 DEF RecordFailure, Persist, NextOwnSeq
  <2>2. row.run = target[s] /\ row.by = s /\ row.type = "run_failed" /\ row.seq = count[s] + 2
    OBVIOUS
  <2> HIDE DEF row
  <2>3. \A t \in Streams : Told(t) => Told(t)'
    BY <1>22, <2>1 DEF RecordFailure
  <2>4. AnswerHasSummaryAndEvent'
    BY <1>22, <2>1 DEF RecordFailure
  <2> QED
    BY <1>22, <2>3, <2>4 DEF RecordFailure
<1>23. ASSUME NEW s \in Streams, CompleteFailed(s) PROVE AnswerInv'
  BY <1>23 DEF CompleteFailed, CompleteRunRow
<1>24. ASSUME NEW s \in Streams, CleanFlag(s) PROVE AnswerInv'
  BY <1>24 DEF CleanFlag
<1>25. ASSUME NEW s \in Streams, CleanRun(s) PROVE AnswerInv'
  BY <1>25 DEF CleanRun
<1>26. ASSUME NEW s \in Streams, CleanSession(s) PROVE AnswerInv'
  BY <1>26 DEF CleanSession
<1>27. ASSUME NEW s \in Streams, EventRejected(s) PROVE AnswerInv'
  BY <1>27 DEF EventRejected, Raise
<1>28. ASSUME NEW s \in Streams, RowRejected(s) PROVE AnswerInv'
  BY <1>28 DEF RowRejected, Inserts
<1>29. ASSUME NEW s \in Streams, RuntimeRaises(s) PROVE AnswerInv'
  BY <1>29 DEF RuntimeRaises, Raise
<1>30. ASSUME NEW s \in Streams, StoreRaises(s) PROVE AnswerInv'
  BY <1>30 DEF StoreRaises, Raise, TryBlock
<1>31. ASSUME NEW s \in Streams, Disconnect(s) PROVE AnswerInv'
  BY <1>31 DEF Disconnect, TryBlock
<1>32. ASSUME NEW s \in Streams, Abort(s) PROVE AnswerInv'
  BY <1>32 DEF Abort
<1>33. ASSUME NEW c \in Ctls, NEW r \in Runs, LookupCancel(c, r) PROVE AnswerInv'
  BY <1>33 DEF LookupCancel
<1>34. ASSUME NEW c \in Ctls, LookupDelete(c) PROVE AnswerInv'
  BY <1>34 DEF LookupDelete
<1>35. ASSUME NEW c \in Ctls, RequestCancel(c) PROVE AnswerInv'
  BY <1>35 DEF RequestCancel
<1>36. ASSUME NEW c \in Ctls, ApplyCancel(c) PROVE AnswerInv'
  BY <1>36 DEF ApplyCancel, CompleteRunRow
<1>37. ASSUME NEW c \in Ctls, ApplyDelete(c) PROVE AnswerInv'
  BY <1>37 DEF ApplyDelete
<1>38. ASSUME NEW c \in Ctls, CtlFails(c) PROVE AnswerInv'
  BY <1>38 DEF CtlFails
<1>39. ASSUME NEW c \in Ctls, NEW archive \in BOOLEAN, SetArchived(c, archive) PROVE AnswerInv'
  BY <1>39 DEF SetArchived
<1>40. ASSUME Crash PROVE AnswerInv'
  BY <1>40 DEF Crash
<1>41. ASSUME UNCHANGED vars PROVE AnswerInv'
  BY <1>41 DEF vars
<1> HIDE DEF AnswerInv, AnswerHasSummaryAndEvent, Told, TypeInv, TypeOK, TargetsKnown, tables, session,
        redis, streamVars, ctlVars, Goto, RuntimeEvents,
        TerminalEvents, MessageRow
<1> QED
  BY <1>1, <1>2, <1>3, <1>4, <1>5, <1>6, <1>7, <1>8, <1>9, <1>10, <1>11,
     <1>12, <1>13, <1>14, <1>15, <1>16, <1>17, <1>18, <1>19, <1>20, <1>21,
     <1>22, <1>23, <1>24, <1>25, <1>26, <1>27, <1>28, <1>29, <1>30, <1>31,
     <1>32, <1>33, <1>34, <1>35, <1>36, <1>37, <1>38, <1>39, <1>40, <1>41
     DEF Next, PostStep, OpenStep, Progress, Mishap, CtlStep

\* An assistant message comes with the summary and the terminal event of its
\* run, written by the same execution.
THEOREM AnswersAreSummarized == Spec => []AnswerHasSummaryAndEvent
<1>1. AnswerInv => AnswerHasSummaryAndEvent
  BY DEF AnswerInv
<1> QED
  BY TypeInvInit, TypeInvStep, AnswerInvInit, AnswerInvStep, <1>1, PTL DEF Spec

---------------------------------------------------------------------------
(* The cursor names a persisted event *)

HasSeq(n) == \E e \in events : e.seq = n

\* Whoever is about to write a cursor has persisted an event of that number.
CursorInv ==
    /\ CursorIsPersisted
    /\ \A s \in Streams : exists /\ pc[s] = "remember" => HasSeq(count[s])
    /\ \A s \in Streams : exists /\ pc[s] = "exported" => HasSeq(count[s] + 2)

LEMMA CursorInvInit == Init => CursorInv
BY DEF Init, CursorInv, CursorIsPersisted

LEMMA CursorInvStep == TypeInv /\ CursorInv /\ [Next]_vars => CursorInv'
<1> SUFFICES ASSUME TypeInv, CursorInv, [Next]_vars PROVE CursorInv'
  OBVIOUS
<1> USE ConstantsAssumption
    DEF CursorInv, CursorIsPersisted, HasSeq, TypeInv, TypeOK, TargetsKnown, tables, session,
        redis, streamVars, ctlVars, Goto
<1>1. ASSUME NEW p \in Posts, CheckNoActiveRun(p) PROVE CursorInv'
  BY <1>1 DEF CheckNoActiveRun
<1>2. ASSUME NEW p \in Posts, SaveUserMessage(p) PROVE CursorInv'
  BY <1>2 DEF SaveUserMessage
<1>3. ASSUME NEW p \in Posts, CreateMessageRun(p) PROVE CursorInv'
  BY <1>3 DEF CreateMessageRun, CreateRunRow
<1>4. ASSUME NEW p \in Posts, PostFails(p) PROVE CursorInv'
  BY <1>4 DEF PostFails
<1>5. ASSUME NEW s \in Streams, NEW r \in Runs, OpenRunStream(s, r) PROVE CursorInv'
  BY <1>5 DEF OpenRunStream
<1>6. ASSUME NEW s \in Streams, OpenSessionStream(s) PROVE CursorInv'
  BY <1>6 DEF OpenSessionStream
<1>7. ASSUME NEW s \in Streams, OpenPostRun(s) PROVE CursorInv'
  BY <1>7 DEF OpenPostRun
<1>8. ASSUME NEW s \in Streams, CreateStreamRun(s) PROVE CursorInv'
  BY <1>8 DEF CreateStreamRun, CreateRunRow
<1>9. ASSUME NEW s \in Streams, StartRun(s) PROVE CursorInv'
  BY <1>9 DEF StartRun, StartRunRow
<1>10. ASSUME NEW s \in Streams, EnterLoop(s) PROVE CursorInv'
  BY <1>10 DEF EnterLoop
<1>11. ASSUME NEW s \in Streams, NextEvent(s) PROVE CursorInv'
  BY <1>11 DEF NextEvent, Offers
<1>12. ASSUME NEW s \in Streams, AppendEvent(s) PROVE CursorInv'
  <2> DEFINE row == [run |-> target[s], by |-> s, seq |-> count[s] + 1, type |-> event[s],
                     late |-> (target[s] \in cancelled)]
  <2>1. events' = events \cup {row}
    BY <1>12 DEF AppendEvent, Persist, NextOwnSeq
  <2>2. row.run = target[s] /\ row.by = s /\ row.type = event[s] /\ row.seq = count[s] + 1
    OBVIOUS
  <2> HIDE DEF row
  <2>3. \E e \in events' : e.seq = count[s] + 1
    BY <1>12, <2>1, <2>2 DEF AppendEvent
  <2>4. \A n \in Nat : HasSeq(n) => HasSeq(n)'
    BY <2>1
  <2> QED
    BY <1>12, <2>3, <2>4 DEF AppendEvent
<1>13. ASSUME NEW s \in Streams, RememberSeq(s) PROVE CursorInv'
  BY <1>13 DEF RememberSeq
<1>14. ASSUME NEW s \in Streams, LoopEnds(s) PROVE CursorInv'
  BY <1>14 DEF LoopEnds
<1>15. ASSUME NEW s \in Streams, FinishRun(s) PROVE CursorInv'
  BY <1>15 DEF FinishRun, CompleteRunRow, DeriveStatus
<1>16. ASSUME NEW s \in Streams, SaveSummary(s) PROVE CursorInv'
  BY <1>16 DEF SaveSummary
<1>17. ASSUME NEW s \in Streams, SaveAnswer(s) PROVE CursorInv'
  BY <1>17 DEF SaveAnswer
<1>18. ASSUME NEW s \in Streams, ExportEvent(s) PROVE CursorInv'
  <2> DEFINE row == [run |-> target[s], by |-> s, seq |-> count[s] + 2, type |-> "export_created",
                     late |-> FALSE]
  <2>1. events' = events \cup {row}
    BY <1>18 DEF ExportEvent, Persist, NextOwnSeq
  <2>2. row.run = target[s] /\ row.by = s /\ row.type = "export_created" /\ row.seq = count[s] + 2
    OBVIOUS
  <2> HIDE DEF row
  <2>3. \E e \in events' : e.seq = count[s] + 2
    BY <1>18, <2>1, <2>2 DEF ExportEvent
  <2>4. \A n \in Nat : HasSeq(n) => HasSeq(n)'
    BY <2>1
  <2> QED
    BY <1>18, <2>3, <2>4 DEF ExportEvent
<1>19. ASSUME NEW s \in Streams, NoExport(s) PROVE CursorInv'
  BY <1>19 DEF NoExport
<1>20. ASSUME NEW s \in Streams, RememberExportSeq(s) PROVE CursorInv'
  BY <1>20 DEF RememberExportSeq, NextOwnSeq
<1>21. ASSUME NEW s \in Streams, CompleteCancelled(s) PROVE CursorInv'
  BY <1>21 DEF CompleteCancelled, CompleteRunRow
<1>22. ASSUME NEW s \in Streams, RecordFailure(s) PROVE CursorInv'
  <2> DEFINE row == [run |-> target[s], by |-> s, seq |-> count[s] + 2, type |-> "run_failed",
                     late |-> FALSE]
  <2>1. events' = events \cup {row}
    BY <1>22 DEF RecordFailure, Persist, NextOwnSeq
  <2>2. row.run = target[s] /\ row.by = s /\ row.type = "run_failed" /\ row.seq = count[s] + 2
    OBVIOUS
  <2> HIDE DEF row
  <2>3. \E e \in events' : e.seq = count[s] + 2
    BY <1>22, <2>1, <2>2 DEF RecordFailure
  <2>4. \A n \in Nat : HasSeq(n) => HasSeq(n)'
    BY <2>1
  <2> QED
    BY <1>22, <2>3, <2>4 DEF RecordFailure
<1>23. ASSUME NEW s \in Streams, CompleteFailed(s) PROVE CursorInv'
  BY <1>23 DEF CompleteFailed, CompleteRunRow
<1>24. ASSUME NEW s \in Streams, CleanFlag(s) PROVE CursorInv'
  BY <1>24 DEF CleanFlag
<1>25. ASSUME NEW s \in Streams, CleanRun(s) PROVE CursorInv'
  BY <1>25 DEF CleanRun
<1>26. ASSUME NEW s \in Streams, CleanSession(s) PROVE CursorInv'
  BY <1>26 DEF CleanSession
<1>27. ASSUME NEW s \in Streams, EventRejected(s) PROVE CursorInv'
  BY <1>27 DEF EventRejected, Raise
<1>28. ASSUME NEW s \in Streams, RowRejected(s) PROVE CursorInv'
  BY <1>28 DEF RowRejected, Inserts
<1>29. ASSUME NEW s \in Streams, RuntimeRaises(s) PROVE CursorInv'
  BY <1>29 DEF RuntimeRaises, Raise
<1>30. ASSUME NEW s \in Streams, StoreRaises(s) PROVE CursorInv'
  BY <1>30 DEF StoreRaises, Raise, TryBlock
<1>31. ASSUME NEW s \in Streams, Disconnect(s) PROVE CursorInv'
  BY <1>31 DEF Disconnect, TryBlock
<1>32. ASSUME NEW s \in Streams, Abort(s) PROVE CursorInv'
  BY <1>32 DEF Abort
<1>33. ASSUME NEW c \in Ctls, NEW r \in Runs, LookupCancel(c, r) PROVE CursorInv'
  BY <1>33 DEF LookupCancel
<1>34. ASSUME NEW c \in Ctls, LookupDelete(c) PROVE CursorInv'
  BY <1>34 DEF LookupDelete
<1>35. ASSUME NEW c \in Ctls, RequestCancel(c) PROVE CursorInv'
  BY <1>35 DEF RequestCancel
<1>36. ASSUME NEW c \in Ctls, ApplyCancel(c) PROVE CursorInv'
  BY <1>36 DEF ApplyCancel, CompleteRunRow
<1>37. ASSUME NEW c \in Ctls, ApplyDelete(c) PROVE CursorInv'
  BY <1>37 DEF ApplyDelete
<1>38. ASSUME NEW c \in Ctls, CtlFails(c) PROVE CursorInv'
  BY <1>38 DEF CtlFails
<1>39. ASSUME NEW c \in Ctls, NEW archive \in BOOLEAN, SetArchived(c, archive) PROVE CursorInv'
  BY <1>39 DEF SetArchived
<1>40. ASSUME Crash PROVE CursorInv'
  BY <1>40 DEF Crash
<1>41. ASSUME UNCHANGED vars PROVE CursorInv'
  BY <1>41 DEF vars
<1> HIDE DEF CursorInv, CursorIsPersisted, HasSeq, TypeInv, TypeOK, TargetsKnown, tables, session,
        redis, streamVars, ctlVars, Goto
<1> QED
  BY <1>1, <1>2, <1>3, <1>4, <1>5, <1>6, <1>7, <1>8, <1>9, <1>10, <1>11,
     <1>12, <1>13, <1>14, <1>15, <1>16, <1>17, <1>18, <1>19, <1>20, <1>21,
     <1>22, <1>23, <1>24, <1>25, <1>26, <1>27, <1>28, <1>29, <1>30, <1>31,
     <1>32, <1>33, <1>34, <1>35, <1>36, <1>37, <1>38, <1>39, <1>40, <1>41
     DEF Next, PostStep, OpenStep, Progress, Mishap, CtlStep

\* The redis cursor of a session is the number of an event in its database.
THEOREM CursorsArePersisted == Spec => []CursorIsPersisted
<1>1. CursorInv => CursorIsPersisted
  BY DEF CursorInv
<1> QED
  BY TypeInvInit, TypeInvStep, CursorInvInit, CursorInvStep, <1>1, PTL DEF Spec
=============================================================================
