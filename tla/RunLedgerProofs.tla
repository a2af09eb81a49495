---------------------------- MODULE RunLedgerProofs ----------------------------
(***************************************************************************)
(* For every value of the constants RunLifecycle implements RunLedger, the *)
(* numbers of the events of an execution grow, and the two statements of   *)
(* the design that the code breaks fail only by the overlaps named here.   *)
(***************************************************************************)
EXTENDS RunLifecycleProofs, FiniteSetTheorems

---------------------------------------------------------------------------
(* Rows that handlers work on were created *)

Created(r) == r \in Runs => run[r] # "none"

\* A run that a handler or the session names has been created, and its row goes
\* only with the session.
RowInv ==
    /\ \A s \in Streams : Created(target[s])
    /\ \A c \in Ctls : Created(ctlRun[c])
    /\ Created(current)
    /\ exists => \A r \in Runs : run[r] # "deleted"

LEMMA RowInvInit == Init => RowInv
BY ConstantsAssumption DEF Init, RowInv, Created

LEMMA RowInvStep == TypeInv /\ RowInv /\ [Next]_vars => RowInv'
<1> SUFFICES ASSUME TypeInv, RowInv, [Next]_vars PROVE RowInv'
  OBVIOUS
<1> USE ConstantsAssumption
    DEF RowInv, Created, TypeInv, TypeOK, TargetsKnown, tables, session,
        redis, streamVars, ctlVars, Goto
<1>1. ASSUME NEW p \in Posts, CheckNoActiveRun(p) PROVE RowInv'
  BY <1>1 DEF CheckNoActiveRun
<1>2. ASSUME NEW p \in Posts, SaveUserMessage(p) PROVE RowInv'
  BY <1>2 DEF SaveUserMessage
<1>3. ASSUME NEW p \in Posts, CreateMessageRun(p) PROVE RowInv'
  BY <1>3 DEF CreateMessageRun, CreateRunRow
<1>4. ASSUME NEW p \in Posts, PostFails(p) PROVE RowInv'
  BY <1>4 DEF PostFails
<1>5. ASSUME NEW s \in Streams, NEW r \in Runs, OpenRunStream(s, r) PROVE RowInv'
  BY <1>5 DEF OpenRunStream
<1>6. ASSUME NEW s \in Streams, OpenSessionStream(s) PROVE RowInv'
  BY <1>6 DEF OpenSessionStream
<1>7. ASSUME NEW s \in Streams, OpenPostRun(s) PROVE RowInv'
  BY <1>7 DEF OpenPostRun
<1>8. ASSUME NEW s \in Streams, CreateStreamRun(s) PROVE RowInv'
  BY <1>8 DEF CreateStreamRun, CreateRunRow
<1>9. ASSUME NEW s \in Streams, StartRun(s) PROVE RowInv'
  BY <1>9 DEF StartRun, StartRunRow
<1>10. ASSUME NEW s \in Streams, EnterLoop(s) PROVE RowInv'
  BY <1>10 DEF EnterLoop
<1>11. ASSUME NEW s \in Streams, NextEvent(s) PROVE RowInv'
  BY <1>11 DEF NextEvent, Offers
<1>12. ASSUME NEW s \in Streams, AppendEvent(s) PROVE RowInv'
  BY <1>12 DEF AppendEvent, Persist
<1>13. ASSUME NEW s \in Streams, RememberSeq(s) PROVE RowInv'
  BY <1>13 DEF RememberSeq
<1>14. ASSUME NEW s \in Streams, LoopEnds(s) PROVE RowInv'
  BY <1>14 DEF LoopEnds
<1>15. ASSUME NEW s \in Streams, FinishRun(s) PROVE RowInv'
  BY <1>15 DEF FinishRun, CompleteRunRow, DeriveStatus
<1>16. ASSUME NEW s \in Streams, SaveSummary(s) PROVE RowInv'
  BY <1>16 DEF SaveSummary
<1>17. ASSUME NEW s \in Streams, SaveAnswer(s) PROVE RowInv'
  BY <1>17 DEF SaveAnswer
<1>18. ASSUME NEW s \in Streams, ExportEvent(s) PROVE RowInv'
  BY <1>18 DEF ExportEvent, Persist, NextOwnSeq
<1>19. ASSUME NEW s \in Streams, NoExport(s) PROVE RowInv'
  BY <1>19 DEF NoExport
<1>20. ASSUME NEW s \in Streams, RememberExportSeq(s) PROVE RowInv'
  BY <1>20 DEF RememberExportSeq, NextOwnSeq
<1>21. ASSUME NEW s \in Streams, CompleteCancelled(s) PROVE RowInv'
  BY <1>21 DEF CompleteCancelled, CompleteRunRow
<1>22. ASSUME NEW s \in Streams, RecordFailure(s) PROVE RowInv'
  BY <1>22 DEF RecordFailure, Persist, NextOwnSeq
<1>23. ASSUME NEW s \in Streams, CompleteFailed(s) PROVE RowInv'
  BY <1>23 DEF CompleteFailed, CompleteRunRow
<1>24. ASSUME NEW s \in Streams, CleanFlag(s) PROVE RowInv'
  BY <1>24 DEF CleanFlag
<1>25. ASSUME NEW s \in Streams, CleanRun(s) PROVE RowInv'
  BY <1>25 DEF CleanRun
<1>26. ASSUME NEW s \in Streams, CleanSession(s) PROVE RowInv'
  BY <1>26 DEF CleanSession
<1>27. ASSUME NEW s \in Streams, EventRejected(s) PROVE RowInv'
  BY <1>27 DEF EventRejected, Raise
<1>28. ASSUME NEW s \in Streams, RowRejected(s) PROVE RowInv'
  BY <1>28 DEF RowRejected, Inserts
<1>29. ASSUME NEW s \in Streams, RuntimeRaises(s) PROVE RowInv'
  BY <1>29 DEF RuntimeRaises, Raise
<1>30. ASSUME NEW s \in Streams, StoreRaises(s) PROVE RowInv'
  BY <1>30 DEF StoreRaises, Raise, TryBlock
<1>31. ASSUME NEW s \in Streams, Disconnect(s) PROVE RowInv'
  BY <1>31 DEF Disconnect, TryBlock
<1>32. ASSUME NEW s \in Streams, Abort(s) PROVE RowInv'
  BY <1>32 DEF Abort
<1>33. ASSUME NEW c \in Ctls, NEW r \in Runs, LookupCancel(c, r) PROVE RowInv'
  BY <1>33 DEF LookupCancel
<1>34. ASSUME NEW c \in Ctls, LookupDelete(c) PROVE RowInv'
  BY <1>34 DEF LookupDelete
<1>35. ASSUME NEW c \in Ctls, RequestCancel(c) PROVE RowInv'
  BY <1>35 DEF RequestCancel
<1>36. ASSUME NEW c \in Ctls, ApplyCancel(c) PROVE RowInv'
  BY <1>36 DEF ApplyCancel, CompleteRunRow
<1>37. ASSUME NEW c \in Ctls, ApplyDelete(c) PROVE RowInv'
  BY <1>37 DEF ApplyDelete
<1>38. ASSUME NEW c \in Ctls, CtlFails(c) PROVE RowInv'
  BY <1>38 DEF CtlFails
<1>39. ASSUME NEW c \in Ctls, NEW archive \in BOOLEAN, SetArchived(c, archive) PROVE RowInv'
  BY <1>39 DEF SetArchived
<1>40. ASSUME Crash PROVE RowInv'
  BY <1>40 DEF Crash
<1>41. ASSUME UNCHANGED vars PROVE RowInv'
  BY <1>41 DEF vars
<1> HIDE DEF RowInv, Created, TypeInv, TypeOK, TargetsKnown, tables, session,
        redis, streamVars, ctlVars, Goto
<1> QED
  BY <1>1, <1>2, <1>3, <1>4, <1>5, <1>6, <1>7, <1>8, <1>9, <1>10, <1>11,
     <1>12, <1>13, <1>14, <1>15, <1>16, <1>17, <1>18, <1>19, <1>20, <1>21,
     <1>22, <1>23, <1>24, <1>25, <1>26, <1>27, <1>28, <1>29, <1>30, <1>31,
     <1>32, <1>33, <1>34, <1>35, <1>36, <1>37, <1>38, <1>39, <1>40, <1>41
     DEF Next, PostStep, OpenStep, Progress, Mishap, CtlStep

---------------------------------------------------------------------------
(* The ledger's steps *)

recorded == [r \in Runs |-> Evidence(r)]

Alive(r) == run[r] \notin {"none", "deleted"}

\* A step of the ledger, seen through the refinement mapping.
LedgerStep == Ledger!Next \/ UNCHANGED <<run, recorded>>

LEMMA EvidenceOf ==
  ASSUME NEW r \in Runs, NEW o
  PROVE  o \in Evidence(r) <=>
           \/ \E e \in events : /\ e.run = r /\ e.type \in TerminalEvents
                                /\ o = DeriveStatus(e.type)
           \/ r \in cancelled /\ o = "cancelled"
BY DEF Evidence

LEMMA EvidenceAfter ==
  ASSUME NEW r \in Runs, NEW o
  PROVE  o \in Evidence(r)' <=>
           \/ \E e \in events' : /\ e.run = r /\ e.type \in TerminalEvents
                                 /\ o = DeriveStatus(e.type)
           \/ r \in cancelled' /\ o = "cancelled"
BY DEF Evidence

LEMMA EvidenceType == ASSUME NEW r \in Runs PROVE Evidence(r) \subseteq Ledger!Outcomes
BY EvidenceOf DEF Ledger!Outcomes, DeriveStatus

LEMMA EventIsEvidence ==
  ASSUME NEW r \in Runs, NEW type \in TerminalEvents, HasEvent(r, type)
  PROVE  DeriveStatus(type) \in Evidence(r) /\ DeriveStatus(type) \in Ledger!Outcomes
BY EvidenceOf DEF HasEvent, Ledger!Outcomes, DeriveStatus

LEMMA FlagIsEvidence ==
  ASSUME NEW r \in Runs, r \in cancelled
  PROVE  "cancelled" \in Evidence(r) /\ "cancelled" \in Ledger!Outcomes
BY EvidenceOf DEF Ledger!Outcomes

LEMMA KeptEvidence == ASSUME UNCHANGED <<events, cancelled>> PROVE recorded' = recorded
BY DEF recorded, Evidence

LEMMA QuietStep == ASSUME UNCHANGED <<run, events, cancelled>> PROVE LedgerStep
BY KeptEvidence DEF LedgerStep

LEMMA CreateStep ==
  ASSUME NEW r \in Runs, run[r] = "none", run' = [run EXCEPT ![r] = "created"],
         UNCHANGED <<events, cancelled>>
  PROVE  LedgerStep
BY KeptEvidence DEF LedgerStep, Ledger!Next, Ledger!Create, recorded

LEMMA StartStep ==
  ASSUME NEW r \in Runs, Alive(r), run' = [run EXCEPT ![r] = "running"],
         UNCHANGED <<events, cancelled>>
  PROVE  LedgerStep
BY KeptEvidence DEF LedgerStep, Ledger!Next, Ledger!Start, Ledger!Live, Alive, recorded

LEMMA SettleStep ==
  ASSUME NEW r \in Runs, Alive(r), NEW o \in Ledger!Outcomes, o \in Evidence(r),
         run' = [run EXCEPT ![r] = o], UNCHANGED <<events, cancelled>>
  PROVE  LedgerStep
<1>1. o \in recorded[r]
  BY DEF recorded
<1>2. Ledger!Settle(r, o)
  BY <1>1, KeptEvidence DEF Ledger!Settle, Ledger!Live, Alive, recorded
<1> QED
  BY <1>2 DEF LedgerStep, Ledger!Next

\* One more fact about one run.
LEMMA RecordStep ==
  ASSUME NEW r \in Runs, run[r] # "none", NEW o \in Ledger!Outcomes, UNCHANGED run,
         \A q \in Runs : Evidence(q)' = IF q = r THEN Evidence(q) \cup {o} ELSE Evidence(q)
  PROVE  LedgerStep
<1>1. recorded' = [recorded EXCEPT ![r] = @ \cup {o}]
  BY DEF recorded
<1>2. Ledger!Record(r, o)
  BY <1>1 DEF Ledger!Record, recorded
<1> QED
  BY <1>2 DEF LedgerStep, Ledger!Next

\* An execution adds a terminal event.
LEMMA RowStep ==
  ASSUME NEW r \in Runs, run[r] # "none", NEW row, row.run = r, row.type \in TerminalEvents,
         events' = events \cup {row}, UNCHANGED <<run, cancelled>>
  PROVE  LedgerStep
<1> DEFINE o == DeriveStatus(row.type)
<1>1. o \in Ledger!Outcomes
  BY DEF DeriveStatus, Ledger!Outcomes
<1>2. ASSUME NEW q \in Runs
      PROVE  Evidence(q)' = IF q = r THEN Evidence(q) \cup {o} ELSE Evidence(q)
  <2>1. ASSUME NEW x PROVE x \in Evidence(q)' <=> x \in Evidence(q) \/ (q = r /\ x = o)
    BY EvidenceOf, EvidenceAfter
  <2>2. CASE q = r
    BY <2>1, <2>2
  <2>3. CASE q # r
    BY <2>1, <2>3
  <2> QED
    BY <2>2, <2>3
<1> HIDE DEF o
<1> QED
  BY <1>1, <1>2, RecordStep

\* An execution adds any other event.
LEMMA QuietRowStep ==
  ASSUME NEW row, row.type \notin TerminalEvents, events' = events \cup {row},
         UNCHANGED <<run, cancelled>>
  PROVE  LedgerStep
<1>1. ASSUME NEW q \in Runs PROVE Evidence(q)' = Evidence(q)
  <2>1. ASSUME NEW x PROVE x \in Evidence(q)' <=> x \in Evidence(q)
    BY EvidenceOf, EvidenceAfter
  <2> QED
    BY <2>1
<1>2. recorded' = recorded
  BY <1>1 DEF recorded
<1> QED
  BY <1>2 DEF LedgerStep

\* A cancel flag is set.
LEMMA FlagStep ==
  ASSUME NEW r \in Runs, run[r] # "none", cancelled' = cancelled \cup {r},
         UNCHANGED <<run, events>>
  PROVE  LedgerStep
<1>1. "cancelled" \in Ledger!Outcomes
  BY DEF Ledger!Outcomes
<1>2. ASSUME NEW q \in Runs
      PROVE  Evidence(q)' = IF q = r THEN Evidence(q) \cup {"cancelled"} ELSE Evidence(q)
  <2>1. ASSUME NEW x
        PROVE  x \in Evidence(q)' <=> x \in Evidence(q) \/ (q = r /\ x = "cancelled")
    BY EvidenceOf, EvidenceAfter
  <2>2. CASE q = r
    BY <2>1, <2>2
  <2>3. CASE q # r
    BY <2>1, <2>3
  <2> QED
    BY <2>2, <2>3
<1> QED
  BY <1>1, <1>2, RecordStep

\* The session is deleted.
LEMMA RemoveStep ==
  ASSUME run' = [r \in Runs |-> IF run[r] = "none" THEN "none" ELSE "deleted"],
         events' = {}, UNCHANGED cancelled
  PROVE  LedgerStep
<1>1. ASSUME NEW r \in Runs
      PROVE  Evidence(r)' \subseteq Evidence(r) /\ Evidence(r)' \subseteq Ledger!Outcomes
  <2>1. ASSUME NEW x \in Evidence(r)' PROVE x \in Evidence(r)
    BY <2>1, EvidenceOf, EvidenceAfter
  <2> QED
    BY <2>1, EvidenceType
<1>2. /\ recorded' \in [Runs -> SUBSET Ledger!Outcomes]
      /\ \A r \in Runs : recorded'[r] \subseteq recorded[r]
  BY <1>1 DEF recorded
<1>3. Ledger!RemoveAll
  BY <1>2 DEF Ledger!RemoveAll, recorded
<1> QED
  BY <1>3 DEF LedgerStep, Ledger!Next

LEMMA LedgerStepHolds ==
    TypeInv /\ CancelInv /\ EventInv /\ RowInv /\ [Next]_vars => LedgerStep
<1> SUFFICES ASSUME TypeInv, CancelInv, EventInv, RowInv, [Next]_vars PROVE LedgerStep
  OBVIOUS
<1> USE ConstantsAssumption
    DEF RowInv, Alive, Created, TypeInv, TypeOK, TargetsKnown, tables, session,
        redis, streamVars, ctlVars, Goto
<1>1. ASSUME NEW p \in Posts, CheckNoActiveRun(p) PROVE LedgerStep
  BY <1>1, QuietStep DEF CheckNoActiveRun
<1>2. ASSUME NEW p \in Posts, SaveUserMessage(p) PROVE LedgerStep
  BY <1>2, QuietStep DEF SaveUserMessage
<1>3. ASSUME NEW p \in Posts, CreateMessageRun(p) PROVE LedgerStep
  <2>1. PICK r \in Runs : run[r] = "none" /\ run' = [run EXCEPT ![r] = "created"]
    BY <1>3 DEF CreateMessageRun, CreateRunRow
  <2>2. UNCHANGED <<events, cancelled>>
    BY <1>3 DEF CreateMessageRun
  <2> QED
    BY <2>1, <2>2, CreateStep
<1>4. ASSUME NEW p \in Posts, PostFails(p) PROVE LedgerStep
  BY <1>4, QuietStep DEF PostFails
<1>5. ASSUME NEW s \in Streams, NEW r \in Runs, OpenRunStream(s, r) PROVE LedgerStep
  BY <1>5, QuietStep DEF OpenRunStream
<1>6. ASSUME NEW s \in Streams, OpenSessionStream(s) PROVE LedgerStep
  BY <1>6, QuietStep DEF OpenSessionStream
<1>7. ASSUME NEW s \in Streams, OpenPostRun(s) PROVE LedgerStep
  BY <1>7, QuietStep DEF OpenPostRun
<1>8. ASSUME NEW s \in Streams, CreateStreamRun(s) PROVE LedgerStep
  <2>1. PICK r \in Runs : run[r] = "none" /\ run' = [run EXCEPT ![r] = "created"]
    BY <1>8 DEF CreateStreamRun, CreateRunRow
  <2>2. UNCHANGED <<events, cancelled>>
    BY <1>8 DEF CreateStreamRun
  <2> QED
    BY <2>1, <2>2, CreateStep
<1>9. ASSUME NEW s \in Streams, StartRun(s) PROVE LedgerStep
  <2>1. UNCHANGED <<events, cancelled>>
    BY <1>9 DEF StartRun
  <2>2. CASE exists
    <3>1. target[s] \in Runs /\ Alive(target[s]) /\ run' = [run EXCEPT ![target[s]] = "running"]
      BY <1>9, <2>2 DEF StartRun, StartRunRow
    <3> QED
      BY <2>1, <3>1, StartStep
  <2>3. CASE ~exists
    BY <1>9, <2>1, <2>3, QuietStep DEF StartRun, StartRunRow
  <2> QED
    BY <2>2, <2>3
<1>10. ASSUME NEW s \in Streams, EnterLoop(s) PROVE LedgerStep
  BY <1>10, QuietStep DEF EnterLoop
<1>11. ASSUME NEW s \in Streams, NextEvent(s) PROVE LedgerStep
  BY <1>11, QuietStep DEF NextEvent
<1>12. ASSUME NEW s \in Streams, AppendEvent(s) PROVE LedgerStep
  <2> DEFINE row == [run |-> target[s], by |-> s, seq |-> count[s] + 1, type |-> event[s],
                     late |-> (target[s] \in cancelled)]
  <2>1. events' = events \cup {row}
    BY <1>12 DEF AppendEvent, Persist, NextOwnSeq
  <2>2. row.run = target[s] /\ row.by = s /\ row.type = event[s] /\ row.seq = count[s] + 1
    OBVIOUS
  <2> HIDE DEF row
  <2>3. target[s] \in Runs /\ run[target[s]] # "none" /\ UNCHANGED <<run, cancelled>>
    BY <1>12 DEF AppendEvent
  <2>4. CASE event[s] \in TerminalEvents
    BY <2>1, <2>2, <2>3, <2>4, RowStep
  <2>5. CASE event[s] \notin TerminalEvents
    BY <2>1, <2>2, <2>3, <2>5, QuietRowStep
  <2> QED
    BY <2>4, <2>5
<1>13. ASSUME NEW s \in Streams, RememberSeq(s) PROVE LedgerStep
  BY <1>13, QuietStep DEF RememberSeq
<1>14. ASSUME NEW s \in Streams, LoopEnds(s) PROVE LedgerStep
  BY <1>14, QuietStep DEF LoopEnds
<1>15. ASSUME NEW s \in Streams, FinishRun(s) PROVE LedgerStep
  <2>1. UNCHANGED <<events, cancelled>>
    BY <1>15 DEF FinishRun
  <2>2. CASE exists
    <3>1. /\ target[s] \in Runs /\ Alive(target[s])
          /\ run' = [run EXCEPT ![target[s]] = DeriveStatus(event[s])]
      BY <1>15, <2>2 DEF FinishRun, CompleteRunRow
    <3>2. DeriveStatus(event[s]) \in Evidence(target[s]) /\ DeriveStatus(event[s]) \in Ledger!Outcomes
      <4>1. event[s] \in TerminalEvents /\ HasEvent(target[s], event[s])
        BY <1>15, <2>2 DEF FinishRun, EventInv, RuntimeEvents, TerminalEvents
      <4>2. target[s] \in Runs
        BY <1>15 DEF FinishRun
      <4> QED
        BY <4>1, <4>2, EventIsEvidence
    <3> QED
      BY <2>1, <3>1, <3>2, SettleStep
  <2>3. CASE ~exists
    BY <1>15, <2>1, <2>3, QuietStep DEF FinishRun, CompleteRunRow
  <2> QED
    BY <2>2, <2>3
<1>16. ASSUME NEW s \in Streams, SaveSummary(s) PROVE LedgerStep
  BY <1>16, QuietStep DEF SaveSummary
<1>17. ASSUME NEW s \in Streams, SaveAnswer(s) PROVE LedgerStep
  BY <1>17, QuietStep DEF SaveAnswer
<1>18. ASSUME NEW s \in Streams, ExportEvent(s) PROVE LedgerStep
  <2> DEFINE row == [run |-> target[s], by |-> s, seq |-> count[s] + 2, type |-> "export_created",
                     late |-> FALSE]
  <2>1. events' = events \cup {row}
    BY <1>18 DEF ExportEvent, Persist, NextOwnSeq
  <2>2. row.run = target[s] /\ row.by = s /\ row.type = "export_created" /\ row.seq = count[s] + 2
    OBVIOUS
  <2> HIDE DEF row
  <2>3. UNCHANGED <<run, cancelled>>
    BY <1>18 DEF ExportEvent
  <2>4. "export_created" \notin TerminalEvents
    BY DEF TerminalEvents
  <2> QED
    BY <2>1, <2>2, <2>3, <2>4, QuietRowStep
<1>19. ASSUME NEW s \in Streams, NoExport(s) PROVE LedgerStep
  BY <1>19, QuietStep DEF NoExport
<1>20. ASSUME NEW s \in Streams, RememberExportSeq(s) PROVE LedgerStep
  BY <1>20, QuietStep DEF RememberExportSeq
<1>21. ASSUME NEW s \in Streams, CompleteCancelled(s) PROVE LedgerStep
  <2>1. UNCHANGED <<events, cancelled>>
    BY <1>21 DEF CompleteCancelled
  <2>2. CASE exists
    <3>1. /\ target[s] \in Runs /\ Alive(target[s])
          /\ run' = [run EXCEPT ![target[s]] = "cancelled"]
      BY <1>21, <2>2 DEF CompleteCancelled, CompleteRunRow
    <3>2. "cancelled" \in Evidence(target[s]) /\ "cancelled" \in Ledger!Outcomes
      BY <1>21, <3>1, FlagIsEvidence DEF CompleteCancelled, CancelInv
    <3> QED
      BY <2>1, <3>1, <3>2, SettleStep
  <2>3. CASE ~exists
    BY <1>21, <2>1, <2>3, QuietStep DEF CompleteCancelled, CompleteRunRow
  <2> QED
    BY <2>2, <2>3
<1>22. ASSUME NEW s \in Streams, RecordFailure(s) PROVE LedgerStep
  <2> DEFINE row == [run |-> target[s], by |-> s, seq |-> count[s] + 2, type |-> "run_failed",
                     late |-> FALSE]
  <2>1. events' = events \cup {row}
    BY <1>22 DEF RecordFailure, Persist, NextOwnSeq
  <2>2. row.run = target[s] /\ row.by = s /\ row.type = "run_failed" /\ row.seq = count[s] + 2
    OBVIOUS
  <2> HIDE DEF row
  <2>3. target[s] \in Runs /\ run[target[s]] # "none" /\ UNCHANGED <<run, cancelled>>
    BY <1>22 DEF RecordFailure
  <2>4. "run_failed" \in TerminalEvents
    BY DEF TerminalEvents
  <2> QED
    BY <2>1, <2>2, <2>3, <2>4, RowStep
<1>23. ASSUME NEW s \in Streams, CompleteFailed(s) PROVE LedgerStep
  <2>1. UNCHANGED <<events, cancelled>>
    BY <1>23 DEF CompleteFailed
  <2>2. CASE exists
    <3>1. /\ target[s] \in Runs /\ Alive(target[s])
          /\ run' = [run EXCEPT ![target[s]] = "failed"]
      BY <1>23, <2>2 DEF CompleteFailed, CompleteRunRow
    <3>2. "failed" \in Evidence(target[s]) /\ "failed" \in Ledger!Outcomes
      <4>1. HasEvent(target[s], "run_failed") /\ target[s] \in Runs
        BY <1>23, <2>2 DEF CompleteFailed, EventInv
      <4>2. "run_failed" \in TerminalEvents /\ DeriveStatus("run_failed") = "failed"
        BY DEF TerminalEvents, DeriveStatus
      <4> QED
        BY <4>1, <4>2, EventIsEvidence
    <3> QED
      BY <2>1, <3>1, <3>2, SettleStep
  <2>3. CASE ~exists
    BY <1>23, <2>1, <2>3, QuietStep DEF CompleteFailed, CompleteRunRow
  <2> QED
    BY <2>2, <2>3
<1>24. ASSUME NEW s \in Streams, CleanFlag(s) PROVE LedgerStep
  <2>1. target[s] \in Runs /\ run[target[s]] # "none" /\ UNCHANGED <<run, events>>
    BY <1>24 DEF CleanFlag
  <2>2. cancelled' = cancelled \cup {target[s]}
    BY <1>24 DEF CleanFlag
  <2> QED
    BY <2>1, <2>2, FlagStep
<1>25. ASSUME NEW s \in Streams, CleanRun(s) PROVE LedgerStep
  <2>1. UNCHANGED <<events, cancelled>>
    BY <1>25 DEF CleanRun
  <2>2. CASE exists
    <3>1. /\ target[s] \in Runs /\ Alive(target[s])
          /\ run' = [run EXCEPT ![target[s]] = "cancelled"]
      BY <1>25, <2>2 DEF CleanRun, CompleteRunRow
    <3>2. "cancelled" \in Evidence(target[s]) /\ "cancelled" \in Ledger!Outcomes
      BY <1>25, <3>1, FlagIsEvidence DEF CleanRun, CancelInv
    <3> QED
      BY <2>1, <3>1, <3>2, SettleStep
  <2>3. CASE ~exists
    BY <1>25, <2>1, <2>3, QuietStep DEF CleanRun, CompleteRunRow
  <2> QED
    BY <2>2, <2>3
<1>26. ASSUME NEW s \in Streams, CleanSession(s) PROVE LedgerStep
  BY <1>26, QuietStep DEF CleanSession
<1>27. ASSUME NEW s \in Streams, EventRejected(s) PROVE LedgerStep
  BY <1>27, QuietStep DEF EventRejected, Raise
<1>28. ASSUME NEW s \in Streams, RowRejected(s) PROVE LedgerStep
  BY <1>28, QuietStep DEF RowRejected
<1>29. ASSUME NEW s \in Streams, RuntimeRaises(s) PROVE LedgerStep
  BY <1>29, QuietStep DEF RuntimeRaises, Raise
<1>30. ASSUME NEW s \in Streams, StoreRaises(s) PROVE LedgerStep
  BY <1>30, QuietStep DEF StoreRaises, Raise
<1>31. ASSUME NEW s \in Streams, Disconnect(s) PROVE LedgerStep
  BY <1>31, QuietStep DEF Disconnect
<1>32. ASSUME NEW s \in Streams, Abort(s) PROVE LedgerStep
  BY <1>32, QuietStep DEF Abort
<1>33. ASSUME NEW c \in Ctls, NEW r \in Runs, LookupCancel(c, r) PROVE LedgerStep
  BY <1>33, QuietStep DEF LookupCancel
<1>34. ASSUME NEW c \in Ctls, LookupDelete(c) PROVE LedgerStep
  BY <1>34, QuietStep DEF LookupDelete
<1>35. ASSUME NEW c \in Ctls, RequestCancel(c) PROVE LedgerStep
  <2>1. ctlRun[c] \in Runs /\ run[ctlRun[c]] # "none" /\ UNCHANGED <<run, events>>
    BY <1>35 DEF RequestCancel
  <2>2. cancelled' = cancelled \cup {ctlRun[c]}
    BY <1>35 DEF RequestCancel
  <2> QED
    BY <2>1, <2>2, FlagStep
<1>36. ASSUME NEW c \in Ctls, ApplyCancel(c) PROVE LedgerStep
  <2>1. UNCHANGED <<events, cancelled>>
    BY <1>36 DEF ApplyCancel
  <2>2. CASE exists
    <3>1. /\ ctlRun[c] \in Runs /\ Alive(ctlRun[c])
          /\ run' = [run EXCEPT ![ctlRun[c]] = "cancelled"]
      BY <1>36, <2>2 DEF ApplyCancel, CompleteRunRow
    <3>2. "cancelled" \in Evidence(ctlRun[c]) /\ "cancelled" \in Ledger!Outcomes
      BY <1>36, <3>1, FlagIsEvidence DEF ApplyCancel, CancelInv
    <3> QED
      BY <2>1, <3>1, <3>2, SettleStep
  <2>3. CASE ~exists
    BY <1>36, <2>1, <2>3, QuietStep DEF ApplyCancel, CompleteRunRow
  <2> QED
    BY <2>2, <2>3
<1>37. ASSUME NEW c \in Ctls, ApplyDelete(c) PROVE LedgerStep
  <2>1. events' = {} /\ UNCHANGED cancelled
    BY <1>37 DEF ApplyDelete
  <2>2. run' = [r \in Runs |-> IF run[r] = "none" THEN "none" ELSE "deleted"]
    BY <1>37 DEF ApplyDelete
  <2> QED
    BY <2>1, <2>2, RemoveStep
<1>38. ASSUME NEW c \in Ctls, CtlFails(c) PROVE LedgerStep
  BY <1>38, QuietStep DEF CtlFails
<1>39. ASSUME NEW c \in Ctls, NEW archive \in BOOLEAN, SetArchived(c, archive) PROVE LedgerStep
  BY <1>39, QuietStep DEF SetArchived
<1>40. ASSUME Crash PROVE LedgerStep
  BY <1>40, QuietStep DEF Crash
<1>41. ASSUME UNCHANGED vars PROVE LedgerStep
  BY <1>41, QuietStep DEF vars
<1> HIDE DEF RowInv, Alive, Created, TypeInv, TypeOK, TargetsKnown, tables, session,
        redis, streamVars, ctlVars, Goto
<1> QED
  BY <1>1, <1>2, <1>3, <1>4, <1>5, <1>6, <1>7, <1>8, <1>9, <1>10, <1>11,
     <1>12, <1>13, <1>14, <1>15, <1>16, <1>17, <1>18, <1>19, <1>20, <1>21,
     <1>22, <1>23, <1>24, <1>25, <1>26, <1>27, <1>28, <1>29, <1>30, <1>31,
     <1>32, <1>33, <1>34, <1>35, <1>36, <1>37, <1>38, <1>39, <1>40, <1>41
     DEF Next, PostStep, OpenStep, Progress, Mishap, CtlStep

\* The handlers implement the ledger.
THEOREM HandlersImplementLedger == Spec => ImplementsLedger
<1>1. Init => Ledger!Init
  <2> SUFFICES ASSUME Init PROVE Ledger!Init
    OBVIOUS
  <2>1. \A r \in Runs : Evidence(r) = {}
    BY DEF Init, Evidence
  <2> QED
    BY <2>1 DEF Init, Ledger!Init
<1>2. TypeInv /\ CancelInv /\ EventInv /\ RowInv /\ [Next]_vars
         => [Ledger!Next]_<<run, [r \in Runs |-> Evidence(r)]>>
  BY LedgerStepHolds DEF LedgerStep, recorded
<1>3. Spec => [][Ledger!Next]_<<run, [r \in Runs |-> Evidence(r)]>>
  BY TypeInvInit, TypeInvStep, CancelInvInit, CancelInvStep, EventInvInit, EventInvStep,
     RowInvInit, RowInvStep, <1>2, PTL DEF Spec
<1>4. Spec => Ledger!Init
  BY <1>1 DEF Spec
<1> QED
  BY <1>3, <1>4, PTL DEF ImplementsLedger, Ledger!Spec

\* What the ledger is for: whoever implements it never tells a reader an outcome
\* that is not recorded.
THEOREM LedgerIsGrounded == Ledger!Spec => []Ledger!Grounded
<1> DEFINE I == recorded \in [Runs -> SUBSET Ledger!Outcomes]
           St == run \in [Runs -> Ledger!Outcomes \cup {"none", "created", "running", "deleted"}]
           vs == <<run, [r \in Runs |-> Evidence(r)]>>
<1>1. Ledger!Init => I /\ St /\ Ledger!Grounded
  BY DEF Ledger!Init, Ledger!Grounded, Ledger!Outcomes, recorded
<1>2. I /\ St /\ Ledger!Grounded /\ [Ledger!Next]_vs => (I /\ St /\ Ledger!Grounded)'
  <2> SUFFICES ASSUME I, St, Ledger!Grounded, [Ledger!Next]_vs PROVE (I /\ St /\ Ledger!Grounded)'
    OBVIOUS
  <2> USE DEF Ledger!Grounded, Ledger!Outcomes, recorded
  <2>1. ASSUME NEW r \in Runs, Ledger!Create(r) PROVE (I /\ St /\ Ledger!Grounded)'
    BY <2>1 DEF Ledger!Create
  <2>2. ASSUME NEW r \in Runs, Ledger!Start(r) PROVE (I /\ St /\ Ledger!Grounded)'
    BY <2>2 DEF Ledger!Start
  <2>3. ASSUME NEW r \in Runs, NEW o \in Ledger!Outcomes, Ledger!Record(r, o)
        PROVE  (I /\ St /\ Ledger!Grounded)'
    <3>1. recorded' = [recorded EXCEPT ![r] = @ \cup {o}] /\ UNCHANGED run
      BY <2>3 DEF Ledger!Record
    <3>2. recorded'[r] = recorded[r] \cup {o} /\ \A q \in Runs \ {r} : recorded'[q] = recorded[q]
      BY <3>1
    <3>3. Ledger!Grounded'
      BY <3>1, <3>2
    <3>4. \A q \in Runs : recorded[q] \subseteq Ledger!Outcomes
      OBVIOUS
    <3>5. \A q \in Runs : recorded'[q] \subseteq Ledger!Outcomes
      BY <3>2, <3>4
    <3>6. I'
      BY <3>5
    <3>7. St'
      BY <3>1
    <3> QED
      BY <3>3, <3>6, <3>7
  <2>4. ASSUME NEW r \in Runs, NEW o \in Ledger!Outcomes, Ledger!Settle(r, o)
        PROVE  (I /\ St /\ Ledger!Grounded)'
    BY <2>4 DEF Ledger!Settle
  <2>5. ASSUME NEW r \in Runs, NEW o \in Ledger!Outcomes, Ledger!Decide(r, o)
        PROVE  (I /\ St /\ Ledger!Grounded)'
    <3>1. recorded' = [recorded EXCEPT ![r] = @ \cup {o}] /\ run' = [run EXCEPT ![r] = o]
      BY <2>5 DEF Ledger!Decide
    <3>2. recorded'[r] = recorded[r] \cup {o} /\ \A q \in Runs \ {r} : recorded'[q] = recorded[q]
      BY <3>1
    <3>3. Ledger!Grounded'
      BY <3>1, <3>2
    <3>4. \A q \in Runs : recorded[q] \subseteq Ledger!Outcomes
      OBVIOUS
    <3>5. \A q \in Runs : recorded'[q] \subseteq Ledger!Outcomes
      BY <3>2, <3>4
    <3>6. I'
      BY <3>5
    <3>7. St'
      BY <3>1
    <3> QED
      BY <3>3, <3>6, <3>7
  <2>6. CASE Ledger!RemoveAll
    BY <2>6 DEF Ledger!RemoveAll
  <2>7. CASE UNCHANGED vs
    BY <2>7
  <2> QED
    BY <2>1, <2>2, <2>3, <2>4, <2>5, <2>6, <2>7 DEF Ledger!Next
<1> QED
  BY <1>1, <1>2, PTL DEF Ledger!Spec

---------------------------------------------------------------------------
(* The numbers of an execution's events *)

\* Until it writes its last row, an execution has used no number above its count.
SeqInv ==
    \A e \in events : pc[e.by] \notin {"exported", "failed", "done"} => e.seq <= count[e.by]

LEMMA SeqInvInit == Init => SeqInv
BY DEF Init, SeqInv

LEMMA SeqInvStep == TypeInv /\ SeqInv /\ [Next]_vars => SeqInv'
<1> SUFFICES ASSUME TypeInv, SeqInv, [Next]_vars PROVE SeqInv'
  OBVIOUS
<1> USE ConstantsAssumption
    DEF SeqInv, TypeInv, TypeOK, TargetsKnown, tables, session,
        redis, streamVars, ctlVars, Goto
<1>1. ASSUME NEW p \in Posts, CheckNoActiveRun(p) PROVE SeqInv'
  BY <1>1 DEF CheckNoActiveRun
<1>2. ASSUME NEW p \in Posts, SaveUserMessage(p) PROVE SeqInv'
  BY <1>2 DEF SaveUserMessage
<1>3. ASSUME NEW p \in Posts, CreateMessageRun(p) PROVE SeqInv'
  BY <1>3 DEF CreateMessageRun, CreateRunRow
<1>4. ASSUME NEW p \in Posts, PostFails(p) PROVE SeqInv'
  BY <1>4 DEF PostFails
<1>5. ASSUME NEW s \in Streams, NEW r \in Runs, OpenRunStream(s, r) PROVE SeqInv'
  BY <1>5 DEF OpenRunStream
<1>6. ASSUME NEW s \in Streams, OpenSessionStream(s) PROVE SeqInv'
  <2>1. \A e \in events : e.seq \in Nat /\ e.by \in Streams
    BY DEF EventRow
  <2> QED
    BY <1>6, <2>1 DEF OpenSessionStream
<1>7. ASSUME NEW s \in Streams, OpenPostRun(s) PROVE SeqInv'
  BY <1>7 DEF OpenPostRun
<1>8. ASSUME NEW s \in Streams, CreateStreamRun(s) PROVE SeqInv'
  BY <1>8 DEF CreateStreamRun, CreateRunRow
<1>9. ASSUME NEW s \in Streams, StartRun(s) PROVE SeqInv'
  BY <1>9 DEF StartRun, StartRunRow
<1>10. ASSUME NEW s \in Streams, EnterLoop(s) PROVE SeqInv'
  BY <1>10 DEF EnterLoop
<1>11. ASSUME NEW s \in Streams, NextEvent(s) PROVE SeqInv'
  <2>1. \A e \in events : e.seq \in Nat /\ e.by \in Streams
    BY DEF EventRow
  <2> QED
    BY <1>11, <2>1 DEF NextEvent, Offers
<1>12. ASSUME NEW s \in Streams, AppendEvent(s) PROVE SeqInv'
  <2> DEFINE row == [run |-> target[s], by |-> s, seq |-> count[s] + 1, type |-> event[s],
                     late |-> (target[s] \in cancelled)]
  <2>1. events' = events \cup {row}
    BY <1>12 DEF AppendEvent, Persist, NextOwnSeq
  <2>2. row.run = target[s] /\ row.by = s /\ row.type = event[s] /\ row.seq = count[s] + 1
    OBVIOUS
  <2> HIDE DEF row
  <2>3. row.seq \in Nat /\ \A e \in events : e.seq \in Nat /\ e.by \in Streams
    BY <2>2 DEF EventRow
  <2> QED
    BY <1>12, <2>1, <2>2, <2>3 DEF AppendEvent
<1>13. ASSUME NEW s \in Streams, RememberSeq(s) PROVE SeqInv'
  BY <1>13 DEF RememberSeq
<1>14. ASSUME NEW s \in Streams, LoopEnds(s) PROVE SeqInv'
  BY <1>14 DEF LoopEnds
<1>15. ASSUME NEW s \in Streams, FinishRun(s) PROVE SeqInv'
  BY <1>15 DEF FinishRun, CompleteRunRow, DeriveStatus
<1>16. ASSUME NEW s \in Streams, SaveSummary(s) PROVE SeqInv'
  BY <1>16 DEF SaveSummary
<1>17. ASSUME NEW s \in Streams, SaveAnswer(s) PROVE SeqInv'
  BY <1>17 DEF SaveAnswer
<1>18. ASSUME NEW s \in Streams, ExportEvent(s) PROVE SeqInv'
  <2> DEFINE row == [run |-> target[s], by |-> s, seq |-> count[s] + 2, type |-> "export_created",
                     late |-> FALSE]
  <2>1. events' = events \cup {row}
    BY <1>18 DEF ExportEvent, Persist, NextOwnSeq
  <2>2. row.run = target[s] /\ row.by = s /\ row.type = "export_created" /\ row.seq = count[s] + 2
    OBVIOUS
  <2> HIDE DEF row
  <2>3. row.seq \in Nat /\ \A e \in events : e.seq \in Nat /\ e.by \in Streams
    BY <2>2 DEF EventRow
  <2> QED
    BY <1>18, <2>1, <2>2, <2>3 DEF ExportEvent
<1>19. ASSUME NEW s \in Streams, NoExport(s) PROVE SeqInv'
  BY <1>19 DEF NoExport
<1>20. ASSUME NEW s \in Streams, RememberExportSeq(s) PROVE SeqInv'
  BY <1>20 DEF RememberExportSeq, NextOwnSeq
<1>21. ASSUME NEW s \in Streams, CompleteCancelled(s) PROVE SeqInv'
  BY <1>21 DEF CompleteCancelled, CompleteRunRow
<1>22. ASSUME NEW s \in Streams, RecordFailure(s) PROVE SeqInv'
  <2> DEFINE row == [run |-> target[s], by |-> s, seq |-> count[s] + 2, type |-> "run_failed",
                     late |-> FALSE]
  <2>1. events' = events \cup {row}
    BY <1>22 DEF RecordFailure, Persist, NextOwnSeq
  <2>2. row.run = target[s] /\ row.by = s /\ row.type = "run_failed" /\ row.seq = count[s] + 2
    OBVIOUS
  <2> HIDE DEF row
  <2>3. row.seq \in Nat /\ \A e \in events : e.seq \in Nat /\ e.by \in Streams
    BY <2>2 DEF EventRow
  <2> QED
    BY <1>22, <2>1, <2>2, <2>3 DEF RecordFailure
<1>23. ASSUME NEW s \in Streams, CompleteFailed(s) PROVE SeqInv'
  BY <1>23 DEF CompleteFailed, CompleteRunRow
<1>24. ASSUME NEW s \in Streams, CleanFlag(s) PROVE SeqInv'
  BY <1>24 DEF CleanFlag
<1>25. ASSUME NEW s \in Streams, CleanRun(s) PROVE SeqInv'
  BY <1>25 DEF CleanRun
<1>26. ASSUME NEW s \in Streams, CleanSession(s) PROVE SeqInv'
  BY <1>26 DEF CleanSession
<1>27. ASSUME NEW s \in Streams, EventRejected(s) PROVE SeqInv'
  BY <1>27 DEF EventRejected, Raise
<1>28. ASSUME NEW s \in Streams, RowRejected(s) PROVE SeqInv'
  BY <1>28 DEF RowRejected, Inserts
<1>29. ASSUME NEW s \in Streams, RuntimeRaises(s) PROVE SeqInv'
  BY <1>29 DEF RuntimeRaises, Raise
<1>30. ASSUME NEW s \in Streams, StoreRaises(s) PROVE SeqInv'
  BY <1>30 DEF StoreRaises, Raise, TryBlock
<1>31. ASSUME NEW s \in Streams, Disconnect(s) PROVE SeqInv'
  BY <1>31 DEF Disconnect, TryBlock
<1>32. ASSUME NEW s \in Streams, Abort(s) PROVE SeqInv'
  BY <1>32 DEF Abort
<1>33. ASSUME NEW c \in Ctls, NEW r \in Runs, LookupCancel(c, r) PROVE SeqInv'
  BY <1>33 DEF LookupCancel
<1>34. ASSUME NEW c \in Ctls, LookupDelete(c) PROVE SeqInv'
  BY <1>34 DEF LookupDelete
<1>35. ASSUME NEW c \in Ctls, RequestCancel(c) PROVE SeqInv'
  BY <1>35 DEF RequestCancel
<1>36. ASSUME NEW c \in Ctls, ApplyCancel(c) PROVE SeqInv'
  BY <1>36 DEF ApplyCancel, CompleteRunRow
<1>37. ASSUME NEW c \in Ctls, ApplyDelete(c) PROVE SeqInv'
  BY <1>37 DEF ApplyDelete
<1>38. ASSUME NEW c \in Ctls, CtlFails(c) PROVE SeqInv'
  BY <1>38 DEF CtlFails
<1>39. ASSUME NEW c \in Ctls, NEW archive \in BOOLEAN, SetArchived(c, archive) PROVE SeqInv'
  BY <1>39 DEF SetArchived
<1>40. ASSUME Crash PROVE SeqInv'
  <2>1. \A e \in events : e.seq \in Nat /\ e.by \in Streams
    BY DEF EventRow
  <2> QED
    BY <1>40, <2>1 DEF Crash
<1>41. ASSUME UNCHANGED vars PROVE SeqInv'
  BY <1>41 DEF vars
<1> HIDE DEF SeqInv, TypeInv, TypeOK, TargetsKnown, tables, session,
        redis, streamVars, ctlVars, Goto
<1> QED
  BY <1>1, <1>2, <1>3, <1>4, <1>5, <1>6, <1>7, <1>8, <1>9, <1>10, <1>11,
     <1>12, <1>13, <1>14, <1>15, <1>16, <1>17, <1>18, <1>19, <1>20, <1>21,
     <1>22, <1>23, <1>24, <1>25, <1>26, <1>27, <1>28, <1>29, <1>30, <1>31,
     <1>32, <1>33, <1>34, <1>35, <1>36, <1>37, <1>38, <1>39, <1>40, <1>41
     DEF Next, PostStep, OpenStep, Progress, Mishap, CtlStep

\* The step formula of SeqGrows.
NumbersGrow ==
    \A e \in events' \ events :
        \A f \in events : f.run = e.run /\ f.by = e.by => f.seq < e.seq

LEMMA NumbersGrowStep == TypeInv /\ SeqInv /\ [Next]_vars => NumbersGrow
<1> SUFFICES ASSUME TypeInv, SeqInv, [Next]_vars PROVE NumbersGrow
  OBVIOUS
<1> USE ConstantsAssumption
    DEF NumbersGrow, SeqInv, TypeInv, TypeOK, TargetsKnown, tables, session,
        redis, streamVars, ctlVars, Goto
<1>1. ASSUME NEW p \in Posts, CheckNoActiveRun(p) PROVE NumbersGrow
  BY <1>1 DEF CheckNoActiveRun
<1>2. ASSUME NEW p \in Posts, SaveUserMessage(p) PROVE NumbersGrow
  BY <1>2 DEF SaveUserMessage
<1>3. ASSUME NEW p \in Posts, CreateMessageRun(p) PROVE NumbersGrow
  BY <1>3 DEF CreateMessageRun, CreateRunRow
<1>4. ASSUME NEW p \in Posts, PostFails(p) PROVE NumbersGrow
  BY <1>4 DEF PostFails
<1>5. ASSUME NEW s \in Streams, NEW r \in Runs, OpenRunStream(s, r) PROVE NumbersGrow
  BY <1>5 DEF OpenRunStream
<1>6. ASSUME NEW s \in Streams, OpenSessionStream(s) PROVE NumbersGrow
  BY <1>6 DEF OpenSessionStream
<1>7. ASSUME NEW s \in Streams, OpenPostRun(s) PROVE NumbersGrow
  BY <1>7 DEF OpenPostRun
<1>8. ASSUME NEW s \in Streams, CreateStreamRun(s) PROVE NumbersGrow
  BY <1>8 DEF CreateStreamRun, CreateRunRow
<1>9. ASSUME NEW s \in Streams, StartRun(s) PROVE NumbersGrow
  BY <1>9 DEF StartRun, StartRunRow
<1>10. ASSUME NEW s \in Streams, EnterLoop(s) PROVE NumbersGrow
  BY <1>10 DEF EnterLoop
<1>11. ASSUME NEW s \in Streams, NextEvent(s) PROVE NumbersGrow
  BY <1>11 DEF NextEvent, Offers
<1>12. ASSUME NEW s \in Streams, AppendEvent(s) PROVE NumbersGrow
  <2> DEFINE row == [run |-> target[s], by |-> s, seq |-> count[s] + 1, type |-> event[s],
                     late |-> (target[s] \in cancelled)]
  <2>1. events' = events \cup {row}
    BY <1>12 DEF AppendEvent, Persist, NextOwnSeq
  <2>2. row.run = target[s] /\ row.by = s /\ row.type = event[s] /\ row.seq = count[s] + 1
    OBVIOUS
  <2> HIDE DEF row
  <2>3. row.seq \in Nat /\ \A e \in events : e.seq \in Nat /\ e.by \in Streams
    BY <2>2 DEF EventRow
  <2>4. \A f \in events : f.by = s => f.seq <= count[s]
    BY <1>12 DEF AppendEvent
  <2> QED
    BY <2>1, <2>2, <2>3, <2>4
<1>13. ASSUME NEW s \in Streams, RememberSeq(s) PROVE NumbersGrow
  BY <1>13 DEF RememberSeq
<1>14. ASSUME NEW s \in Streams, LoopEnds(s) PROVE NumbersGrow
  BY <1>14 DEF LoopEnds
<1>15. ASSUME NEW s \in Streams, FinishRun(s) PROVE NumbersGrow
  BY <1>15 DEF FinishRun, CompleteRunRow, DeriveStatus
<1>16. ASSUME NEW s \in Streams, SaveSummary(s) PROVE NumbersGrow
  BY <1>16 DEF SaveSummary
<1>17. ASSUME NEW s \in Streams, SaveAnswer(s) PROVE NumbersGrow
  BY <1>17 DEF SaveAnswer
<1>18. ASSUME NEW s \in Streams, ExportEvent(s) PROVE NumbersGrow
  <2> DEFINE row == [run |-> target[s], by |-> s, seq |-> count[s] + 2, type |-> "export_created",
                     late |-> FALSE]
  <2>1. events' = events \cup {row}
    BY <1>18 DEF ExportEvent, Persist, NextOwnSeq
  <2>2. row.run = target[s] /\ row.by = s /\ row.type = "export_created" /\ row.seq = count[s] + 2
    OBVIOUS
  <2> HIDE DEF row
  <2>3. row.seq \in Nat /\ \A e \in events : e.seq \in Nat /\ e.by \in Streams
    BY <2>2 DEF EventRow
  <2>4. \A f \in events : f.by = s => f.seq <= count[s]
    BY <1>18 DEF ExportEvent
  <2> QED
    BY <2>1, <2>2, <2>3, <2>4
<1>19. ASSUME NEW s \in Streams, NoExport(s) PROVE NumbersGrow
  BY <1>19 DEF NoExport
<1>20. ASSUME NEW s \in Streams, RememberExportSeq(s) PROVE NumbersGrow
  BY <1>20 DEF RememberExportSeq, NextOwnSeq
<1>21. ASSUME NEW s \in Streams, CompleteCancelled(s) PROVE NumbersGrow
  BY <1>21 DEF CompleteCancelled, CompleteRunRow
<1>22. ASSUME NEW s \in Streams, RecordFailure(s) PROVE NumbersGrow
  <2> DEFINE row == [run |-> target[s], by |-> s, seq |-> count[s] + 2, type |-> "run_failed",
                     late |-> FALSE]
  <2>1. events' = events \cup {row}
    BY <1>22 DEF RecordFailure, Persist, NextOwnSeq
  <2>2. row.run = target[s] /\ row.by = s /\ row.type = "run_failed" /\ row.seq = count[s] + 2
    OBVIOUS
  <2> HIDE DEF row
  <2>3. row.seq \in Nat /\ \A e \in events : e.seq \in Nat /\ e.by \in Streams
    BY <2>2 DEF EventRow
  <2>4. \A f \in events : f.by = s => f.seq <= count[s]
    BY <1>22 DEF RecordFailure
  <2> QED
    BY <2>1, <2>2, <2>3, <2>4
<1>23. ASSUME NEW s \in Streams, CompleteFailed(s) PROVE NumbersGrow
  BY <1>23 DEF CompleteFailed, CompleteRunRow
<1>24. ASSUME NEW s \in Streams, CleanFlag(s) PROVE NumbersGrow
  BY <1>24 DEF CleanFlag
<1>25. ASSUME NEW s \in Streams, CleanRun(s) PROVE NumbersGrow
  BY <1>25 DEF CleanRun
<1>26. ASSUME NEW s \in Streams, CleanSession(s) PROVE NumbersGrow
  BY <1>26 DEF CleanSession
<1>27. ASSUME NEW s \in Streams, EventRejected(s) PROVE NumbersGrow
  BY <1>27 DEF EventRejected, Raise
<1>28. ASSUME NEW s \in Streams, RowRejected(s) PROVE NumbersGrow
  BY <1>28 DEF RowRejected, Inserts
<1>29. ASSUME NEW s \in Streams, RuntimeRaises(s) PROVE NumbersGrow
  BY <1>29 DEF RuntimeRaises, Raise
<1>30. ASSUME NEW s \in Streams, StoreRaises(s) PROVE NumbersGrow
  BY <1>30 DEF StoreRaises, Raise, TryBlock
<1>31. ASSUME NEW s \in Streams, Disconnect(s) PROVE NumbersGrow
  BY <1>31 DEF Disconnect, TryBlock
<1>32. ASSUME NEW s \in Streams, Abort(s) PROVE NumbersGrow
  BY <1>32 DEF Abort
<1>33. ASSUME NEW c \in Ctls, NEW r \in Runs, LookupCancel(c, r) PROVE NumbersGrow
  BY <1>33 DEF LookupCancel
<1>34. ASSUME NEW c \in Ctls, LookupDelete(c) PROVE NumbersGrow
  BY <1>34 DEF LookupDelete
<1>35. ASSUME NEW c \in Ctls, RequestCancel(c) PROVE NumbersGrow
  BY <1>35 DEF RequestCancel
<1>36. ASSUME NEW c \in Ctls, ApplyCancel(c) PROVE NumbersGrow
  BY <1>36 DEF ApplyCancel, CompleteRunRow
<1>37. ASSUME NEW c \in Ctls, ApplyDelete(c) PROVE NumbersGrow
  BY <1>37 DEF ApplyDelete
<1>38. ASSUME NEW c \in Ctls, CtlFails(c) PROVE NumbersGrow
  BY <1>38 DEF CtlFails
<1>39. ASSUME NEW c \in Ctls, NEW archive \in BOOLEAN, SetArchived(c, archive) PROVE NumbersGrow
  BY <1>39 DEF SetArchived
<1>40. ASSUME Crash PROVE NumbersGrow
  BY <1>40 DEF Crash
<1>41. ASSUME UNCHANGED vars PROVE NumbersGrow
  BY <1>41 DEF vars
<1> HIDE DEF NumbersGrow, SeqInv, TypeInv, TypeOK, TargetsKnown, tables, session,
        redis, streamVars, ctlVars, Goto
<1> QED
  BY <1>1, <1>2, <1>3, <1>4, <1>5, <1>6, <1>7, <1>8, <1>9, <1>10, <1>11,
     <1>12, <1>13, <1>14, <1>15, <1>16, <1>17, <1>18, <1>19, <1>20, <1>21,
     <1>22, <1>23, <1>24, <1>25, <1>26, <1>27, <1>28, <1>29, <1>30, <1>31,
     <1>32, <1>33, <1>34, <1>35, <1>36, <1>37, <1>38, <1>39, <1>40, <1>41
     DEF Next, PostStep, OpenStep, Progress, Mishap, CtlStep

\* Within one execution the event numbers only grow.
THEOREM ExecutionNumbersGrow == Spec => SeqGrows
<1>1. TypeInv /\ SeqInv /\ [Next]_vars => [NumbersGrow]_vars
  BY NumbersGrowStep
<1>2. Spec => [][NumbersGrow]_vars
  BY TypeInvInit, TypeInvStep, SeqInvInit, SeqInvStep, <1>1, PTL DEF Spec
<1> QED
  BY <1>2, PTL DEF SeqGrows, NumbersGrow
---------------------------------------------------------------------------
(* What the design's two broken statements rest on *)

Executes(s) == pc[s] \in {"prep", "ready"} \cup TryBlock

\* A run that an execution has started is not created any more, so only an
\* execution that opened it before can be its second one.
OpeningInv ==
    /\ ~exists => \A r \in Runs : run[r] \in {"none", "deleted"}
    /\ \A s, t \in Streams :
          Executes(s) /\ Executes(t) /\ target[s] = target[t] => s = t
    /\ \A s \in Streams :
          Executes(s) /\ pc[s] # "prep" => run[target[s]] \notin {"none", "created"}

LEMMA OpeningInvInit == Init => OpeningInv
BY DEF Init, OpeningInv, Executes, TryBlock

LEMMA OpeningInvStep == TypeInv /\ RowInv /\ OpeningInv /\ OneOpening' /\ [Next]_vars => OpeningInv'
<1> SUFFICES ASSUME TypeInv, RowInv, OpeningInv, OneOpening', [Next]_vars PROVE OpeningInv'
  OBVIOUS
<1> USE ConstantsAssumption
    DEF OpeningInv, OneOpening, Executes, TryBlock, RowInv, Created,
        TypeInv, TypeOK, TargetsKnown, tables, session,
        redis, streamVars, ctlVars, Goto
<1>1. ASSUME NEW p \in Posts, CheckNoActiveRun(p) PROVE OpeningInv'
  BY <1>1 DEF CheckNoActiveRun
<1>2. ASSUME NEW p \in Posts, SaveUserMessage(p) PROVE OpeningInv'
  BY <1>2 DEF SaveUserMessage
<1>3. ASSUME NEW p \in Posts, CreateMessageRun(p) PROVE OpeningInv'
  BY <1>3 DEF CreateMessageRun, CreateRunRow
<1>4. ASSUME NEW p \in Posts, PostFails(p) PROVE OpeningInv'
  BY <1>4 DEF PostFails
<1>5. ASSUME NEW s \in Streams, NEW r \in Runs, OpenRunStream(s, r) PROVE OpeningInv'
  BY <1>5 DEF OpenRunStream
<1>6. ASSUME NEW s \in Streams, OpenSessionStream(s) PROVE OpeningInv'
  BY <1>6 DEF OpenSessionStream
<1>7. ASSUME NEW s \in Streams, OpenPostRun(s) PROVE OpeningInv'
  BY <1>7 DEF OpenPostRun
<1>8. ASSUME NEW s \in Streams, CreateStreamRun(s) PROVE OpeningInv'
  BY <1>8 DEF CreateStreamRun, CreateRunRow
<1>9. ASSUME NEW s \in Streams, StartRun(s) PROVE OpeningInv'
  BY <1>9 DEF StartRun, StartRunRow
<1>10. ASSUME NEW s \in Streams, EnterLoop(s) PROVE OpeningInv'
  BY <1>10 DEF EnterLoop
<1>11. ASSUME NEW s \in Streams, NextEvent(s) PROVE OpeningInv'
  BY <1>11 DEF NextEvent, Offers
<1>12. ASSUME NEW s \in Streams, AppendEvent(s) PROVE OpeningInv'
  BY <1>12 DEF AppendEvent, Persist
<1>13. ASSUME NEW s \in Streams, RememberSeq(s) PROVE OpeningInv'
  BY <1>13 DEF RememberSeq
<1>14. ASSUME NEW s \in Streams, LoopEnds(s) PROVE OpeningInv'
  BY <1>14 DEF LoopEnds
<1>15. ASSUME NEW s \in Streams, FinishRun(s) PROVE OpeningInv'
  BY <1>15 DEF FinishRun, CompleteRunRow, DeriveStatus
<1>16. ASSUME NEW s \in Streams, SaveSummary(s) PROVE OpeningInv'
  BY <1>16 DEF SaveSummary
<1>17. ASSUME NEW s \in Streams, SaveAnswer(s) PROVE OpeningInv'
  BY <1>17 DEF SaveAnswer
<1>18. ASSUME NEW s \in Streams, ExportEvent(s) PROVE OpeningInv'
  BY <1>18 DEF ExportEvent, Persist, NextOwnSeq
<1>19. ASSUME NEW s \in Streams, NoExport(s) PROVE OpeningInv'
  BY <1>19 DEF NoExport
<1>20. ASSUME NEW s \in Streams, RememberExportSeq(s) PROVE OpeningInv'
  BY <1>20 DEF RememberExportSeq, NextOwnSeq
<1>21. ASSUME NEW s \in Streams, CompleteCancelled(s) PROVE OpeningInv'
  BY <1>21 DEF CompleteCancelled, CompleteRunRow
<1>22. ASSUME NEW s \in Streams, RecordFailure(s) PROVE OpeningInv'
  BY <1>22 DEF RecordFailure, Persist, NextOwnSeq
<1>23. ASSUME NEW s \in Streams, CompleteFailed(s) PROVE OpeningInv'
  BY <1>23 DEF CompleteFailed, CompleteRunRow
<1>24. ASSUME NEW s \in Streams, CleanFlag(s) PROVE OpeningInv'
  BY <1>24 DEF CleanFlag
<1>25. ASSUME NEW s \in Streams, CleanRun(s) PROVE OpeningInv'
  BY <1>25 DEF CleanRun
<1>26. ASSUME NEW s \in Streams, CleanSession(s) PROVE OpeningInv'
  BY <1>26 DEF CleanSession
<1>27. ASSUME NEW s \in Streams, EventRejected(s) PROVE OpeningInv'
  BY <1>27 DEF EventRejected, Raise
<1>28. ASSUME NEW s \in Streams, RowRejected(s) PROVE OpeningInv'
  BY <1>28 DEF RowRejected, Inserts
<1>29. ASSUME NEW s \in Streams, RuntimeRaises(s) PROVE OpeningInv'
  BY <1>29 DEF RuntimeRaises, Raise
<1>30. ASSUME NEW s \in Streams, StoreRaises(s) PROVE OpeningInv'
  BY <1>30 DEF StoreRaises, Raise, TryBlock
<1>31. ASSUME NEW s \in Streams, Disconnect(s) PROVE OpeningInv'
  BY <1>31 DEF Disconnect, TryBlock
<1>32. ASSUME NEW s \in Streams, Abort(s) PROVE OpeningInv'
  BY <1>32 DEF Abort
<1>33. ASSUME NEW c \in Ctls, NEW r \in Runs, LookupCancel(c, r) PROVE OpeningInv'
  BY <1>33 DEF LookupCancel
<1>34. ASSUME NEW c \in Ctls, LookupDelete(c) PROVE OpeningInv'
  BY <1>34 DEF LookupDelete
<1>35. ASSUME NEW c \in Ctls, RequestCancel(c) PROVE OpeningInv'
  BY <1>35 DEF RequestCancel
<1>36. ASSUME NEW c \in Ctls, ApplyCancel(c) PROVE OpeningInv'
  BY <1>36 DEF ApplyCancel, CompleteRunRow
<1>37. ASSUME NEW c \in Ctls, ApplyDelete(c) PROVE OpeningInv'
  BY <1>37 DEF ApplyDelete
<1>38. ASSUME NEW c \in Ctls, CtlFails(c) PROVE OpeningInv'
  BY <1>38 DEF CtlFails
<1>39. ASSUME NEW c \in Ctls, NEW archive \in BOOLEAN, SetArchived(c, archive) PROVE OpeningInv'
  BY <1>39 DEF SetArchived
<1>40. ASSUME Crash PROVE OpeningInv'
  BY <1>40 DEF Crash
<1>41. ASSUME UNCHANGED vars PROVE OpeningInv'
  BY <1>41 DEF vars
<1> HIDE DEF OpeningInv, OneOpening, Executes, TryBlock, RowInv, Created,
        TypeInv, TypeOK, TargetsKnown, tables, session,
        redis, streamVars, ctlVars, Goto
<1> QED
  BY <1>1, <1>2, <1>3, <1>4, <1>5, <1>6, <1>7, <1>8, <1>9, <1>10, <1>11,
     <1>12, <1>13, <1>14, <1>15, <1>16, <1>17, <1>18, <1>19, <1>20,
     <1>21, <1>22, <1>23, <1>24, <1>25, <1>26, <1>27, <1>28, <1>29,
     <1>30, <1>31, <1>32, <1>33, <1>34, <1>35, <1>36, <1>37, <1>38,
     <1>39, <1>40, <1>41
     DEF Next, PostStep, OpenStep, Progress, Mishap, CtlStep

\* Whatever else interleaves, fails or is cut off: a run is executed twice only
\* after two executions were between the reading of its status and start_run
\* together.
THEOREM ExecutedTwiceOnlyByOverlap == Spec /\ []OneOpening => []ExecutedOnce
<1>1. OpeningInv => ExecutedOnce
  BY DEF OpeningInv, ExecutedOnce, Executes
<1>2. Spec => [](TypeInv /\ RowInv)
  BY TypeInvInit, TypeInvStep, RowInvInit, RowInvStep, PTL DEF Spec
<1> QED
  BY OpeningInvInit, OpeningInvStep, <1>1, <1>2, PTL DEF Spec

\* A run that is open, or about to be started by an execution that read it.
Held(r) ==
    \/ run[r] \in Active
    \/ \E s \in Streams : pc[s] = "prep" /\ target[s] = r

\* One run is held at most, and none while a post is under way.
WindowInv ==
    /\ \A p \in Posts : postPc[p] \in {"checked", "saved"} =>
          \A r \in Runs : run[r] \notin Active
    /\ \A q, r \in Runs : Held(q) /\ Held(r) => q = r
    /\ \A s \in Streams : pc[s] # "create"

LEMMA WindowInvInit == Init => WindowInv
BY DEF Init, WindowInv, Held, Active

LEMMA WindowInvStep == Kinds \subseteq {"run"} /\ TypeInv /\ PostsAlone /\ WindowInv /\ [Next]_vars => WindowInv'
<1> SUFFICES ASSUME Kinds \subseteq {"run"}, TypeInv, PostsAlone, WindowInv, [Next]_vars PROVE WindowInv'
  OBVIOUS
<1> USE ConstantsAssumption
    DEF WindowInv, PostsAlone, Held, Active, TryBlock,
        TypeInv, TypeOK, TargetsKnown, tables, session,
        redis, streamVars, ctlVars, Goto
<1>1. ASSUME NEW p \in Posts, CheckNoActiveRun(p) PROVE WindowInv'
  BY <1>1 DEF CheckNoActiveRun
<1>2. ASSUME NEW p \in Posts, SaveUserMessage(p) PROVE WindowInv'
  BY <1>2 DEF SaveUserMessage
<1>3. ASSUME NEW p \in Posts, CreateMessageRun(p) PROVE WindowInv'
  BY <1>3 DEF CreateMessageRun, CreateRunRow
<1>4. ASSUME NEW p \in Posts, PostFails(p) PROVE WindowInv'
  BY <1>4 DEF PostFails
<1>5. ASSUME NEW s \in Streams, NEW r \in Runs, OpenRunStream(s, r) PROVE WindowInv'
  BY <1>5 DEF OpenRunStream
<1>6. ASSUME NEW s \in Streams, OpenSessionStream(s) PROVE WindowInv'
  BY <1>6 DEF OpenSessionStream
<1>7. ASSUME NEW s \in Streams, OpenPostRun(s) PROVE WindowInv'
  BY <1>7 DEF OpenPostRun
<1>8. ASSUME NEW s \in Streams, CreateStreamRun(s) PROVE WindowInv'
  BY <1>8 DEF CreateStreamRun, CreateRunRow
<1>9. ASSUME NEW s \in Streams, StartRun(s) PROVE WindowInv'
  BY <1>9 DEF StartRun, StartRunRow
<1>10. ASSUME NEW s \in Streams, EnterLoop(s) PROVE WindowInv'
  BY <1>10 DEF EnterLoop
<1>11. ASSUME NEW s \in Streams, NextEvent(s) PROVE WindowInv'
  BY <1>11 DEF NextEvent, Offers
<1>12. ASSUME NEW s \in Streams, AppendEvent(s) PROVE WindowInv'
  BY <1>12 DEF AppendEvent, Persist
<1>13. ASSUME NEW s \in Streams, RememberSeq(s) PROVE WindowInv'
  BY <1>13 DEF RememberSeq
<1>14. ASSUME NEW s \in Streams, LoopEnds(s) PROVE WindowInv'
  BY <1>14 DEF LoopEnds
<1>15. ASSUME NEW s \in Streams, FinishRun(s) PROVE WindowInv'
  BY <1>15 DEF FinishRun, CompleteRunRow, DeriveStatus
<1>16. ASSUME NEW s \in Streams, SaveSummary(s) PROVE WindowInv'
  BY <1>16 DEF SaveSummary
<1>17. ASSUME NEW s \in Streams, SaveAnswer(s) PROVE WindowInv'
  BY <1>17 DEF SaveAnswer
<1>18. ASSUME NEW s \in Streams, ExportEvent(s) PROVE WindowInv'
  BY <1>18 DEF ExportEvent, Persist, NextOwnSeq
<1>19. ASSUME NEW s \in Streams, NoExport(s) PROVE WindowInv'
  BY <1>19 DEF NoExport
<1>20. ASSUME NEW s \in Streams, RememberExportSeq(s) PROVE WindowInv'
  BY <1>20 DEF RememberExportSeq, NextOwnSeq
<1>21. ASSUME NEW s \in Streams, CompleteCancelled(s) PROVE WindowInv'
  BY <1>21 DEF CompleteCancelled, CompleteRunRow
<1>22. ASSUME NEW s \in Streams, RecordFailure(s) PROVE WindowInv'
  BY <1>22 DEF RecordFailure, Persist, NextOwnSeq
<1>23. ASSUME NEW s \in Streams, CompleteFailed(s) PROVE WindowInv'
  BY <1>23 DEF CompleteFailed, CompleteRunRow
<1>24. ASSUME NEW s \in Streams, CleanFlag(s) PROVE WindowInv'
  BY <1>24 DEF CleanFlag
<1>25. ASSUME NEW s \in Streams, CleanRun(s) PROVE WindowInv'
  BY <1>25 DEF CleanRun
<1>26. ASSUME NEW s \in Streams, CleanSession(s) PROVE WindowInv'
  BY <1>26 DEF CleanSession
<1>27. ASSUME NEW s \in Streams, EventRejected(s) PROVE WindowInv'
  BY <1>27 DEF EventRejected, Raise
<1>28. ASSUME NEW s \in Streams, RowRejected(s) PROVE WindowInv'
  BY <1>28 DEF RowRejected, Inserts
<1>29. ASSUME NEW s \in Streams, RuntimeRaises(s) PROVE WindowInv'
  BY <1>29 DEF RuntimeRaises, Raise
<1>30. ASSUME NEW s \in Streams, StoreRaises(s) PROVE WindowInv'
  BY <1>30 DEF StoreRaises, Raise, TryBlock
<1>31. ASSUME NEW s \in Streams, Disconnect(s) PROVE WindowInv'
  BY <1>31 DEF Disconnect, TryBlock
<1>32. ASSUME NEW s \in Streams, Abort(s) PROVE WindowInv'
  BY <1>32 DEF Abort
<1>33. ASSUME NEW c \in Ctls, NEW r \in Runs, LookupCancel(c, r) PROVE WindowInv'
  BY <1>33 DEF LookupCancel
<1>34. ASSUME NEW c \in Ctls, LookupDelete(c) PROVE WindowInv'
  BY <1>34 DEF LookupDelete
<1>35. ASSUME NEW c \in Ctls, RequestCancel(c) PROVE WindowInv'
  BY <1>35 DEF RequestCancel
<1>36. ASSUME NEW c \in Ctls, ApplyCancel(c) PROVE WindowInv'
  BY <1>36 DEF ApplyCancel, CompleteRunRow
<1>37. ASSUME NEW c \in Ctls, ApplyDelete(c) PROVE WindowInv'
  BY <1>37 DEF ApplyDelete
<1>38. ASSUME NEW c \in Ctls, CtlFails(c) PROVE WindowInv'
  BY <1>38 DEF CtlFails
<1>39. ASSUME NEW c \in Ctls, NEW archive \in BOOLEAN, SetArchived(c, archive) PROVE WindowInv'
  BY <1>39 DEF SetArchived
<1>40. ASSUME Crash PROVE WindowInv'
  BY <1>40 DEF Crash
<1>41. ASSUME UNCHANGED vars PROVE WindowInv'
  BY <1>41 DEF vars
<1> HIDE DEF WindowInv, PostsAlone, Held, Active, TryBlock,
        TypeInv, TypeOK, TargetsKnown, tables, session,
        redis, streamVars, ctlVars, Goto
<1> QED
  BY <1>1, <1>2, <1>3, <1>4, <1>5, <1>6, <1>7, <1>8, <1>9, <1>10, <1>11,
     <1>12, <1>13, <1>14, <1>15, <1>16, <1>17, <1>18, <1>19, <1>20,
     <1>21, <1>22, <1>23, <1>24, <1>25, <1>26, <1>27, <1>28, <1>29,
     <1>30, <1>31, <1>32, <1>33, <1>34, <1>35, <1>36, <1>37, <1>38,
     <1>39, <1>40, <1>41
     DEF Next, PostStep, OpenStep, Progress, Mishap, CtlStep

LEMMA HeldAlone ==
  ASSUME WindowInv PROVE OneActiveRun
<1> DEFINE A == {r \in Runs : run[r] \in Active}
<1>1. \A q, r \in A : q = r
  BY DEF WindowInv, Held
<1>2. CASE A = {}
  BY <1>2, FS_EmptySet DEF OneActiveRun
<1>3. CASE A # {}
  <2>1. PICK r : A = {r}
    BY <1>1, <1>3
  <2> HIDE DEF A
  <2>2. Cardinality(A) = 1
    BY <2>1, FS_Singleton
  <2> USE DEF A
  <2> QED
    BY <2>2 DEF OneActiveRun
<1> QED
  BY <1>2, <1>3

\* Where clients stream runs by their id, as the front end does with a run it has
\* posted, two runs are active only after a post met another post, or an
\* execution that was about to start its run, between find_active_run and
\* create_run.
THEOREM TwoActiveOnlyByOverlap ==
  ASSUME Kinds \subseteq {"run"}
  PROVE  Spec /\ []PostsAlone => []OneActiveRun
<1>1. WindowInv => OneActiveRun
  BY HeldAlone
<1>2. TypeInv /\ PostsAlone /\ WindowInv /\ [Next]_vars => WindowInv'
  BY WindowInvStep
<1>3. Spec => []TypeInv
  BY TypeInvInit, TypeInvStep, PTL DEF Spec
<1> QED
  BY WindowInvInit, <1>1, <1>2, <1>3, PTL DEF Spec
=============================================================================
