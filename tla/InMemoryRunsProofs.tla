--------------------------- MODULE InMemoryRunsProofs ---------------------------
(***************************************************************************)
(* Theorems about InMemoryRuns for every value of its constants.           *)
(***************************************************************************)
EXTENDS InMemoryRuns, FiniteSetTheorems, TLAPS

---------------------------------------------------------------------------
(* Who executes what *)

EventTypes == Deciding \cup {"step", "export"}
StreamPcs == {"loop", "polled", "completed", "exported", "dropped"}
HandlerPcs == {"idle", "posting", "done"} \cup StreamPcs

Shape ==
    /\ active \in Runs \cup {NoRun}
    /\ current \in RunIds \cup {NoRun}
    /\ runStatus \in [Runs -> RunStatuses]
    /\ events \in [RunIds -> Seq(EventTypes)]
    /\ flags \subseteq RunIds
    /\ pc \in [Handlers -> HandlerPcs]
    /\ target \in [Handlers -> RunIds \cup {NoRun}]
    /\ candidate \in [RunIds -> {"none", "pending", "accepted", "rejected"}]
    /\ memory \in [RunIds -> {"none", "active", "expired", "deleted"}]

\* A handler executes the run it was given, or one of its own that no other can
\* name; a run in some handler's hand has left "created" for good.
Targets ==
    /\ \A h \in Handlers : target[h] \in Runs \cup {h, NoRun}
    /\ \A h \in Handlers : pc[h] = "idle" => target[h] = NoRun
    /\ \A h \in Handlers : pc[h] \in {"loop", "polled"} => h \in Streams /\ target[h] # NoRun
    /\ \A h \in Handlers : pc[h] \in {"completed", "exported"} => h \in Streams /\ target[h] \in Runs
    /\ \A h \in Posts : target[h] \in {h, NoRun}
    /\ \A h \in Handlers : target[h] \in Runs => runStatus[target[h]] \notin {"none", "created"}

\* While the loop of its stream goes on a run is running, or was cancelled.
Executing ==
    \A h \in Handlers : pc[h] \in {"loop", "polled"} /\ target[h] \in Runs =>
        /\ runStatus[target[h]] \in {"running", "cancelled"}
        /\ runStatus[target[h]] = "cancelled" => flags # {}

RunInv == Shape /\ Targets /\ ExecutedOnce /\ Executing

LEMMA RunInvInit == Init => RunInv
<1> SUFFICES ASSUME Init PROVE RunInv
  OBVIOUS
<1> USE ConstantsAssumption DEF Init, RunIds, Handlers
<1>1. Shape
  BY DEF Shape, RunStatuses, HandlerPcs
<1>2. Targets /\ ExecutedOnce /\ Executing
  BY DEF Targets, ExecutedOnce, Executing
<1> QED
  BY <1>1, <1>2 DEF RunInv

\* A memory table that the active memory of a run was added to.
LEMMA WithActiveType ==
  ASSUME NEW store \in [RunIds -> {"none", "active", "expired", "deleted"}], NEW r \in RunIds
  PROVE  WithActive(store, r) \in [RunIds -> {"none", "active", "expired", "deleted"}]
BY DEF WithActive

LEMMA StoreType ==
  ASSUME Shape, NEW r \in RunIds, StorePreferences(r)
  PROVE  /\ candidate' \in [RunIds -> {"none", "pending", "accepted", "rejected"}]
         /\ memory' \in [RunIds -> {"none", "active", "expired", "deleted"}]
<1>1. WithActive(memory, r) \in [RunIds -> {"none", "active", "expired", "deleted"}]
  BY WithActiveType DEF Shape
<1>2. candidate' \in {candidate, [candidate EXCEPT ![r] = "pending"], [candidate EXCEPT ![r] = "accepted"]}
  BY DEF StorePreferences
<1>3. memory' \in {memory, WithActive(memory, r)}
  BY DEF StorePreferences
<1> QED
  BY <1>1, <1>2, <1>3 DEF Shape

LEMMA ShapeStep == RunInv /\ [Next]_vars => Shape'
<1> SUFFICES ASSUME RunInv, [Next]_vars PROVE Shape'
  OBVIOUS
<1> USE ConstantsAssumption
    DEF RunInv, Shape, Targets, sessionVars, runVars, handlerVars, memoryVars, RunIds,
         Handlers, Goto, RunStatuses, HandlerPcs, StreamPcs, EventTypes, Deciding
<1>1. ASSUME NEW r \in Runs, CreateMessage(r) PROVE Shape'
  BY <1>1 DEF CreateMessage, ActiveRunBlocks, IsOpen, ActiveStatuses
<1>2. ASSUME NEW h \in Streams, NEW r \in Runs, OpenRun(h, r) PROVE Shape'
  BY <1>2 DEF OpenRun
<1>3. ASSUME NEW h \in Streams, OpenSession(h) PROVE Shape'
  BY <1>3 DEF OpenSession
<1>4. ASSUME NEW h \in Posts, StartPost(h) PROVE Shape'
  BY <1>4 DEF StartPost
<1>5. ASSUME NEW h \in Posts, PostReturns(h) PROVE Shape'
  BY <1>5 DEF PostReturns, DeriveStatus
<1>6. ASSUME NEW h \in Posts, PostRaises(h) PROVE Shape'
  BY <1>6 DEF PostRaises
<1>7. ASSUME NEW h \in Streams, Poll(h) PROVE Shape'
  BY <1>7 DEF Poll
<1>8. ASSUME NEW h \in Streams, SeeCancel(h) PROVE Shape'
  BY <1>8 DEF SeeCancel, SetRunStatus
<1>9. ASSUME NEW h \in Streams, SeeDisconnect(h) PROVE Shape'
  BY <1>9 DEF SeeDisconnect, SetRunStatus
<1>10. ASSUME NEW h \in Streams, AppendEvent(h) PROVE Shape'
  BY <1>10 DEF AppendEvent
<1>11. ASSUME NEW h \in Streams, RuntimeRaises(h) PROVE Shape'
  BY <1>11 DEF RuntimeRaises, SetRunStatus
<1>12. ASSUME NEW h \in Streams, Drop(h) PROVE Shape'
  BY <1>12 DEF Drop
<1>13. ASSUME NEW h \in Streams, EndWithoutExport(h) PROVE Shape'
  <2>1. target[h] \in RunIds /\ StorePreferences(target[h])
    BY <1>13 DEF EndWithoutExport, CompleteRun
  <2>2. /\ candidate' \in [RunIds -> {"none", "pending", "accepted", "rejected"}]
        /\ memory' \in [RunIds -> {"none", "active", "expired", "deleted"}]
    BY <2>1, StoreType
  <2> QED
    BY <1>13, <2>2 DEF EndWithoutExport, CompleteRun, SetRunStatus, DeriveStatus
<1>14. ASSUME NEW h \in Streams, EndWithExport(h) PROVE Shape'
  BY <1>14 DEF EndWithExport, CompleteRun, SetRunStatus, DeriveStatus
<1>15. ASSUME NEW h \in Streams, ExportAnswers(h) PROVE Shape'
  BY <1>15 DEF ExportAnswers
<1>16. ASSUME NEW h \in Streams, FileMemories(h) PROVE Shape'
  <2>1. target[h] \in RunIds /\ StorePreferences(target[h])
    BY <1>16 DEF FileMemories, CompleteRun
  <2>2. /\ candidate' \in [RunIds -> {"none", "pending", "accepted", "rejected"}]
        /\ memory' \in [RunIds -> {"none", "active", "expired", "deleted"}]
    BY <2>1, StoreType
  <2> QED
    BY <1>16, <2>2 DEF FileMemories, CompleteRun, SetRunStatus, DeriveStatus
<1>17. ASSUME NEW h \in Streams, EndSession(h) PROVE Shape'
  <2>1. target[h] \in RunIds /\ StorePreferences(target[h])
    BY <1>17 DEF EndSession, CompleteRun
  <2>2. /\ candidate' \in [RunIds -> {"none", "pending", "accepted", "rejected"}]
        /\ memory' \in [RunIds -> {"none", "active", "expired", "deleted"}]
    BY <2>1, StoreType
  <2> QED
    BY <1>17, <2>2 DEF EndSession, CompleteRun, SetRunStatus, DeriveStatus
<1>18. ASSUME NEW r \in RunIds, CancelRun(r) PROVE Shape'
  BY <1>18 DEF CancelRun
<1>19. ASSUME NEW r \in Handled, AcceptCandidate(r) PROVE Shape'
  BY <1>19, WithActiveType DEF AcceptCandidate
<1>20. ASSUME NEW r \in Handled, RejectCandidate(r) PROVE Shape'
  BY <1>20 DEF RejectCandidate
<1>21. ASSUME NEW r \in Handled, DeleteMemory(r) PROVE Shape'
  BY <1>21 DEF DeleteMemory
<1>22. ASSUME SetArchived PROVE Shape'
  BY <1>22 DEF SetArchived
<1>23. ASSUME DeleteSession PROVE Shape'
  BY <1>23 DEF DeleteSession
<1>24. ASSUME UNCHANGED vars PROVE Shape'
  BY <1>24 DEF vars
<1> HIDE DEF RunInv, Shape, Targets, sessionVars, runVars, handlerVars, memoryVars, RunIds,
     Handlers, Goto, RunStatuses, HandlerPcs, StreamPcs, EventTypes, Deciding
<1> QED
  BY <1>1, <1>2, <1>3, <1>4, <1>5, <1>6, <1>7, <1>8, <1>9, <1>10, <1>11, <1>12, <1>13, <1>14,
       <1>15, <1>16, <1>17, <1>18, <1>19, <1>20, <1>21, <1>22, <1>23, <1>24
     DEF Next, StreamStep

LEMMA TargetsStep == RunInv /\ [Next]_vars => Targets'
<1> SUFFICES ASSUME RunInv, [Next]_vars PROVE Targets'
  OBVIOUS
<1> USE ConstantsAssumption
    DEF RunInv, Shape, Targets, ExecutedOnce, Executing, sessionVars, runVars, handlerVars,
         memoryVars, RunIds, Handlers, Goto
<1>1. ASSUME NEW r \in Runs, CreateMessage(r) PROVE Targets'
  BY <1>1 DEF CreateMessage, ActiveRunBlocks, IsOpen, ActiveStatuses
<1>2. ASSUME NEW h \in Streams, NEW r \in Runs, OpenRun(h, r) PROVE Targets'
  BY <1>2 DEF OpenRun
<1>3. ASSUME NEW h \in Streams, OpenSession(h) PROVE Targets'
  BY <1>3 DEF OpenSession
<1>4. ASSUME NEW h \in Posts, StartPost(h) PROVE Targets'
  BY <1>4 DEF StartPost
<1>5. ASSUME NEW h \in Posts, PostReturns(h) PROVE Targets'
  BY <1>5 DEF PostReturns, DeriveStatus
<1>6. ASSUME NEW h \in Posts, PostRaises(h) PROVE Targets'
  BY <1>6 DEF PostRaises
<1>7. ASSUME NEW h \in Streams, Poll(h) PROVE Targets'
  BY <1>7 DEF Poll
<1>8. ASSUME NEW h \in Streams, SeeCancel(h) PROVE Targets'
  BY <1>8 DEF SeeCancel, SetRunStatus
<1>9. ASSUME NEW h \in Streams, SeeDisconnect(h) PROVE Targets'
  BY <1>9 DEF SeeDisconnect, SetRunStatus
<1>10. ASSUME NEW h \in Streams, AppendEvent(h) PROVE Targets'
  BY <1>10 DEF AppendEvent
<1>11. ASSUME NEW h \in Streams, RuntimeRaises(h) PROVE Targets'
  BY <1>11 DEF RuntimeRaises, SetRunStatus
<1>12. ASSUME NEW h \in Streams, Drop(h) PROVE Targets'
  BY <1>12 DEF Drop
<1>13. ASSUME NEW h \in Streams, EndWithoutExport(h) PROVE Targets'
  BY <1>13 DEF EndWithoutExport, CompleteRun, SetRunStatus, StorePreferences, DeriveStatus
<1>14. ASSUME NEW h \in Streams, EndWithExport(h) PROVE Targets'
  BY <1>14 DEF EndWithExport, CompleteRun, SetRunStatus, DeriveStatus
<1>15. ASSUME NEW h \in Streams, ExportAnswers(h) PROVE Targets'
  BY <1>15 DEF ExportAnswers
<1>16. ASSUME NEW h \in Streams, FileMemories(h) PROVE Targets'
  BY <1>16 DEF FileMemories, StorePreferences
<1>17. ASSUME NEW h \in Streams, EndSession(h) PROVE Targets'
  BY <1>17 DEF EndSession, StorePreferences, DeriveStatus
<1>18. ASSUME NEW r \in RunIds, CancelRun(r) PROVE Targets'
  BY <1>18 DEF CancelRun
<1>19. ASSUME NEW r \in Handled, AcceptCandidate(r) PROVE Targets'
  BY <1>19 DEF AcceptCandidate
<1>20. ASSUME NEW r \in Handled, RejectCandidate(r) PROVE Targets'
  BY <1>20 DEF RejectCandidate
<1>21. ASSUME NEW r \in Handled, DeleteMemory(r) PROVE Targets'
  BY <1>21 DEF DeleteMemory
<1>22. ASSUME SetArchived PROVE Targets'
  BY <1>22 DEF SetArchived
<1>23. ASSUME DeleteSession PROVE Targets'
  BY <1>23 DEF DeleteSession
<1>24. ASSUME UNCHANGED vars PROVE Targets'
  BY <1>24 DEF vars
<1> HIDE DEF RunInv, Shape, Targets, ExecutedOnce, Executing, sessionVars, runVars,
     handlerVars, memoryVars, RunIds, Handlers, Goto
<1> QED
  BY <1>1, <1>2, <1>3, <1>4, <1>5, <1>6, <1>7, <1>8, <1>9, <1>10, <1>11, <1>12, <1>13, <1>14,
       <1>15, <1>16, <1>17, <1>18, <1>19, <1>20, <1>21, <1>22, <1>23, <1>24
     DEF Next, StreamStep

LEMMA ExecutedOnceStep == RunInv /\ [Next]_vars => ExecutedOnce'
<1> SUFFICES ASSUME RunInv, [Next]_vars PROVE ExecutedOnce'
  OBVIOUS
<1> USE ConstantsAssumption
    DEF RunInv, Shape, Targets, ExecutedOnce, Executing, sessionVars, runVars, handlerVars,
         memoryVars, RunIds, Handlers, Goto
<1>1. ASSUME NEW r \in Runs, CreateMessage(r) PROVE ExecutedOnce'
  BY <1>1 DEF CreateMessage, ActiveRunBlocks, IsOpen, ActiveStatuses
<1>2. ASSUME NEW h \in Streams, NEW r \in Runs, OpenRun(h, r) PROVE ExecutedOnce'
  BY <1>2 DEF OpenRun
<1>3. ASSUME NEW h \in Streams, OpenSession(h) PROVE ExecutedOnce'
  BY <1>3 DEF OpenSession
<1>4. ASSUME NEW h \in Posts, StartPost(h) PROVE ExecutedOnce'
  BY <1>4 DEF StartPost
<1>5. ASSUME NEW h \in Posts, PostReturns(h) PROVE ExecutedOnce'
  BY <1>5 DEF PostReturns, DeriveStatus
<1>6. ASSUME NEW h \in Posts, PostRaises(h) PROVE ExecutedOnce'
  BY <1>6 DEF PostRaises
<1>7. ASSUME NEW h \in Streams, Poll(h) PROVE ExecutedOnce'
  BY <1>7 DEF Poll
<1>8. ASSUME NEW h \in Streams, SeeCancel(h) PROVE ExecutedOnce'
  BY <1>8 DEF SeeCancel, SetRunStatus
<1>9. ASSUME NEW h \in Streams, SeeDisconnect(h) PROVE ExecutedOnce'
  BY <1>9 DEF SeeDisconnect, SetRunStatus
<1>10. ASSUME NEW h \in Streams, AppendEvent(h) PROVE ExecutedOnce'
  BY <1>10 DEF AppendEvent
<1>11. ASSUME NEW h \in Streams, RuntimeRaises(h) PROVE ExecutedOnce'
  BY <1>11 DEF RuntimeRaises, SetRunStatus
<1>12. ASSUME NEW h \in Streams, Drop(h) PROVE ExecutedOnce'
  BY <1>12 DEF Drop
<1>13. ASSUME NEW h \in Streams, EndWithoutExport(h) PROVE ExecutedOnce'
  BY <1>13 DEF EndWithoutExport, CompleteRun, SetRunStatus, StorePreferences, DeriveStatus
<1>14. ASSUME NEW h \in Streams, EndWithExport(h) PROVE ExecutedOnce'
  BY <1>14 DEF EndWithExport, CompleteRun, SetRunStatus, DeriveStatus
<1>15. ASSUME NEW h \in Streams, ExportAnswers(h) PROVE ExecutedOnce'
  BY <1>15 DEF ExportAnswers
<1>16. ASSUME NEW h \in Streams, FileMemories(h) PROVE ExecutedOnce'
  BY <1>16 DEF FileMemories, StorePreferences
<1>17. ASSUME NEW h \in Streams, EndSession(h) PROVE ExecutedOnce'
  BY <1>17 DEF EndSession, StorePreferences, DeriveStatus
<1>18. ASSUME NEW r \in RunIds, CancelRun(r) PROVE ExecutedOnce'
  BY <1>18 DEF CancelRun
<1>19. ASSUME NEW r \in Handled, AcceptCandidate(r) PROVE ExecutedOnce'
  BY <1>19 DEF AcceptCandidate
<1>20. ASSUME NEW r \in Handled, RejectCandidate(r) PROVE ExecutedOnce'
  BY <1>20 DEF RejectCandidate
<1>21. ASSUME NEW r \in Handled, DeleteMemory(r) PROVE ExecutedOnce'
  BY <1>21 DEF DeleteMemory
<1>22. ASSUME SetArchived PROVE ExecutedOnce'
  BY <1>22 DEF SetArchived
<1>23. ASSUME DeleteSession PROVE ExecutedOnce'
  BY <1>23 DEF DeleteSession
<1>24. ASSUME UNCHANGED vars PROVE ExecutedOnce'
  BY <1>24 DEF vars
<1> HIDE DEF RunInv, Shape, Targets, ExecutedOnce, Executing, sessionVars, runVars,
     handlerVars, memoryVars, RunIds, Handlers, Goto
<1> QED
  BY <1>1, <1>2, <1>3, <1>4, <1>5, <1>6, <1>7, <1>8, <1>9, <1>10, <1>11, <1>12, <1>13, <1>14,
       <1>15, <1>16, <1>17, <1>18, <1>19, <1>20, <1>21, <1>22, <1>23, <1>24
     DEF Next, StreamStep

LEMMA ExecutingStep == RunInv /\ [Next]_vars => Executing'
<1> SUFFICES ASSUME RunInv, [Next]_vars PROVE Executing'
  OBVIOUS
<1> USE ConstantsAssumption
    DEF RunInv, Shape, Targets, ExecutedOnce, Executing, sessionVars, runVars, handlerVars,
         memoryVars, RunIds, Handlers, Goto
<1>1. ASSUME NEW r \in Runs, CreateMessage(r) PROVE Executing'
  BY <1>1 DEF CreateMessage, ActiveRunBlocks, IsOpen, ActiveStatuses
<1>2. ASSUME NEW h \in Streams, NEW r \in Runs, OpenRun(h, r) PROVE Executing'
  BY <1>2 DEF OpenRun
<1>3. ASSUME NEW h \in Streams, OpenSession(h) PROVE Executing'
  BY <1>3 DEF OpenSession
<1>4. ASSUME NEW h \in Posts, StartPost(h) PROVE Executing'
  BY <1>4 DEF StartPost
<1>5. ASSUME NEW h \in Posts, PostReturns(h) PROVE Executing'
  BY <1>5 DEF PostReturns, DeriveStatus
<1>6. ASSUME NEW h \in Posts, PostRaises(h) PROVE Executing'
  BY <1>6 DEF PostRaises
<1>7. ASSUME NEW h \in Streams, Poll(h) PROVE Executing'
  BY <1>7 DEF Poll
<1>8. ASSUME NEW h \in Streams, SeeCancel(h) PROVE Executing'
  BY <1>8 DEF SeeCancel, SetRunStatus
<1>9. ASSUME NEW h \in Streams, SeeDisconnect(h) PROVE Executing'
  BY <1>9 DEF SeeDisconnect, SetRunStatus
<1>10. ASSUME NEW h \in Streams, AppendEvent(h) PROVE Executing'
  BY <1>10 DEF AppendEvent
<1>11. ASSUME NEW h \in Streams, RuntimeRaises(h) PROVE Executing'
  BY <1>11 DEF RuntimeRaises, SetRunStatus
<1>12. ASSUME NEW h \in Streams, Drop(h) PROVE Executing'
  BY <1>12 DEF Drop
<1>13. ASSUME NEW h \in Streams, EndWithoutExport(h) PROVE Executing'
  BY <1>13 DEF EndWithoutExport, CompleteRun, SetRunStatus, StorePreferences, DeriveStatus
<1>14. ASSUME NEW h \in Streams, EndWithExport(h) PROVE Executing'
  BY <1>14 DEF EndWithExport, CompleteRun, SetRunStatus, DeriveStatus
<1>15. ASSUME NEW h \in Streams, ExportAnswers(h) PROVE Executing'
  BY <1>15 DEF ExportAnswers
<1>16. ASSUME NEW h \in Streams, FileMemories(h) PROVE Executing'
  BY <1>16 DEF FileMemories, StorePreferences
<1>17. ASSUME NEW h \in Streams, EndSession(h) PROVE Executing'
  BY <1>17 DEF EndSession, StorePreferences, DeriveStatus
<1>18. ASSUME NEW r \in RunIds, CancelRun(r) PROVE Executing'
  BY <1>18 DEF CancelRun
<1>19. ASSUME NEW r \in Handled, AcceptCandidate(r) PROVE Executing'
  BY <1>19 DEF AcceptCandidate
<1>20. ASSUME NEW r \in Handled, RejectCandidate(r) PROVE Executing'
  BY <1>20 DEF RejectCandidate
<1>21. ASSUME NEW r \in Handled, DeleteMemory(r) PROVE Executing'
  BY <1>21 DEF DeleteMemory
<1>22. ASSUME SetArchived PROVE Executing'
  BY <1>22 DEF SetArchived
<1>23. ASSUME DeleteSession PROVE Executing'
  BY <1>23 DEF DeleteSession
<1>24. ASSUME UNCHANGED vars PROVE Executing'
  BY <1>24 DEF vars
<1> HIDE DEF RunInv, Shape, Targets, ExecutedOnce, Executing, sessionVars, runVars,
     handlerVars, memoryVars, RunIds, Handlers, Goto
<1> QED
  BY <1>1, <1>2, <1>3, <1>4, <1>5, <1>6, <1>7, <1>8, <1>9, <1>10, <1>11, <1>12, <1>13, <1>14,
       <1>15, <1>16, <1>17, <1>18, <1>19, <1>20, <1>21, <1>22, <1>23, <1>24
     DEF Next, StreamStep

LEMMA RunInvStep == RunInv /\ [Next]_vars => RunInv'
BY ShapeStep, TargetsStep, ExecutedOnceStep, ExecutingStep DEF RunInv

\* No two handlers execute one run.
THEOREM RunsAreExecutedOnce == Spec => []ExecutedOnce
<1>1. RunInv => ExecutedOnce
  BY DEF RunInv
<1> QED
  BY RunInvInit, RunInvStep, <1>1, PTL DEF Spec

---------------------------------------------------------------------------
(* What happens to a settled run *)

\* The step formula of SettledRunIsOnlyReplayed.
SettledStaysSettled ==
    \A r \in Runs :
          runStatus[r] \in {"completed", "failed", "awaiting_user"} =>
              /\ runStatus'[r] \in {runStatus[r], "cancelled"}
              /\ events'[r] \in {events[r], Append(events[r], "export")}

LEMMA SettledStep == RunInv /\ [Next]_vars => SettledStaysSettled
<1> SUFFICES ASSUME RunInv, [Next]_vars PROVE SettledStaysSettled
  OBVIOUS
<1> USE ConstantsAssumption
    DEF RunInv, Shape, Targets, ExecutedOnce, Executing, sessionVars, runVars, handlerVars,
         memoryVars, RunIds, Handlers, Goto, SettledStaysSettled
<1>1. ASSUME NEW r \in Runs, CreateMessage(r) PROVE SettledStaysSettled
  BY <1>1 DEF CreateMessage, ActiveRunBlocks, IsOpen, ActiveStatuses
<1>2. ASSUME NEW h \in Streams, NEW r \in Runs, OpenRun(h, r) PROVE
     SettledStaysSettled
  BY <1>2 DEF OpenRun
<1>3. ASSUME NEW h \in Streams, OpenSession(h) PROVE SettledStaysSettled
  BY <1>3 DEF OpenSession
<1>4. ASSUME NEW h \in Posts, StartPost(h) PROVE SettledStaysSettled
  BY <1>4 DEF StartPost
<1>5. ASSUME NEW h \in Posts, PostReturns(h) PROVE SettledStaysSettled
  BY <1>5 DEF PostReturns, DeriveStatus
<1>6. ASSUME NEW h \in Posts, PostRaises(h) PROVE SettledStaysSettled
  BY <1>6 DEF PostRaises
<1>7. ASSUME NEW h \in Streams, Poll(h) PROVE SettledStaysSettled
  BY <1>7 DEF Poll
<1>8. ASSUME NEW h \in Streams, SeeCancel(h) PROVE SettledStaysSettled
  BY <1>8 DEF SeeCancel, SetRunStatus
<1>9. ASSUME NEW h \in Streams, SeeDisconnect(h) PROVE SettledStaysSettled
  BY <1>9 DEF SeeDisconnect, SetRunStatus
<1>10. ASSUME NEW h \in Streams, AppendEvent(h) PROVE SettledStaysSettled
  <2>1. target[h] \in RunIds /\ pc[h] \in {"loop", "polled"}
    BY <1>10 DEF AppendEvent
  <2>2. ASSUME target[h] \in Runs
        PROVE  runStatus[target[h]] \in {"running", "cancelled"}
    BY <2>1, <2>2
  <2>3. \A r \in Runs : r # target[h] => events'[r] = events[r] /\ runStatus'[r] = runStatus[r]
    BY <1>10, <2>1 DEF AppendEvent, SetRunStatus
  <2> QED
    BY <2>2, <2>3
<1>11. ASSUME NEW h \in Streams, RuntimeRaises(h) PROVE SettledStaysSettled
  <2>1. target[h] \in RunIds /\ pc[h] \in {"loop", "polled"}
    BY <1>11 DEF RuntimeRaises
  <2>2. ASSUME target[h] \in Runs
        PROVE  runStatus[target[h]] \in {"running", "cancelled"}
    BY <2>1, <2>2
  <2>3. \A r \in Runs : r # target[h] => events'[r] = events[r] /\ runStatus'[r] = runStatus[r]
    BY <1>11, <2>1 DEF RuntimeRaises, SetRunStatus
  <2> QED
    BY <2>2, <2>3
<1>12. ASSUME NEW h \in Streams, Drop(h) PROVE SettledStaysSettled
  BY <1>12 DEF Drop
<1>13. ASSUME NEW h \in Streams, EndWithoutExport(h) PROVE SettledStaysSettled
  <2>1. target[h] \in RunIds /\ pc[h] \in {"loop", "polled"}
    BY <1>13 DEF EndWithoutExport, CompleteRun
  <2>2. ASSUME target[h] \in Runs
        PROVE  runStatus[target[h]] \in {"running", "cancelled"}
    BY <2>1, <2>2
  <2>3. \A r \in Runs : r # target[h] => events'[r] = events[r] /\ runStatus'[r] = runStatus[r]
    BY <1>13, <2>1 DEF EndWithoutExport, CompleteRun, SetRunStatus, DeriveStatus
  <2> QED
    BY <2>2, <2>3
<1>14. ASSUME NEW h \in Streams, EndWithExport(h) PROVE SettledStaysSettled
  <2>1. target[h] \in RunIds /\ pc[h] \in {"loop", "polled"}
    BY <1>14 DEF EndWithExport, CompleteRun
  <2>2. ASSUME target[h] \in Runs
        PROVE  runStatus[target[h]] \in {"running", "cancelled"}
    BY <2>1, <2>2
  <2>3. \A r \in Runs : r # target[h] => events'[r] = events[r] /\ runStatus'[r] = runStatus[r]
    BY <1>14, <2>1 DEF EndWithExport, CompleteRun, SetRunStatus, DeriveStatus
  <2> QED
    BY <2>2, <2>3
<1>15. ASSUME NEW h \in Streams, ExportAnswers(h) PROVE SettledStaysSettled
  BY <1>15 DEF ExportAnswers
<1>16. ASSUME NEW h \in Streams, FileMemories(h) PROVE SettledStaysSettled
  BY <1>16 DEF FileMemories, StorePreferences
<1>17. ASSUME NEW h \in Streams, EndSession(h) PROVE SettledStaysSettled
  BY <1>17 DEF EndSession, StorePreferences, DeriveStatus
<1>18. ASSUME NEW r \in RunIds, CancelRun(r) PROVE SettledStaysSettled
  BY <1>18 DEF CancelRun
<1>19. ASSUME NEW r \in Handled, AcceptCandidate(r) PROVE SettledStaysSettled
  BY <1>19 DEF AcceptCandidate
<1>20. ASSUME NEW r \in Handled, RejectCandidate(r) PROVE SettledStaysSettled
  BY <1>20 DEF RejectCandidate
<1>21. ASSUME NEW r \in Handled, DeleteMemory(r) PROVE SettledStaysSettled
  BY <1>21 DEF DeleteMemory
<1>22. ASSUME SetArchived PROVE SettledStaysSettled
  BY <1>22 DEF SetArchived
<1>23. ASSUME DeleteSession PROVE SettledStaysSettled
  BY <1>23 DEF DeleteSession
<1>24. ASSUME UNCHANGED vars PROVE SettledStaysSettled
  BY <1>24 DEF vars
<1> HIDE DEF RunInv, Shape, Targets, ExecutedOnce, Executing, sessionVars, runVars,
     handlerVars, memoryVars, RunIds, Handlers, Goto, SettledStaysSettled
<1> QED
  BY <1>1, <1>2, <1>3, <1>4, <1>5, <1>6, <1>7, <1>8, <1>9, <1>10, <1>11, <1>12, <1>13, <1>14,
       <1>15, <1>16, <1>17, <1>18, <1>19, <1>20, <1>21, <1>22, <1>23, <1>24
     DEF Next, StreamStep

\* The status of a settled run changes but to cancelled, its events by an export.
THEOREM SettledRunsAreReplayed == Spec => SettledRunIsOnlyReplayed
<1>1. RunInv /\ [Next]_vars => [SettledStaysSettled]_vars
  BY SettledStep
<1>2. Spec => [][SettledStaysSettled]_vars
  BY RunInvInit, RunInvStep, <1>1, PTL DEF Spec
<1> QED
  BY <1>2 DEF SettledRunIsOnlyReplayed, SettledStaysSettled

---------------------------------------------------------------------------
(* One open run *)

\* Until something is cancelled only the active run can be open.
OpenInv == flags = {} => \A r \in Runs : IsOpen(r) => r = active

LEMMA OpenInvInit == Init => OpenInv
BY DEF Init, OpenInv, IsOpen, ActiveStatuses

LEMMA OpenInvStep == RunInv /\ OpenInv /\ [Next]_vars => OpenInv'
<1> SUFFICES ASSUME RunInv, OpenInv, [Next]_vars PROVE OpenInv'
  OBVIOUS
<1> USE ConstantsAssumption
    DEF OpenInv, IsOpen, ActiveStatuses, RunInv, Shape, Targets, ExecutedOnce, Executing,
         sessionVars, runVars, handlerVars, memoryVars, RunIds, Handlers, Goto
<1>1. ASSUME NEW r \in Runs, CreateMessage(r) PROVE OpenInv'
  BY <1>1 DEF CreateMessage, ActiveRunBlocks, IsOpen, ActiveStatuses
<1>2. ASSUME NEW h \in Streams, NEW r \in Runs, OpenRun(h, r) PROVE OpenInv'
  BY <1>2 DEF OpenRun
<1>3. ASSUME NEW h \in Streams, OpenSession(h) PROVE OpenInv'
  BY <1>3 DEF OpenSession
<1>4. ASSUME NEW h \in Posts, StartPost(h) PROVE OpenInv'
  BY <1>4 DEF StartPost
<1>5. ASSUME NEW h \in Posts, PostReturns(h) PROVE OpenInv'
  BY <1>5 DEF PostReturns, DeriveStatus
<1>6. ASSUME NEW h \in Posts, PostRaises(h) PROVE OpenInv'
  BY <1>6 DEF PostRaises
<1>7. ASSUME NEW h \in Streams, Poll(h) PROVE OpenInv'
  BY <1>7 DEF Poll
<1>8. ASSUME NEW h \in Streams, SeeCancel(h) PROVE OpenInv'
  BY <1>8 DEF SeeCancel, SetRunStatus
<1>9. ASSUME NEW h \in Streams, SeeDisconnect(h) PROVE OpenInv'
  BY <1>9 DEF SeeDisconnect, SetRunStatus
<1>10. ASSUME NEW h \in Streams, AppendEvent(h) PROVE OpenInv'
  BY <1>10 DEF AppendEvent
<1>11. ASSUME NEW h \in Streams, RuntimeRaises(h) PROVE OpenInv'
  BY <1>11 DEF RuntimeRaises, SetRunStatus
<1>12. ASSUME NEW h \in Streams, Drop(h) PROVE OpenInv'
  BY <1>12 DEF Drop
<1>13. ASSUME NEW h \in Streams, EndWithoutExport(h) PROVE OpenInv'
  BY <1>13 DEF EndWithoutExport, CompleteRun, SetRunStatus, StorePreferences, DeriveStatus
<1>14. ASSUME NEW h \in Streams, EndWithExport(h) PROVE OpenInv'
  BY <1>14 DEF EndWithExport, CompleteRun, SetRunStatus, DeriveStatus
<1>15. ASSUME NEW h \in Streams, ExportAnswers(h) PROVE OpenInv'
  BY <1>15 DEF ExportAnswers
<1>16. ASSUME NEW h \in Streams, FileMemories(h) PROVE OpenInv'
  BY <1>16 DEF FileMemories, StorePreferences
<1>17. ASSUME NEW h \in Streams, EndSession(h) PROVE OpenInv'
  BY <1>17 DEF EndSession, StorePreferences, DeriveStatus
<1>18. ASSUME NEW r \in RunIds, CancelRun(r) PROVE OpenInv'
  BY <1>18 DEF CancelRun
<1>19. ASSUME NEW r \in Handled, AcceptCandidate(r) PROVE OpenInv'
  BY <1>19 DEF AcceptCandidate
<1>20. ASSUME NEW r \in Handled, RejectCandidate(r) PROVE OpenInv'
  BY <1>20 DEF RejectCandidate
<1>21. ASSUME NEW r \in Handled, DeleteMemory(r) PROVE OpenInv'
  BY <1>21 DEF DeleteMemory
<1>22. ASSUME SetArchived PROVE OpenInv'
  BY <1>22 DEF SetArchived
<1>23. ASSUME DeleteSession PROVE OpenInv'
  BY <1>23 DEF DeleteSession
<1>24. ASSUME UNCHANGED vars PROVE OpenInv'
  BY <1>24 DEF vars
<1> HIDE DEF OpenInv, IsOpen, ActiveStatuses, RunInv, Shape, Targets, ExecutedOnce, Executing,
     sessionVars, runVars, handlerVars, memoryVars, RunIds, Handlers, Goto
<1> QED
  BY <1>1, <1>2, <1>3, <1>4, <1>5, <1>6, <1>7, <1>8, <1>9, <1>10, <1>11, <1>12, <1>13, <1>14,
       <1>15, <1>16, <1>17, <1>18, <1>19, <1>20, <1>21, <1>22, <1>23, <1>24
     DEF Next, StreamStep

\* Two runs of a session are open together only after some cancel.
THEOREM OneRunIsOpen == Spec => []OneOpenRunUnlessCancelled
<1>1. ASSUME OpenInv PROVE OneOpenRunUnlessCancelled
  <2> DEFINE open == {r \in Runs : IsOpen(r)}
  <2>1. ASSUME flags = {} PROVE Cardinality(open) <= 1
    <3>1. open \in SUBSET {active}
      BY <1>1, <2>1 DEF OpenInv
    <3>2. IsFiniteSet({active}) /\ Cardinality({active}) = 1
      BY FS_Singleton
    <3> HIDE DEF open
    <3> QED
      BY <3>1, <3>2, FS_Subset
  <2>2. ASSUME flags = {} PROVE Cardinality(open) \in Nat
    <3>1. open \in SUBSET {active}
      BY <1>1, <2>2 DEF OpenInv
    <3>2. IsFiniteSet({active})
      BY FS_Singleton
    <3> HIDE DEF open
    <3>3. IsFiniteSet(open)
      BY <3>1, <3>2, FS_Subset
    <3> QED
      BY <3>3, FS_CardinalityType
  <2> QED
    BY <2>1, <2>2 DEF OneOpenRunUnlessCancelled
<1> QED
  BY RunInvInit, RunInvStep, OpenInvInit, OpenInvStep, <1>1, PTL DEF Spec

---------------------------------------------------------------------------
(* A session shown as running *)

LEMMA WorkInit == Init => RunningSessionHasWork
BY DEF Init, RunningSessionHasWork

LEMMA WorkStep == RunInv /\ RunningSessionHasWork /\ [Next]_vars => RunningSessionHasWork'
<1> SUFFICES ASSUME RunInv, RunningSessionHasWork, [Next]_vars PROVE RunningSessionHasWork'
  OBVIOUS
<1> USE ConstantsAssumption
    DEF RunningSessionHasWork, IsOpen, ActiveStatuses, RunInv, Shape, Targets, ExecutedOnce,
         Executing, sessionVars, runVars, handlerVars, memoryVars, RunIds, Handlers, Goto
<1>1. ASSUME NEW r \in Runs, CreateMessage(r) PROVE RunningSessionHasWork'
  BY <1>1 DEF CreateMessage, ActiveRunBlocks, IsOpen, ActiveStatuses
<1>2. ASSUME NEW h \in Streams, NEW r \in Runs, OpenRun(h, r) PROVE RunningSessionHasWork'
  BY <1>2 DEF OpenRun
<1>3. ASSUME NEW h \in Streams, OpenSession(h) PROVE RunningSessionHasWork'
  BY <1>3 DEF OpenSession
<1>4. ASSUME NEW h \in Posts, StartPost(h) PROVE RunningSessionHasWork'
  BY <1>4 DEF StartPost
<1>5. ASSUME NEW h \in Posts, PostReturns(h) PROVE RunningSessionHasWork'
  BY <1>5 DEF PostReturns, DeriveStatus
<1>6. ASSUME NEW h \in Posts, PostRaises(h) PROVE RunningSessionHasWork'
  BY <1>6 DEF PostRaises
<1>7. ASSUME NEW h \in Streams, Poll(h) PROVE RunningSessionHasWork'
  BY <1>7 DEF Poll
<1>8. ASSUME NEW h \in Streams, SeeCancel(h) PROVE RunningSessionHasWork'
  BY <1>8 DEF SeeCancel, SetRunStatus
<1>9. ASSUME NEW h \in Streams, SeeDisconnect(h) PROVE RunningSessionHasWork'
  BY <1>9 DEF SeeDisconnect, SetRunStatus
<1>10. ASSUME NEW h \in Streams, AppendEvent(h) PROVE RunningSessionHasWork'
  BY <1>10 DEF AppendEvent
<1>11. ASSUME NEW h \in Streams, RuntimeRaises(h) PROVE RunningSessionHasWork'
  BY <1>11 DEF RuntimeRaises, SetRunStatus
<1>12. ASSUME NEW h \in Streams, Drop(h) PROVE RunningSessionHasWork'
  BY <1>12 DEF Drop
<1>13. ASSUME NEW h \in Streams, EndWithoutExport(h) PROVE RunningSessionHasWork'
  BY <1>13 DEF EndWithoutExport, CompleteRun, SetRunStatus, StorePreferences, DeriveStatus
<1>14. ASSUME NEW h \in Streams, EndWithExport(h) PROVE RunningSessionHasWork'
  BY <1>14 DEF EndWithExport, CompleteRun, SetRunStatus, DeriveStatus
<1>15. ASSUME NEW h \in Streams, ExportAnswers(h) PROVE RunningSessionHasWork'
  BY <1>15 DEF ExportAnswers
<1>16. ASSUME NEW h \in Streams, FileMemories(h) PROVE RunningSessionHasWork'
  BY <1>16 DEF FileMemories, StorePreferences
<1>17. ASSUME NEW h \in Streams, EndSession(h) PROVE RunningSessionHasWork'
  BY <1>17 DEF EndSession, StorePreferences, DeriveStatus
<1>18. ASSUME NEW r \in RunIds, CancelRun(r) PROVE RunningSessionHasWork'
  BY <1>18 DEF CancelRun
<1>19. ASSUME NEW r \in Handled, AcceptCandidate(r) PROVE RunningSessionHasWork'
  BY <1>19 DEF AcceptCandidate
<1>20. ASSUME NEW r \in Handled, RejectCandidate(r) PROVE RunningSessionHasWork'
  BY <1>20 DEF RejectCandidate
<1>21. ASSUME NEW r \in Handled, DeleteMemory(r) PROVE RunningSessionHasWork'
  BY <1>21 DEF DeleteMemory
<1>22. ASSUME SetArchived PROVE RunningSessionHasWork'
  BY <1>22 DEF SetArchived
<1>23. ASSUME DeleteSession PROVE RunningSessionHasWork'
  BY <1>23 DEF DeleteSession
<1>24. ASSUME UNCHANGED vars PROVE RunningSessionHasWork'
  BY <1>24 DEF vars
<1> HIDE DEF RunningSessionHasWork, IsOpen, ActiveStatuses, RunInv, Shape, Targets,
     ExecutedOnce, Executing, sessionVars, runVars, handlerVars, memoryVars, RunIds, Handlers,
     Goto
<1> QED
  BY <1>1, <1>2, <1>3, <1>4, <1>5, <1>6, <1>7, <1>8, <1>9, <1>10, <1>11, <1>12, <1>13, <1>14,
       <1>15, <1>16, <1>17, <1>18, <1>19, <1>20, <1>21, <1>22, <1>23, <1>24
     DEF Next, StreamStep

\* A session shown as running has an open run or a stream of its own.
THEOREM RunningSessionsWork == Spec => []RunningSessionHasWork
BY RunInvInit, RunInvStep, WorkInit, WorkStep, PTL DEF Spec

---------------------------------------------------------------------------
(* Preferences *)

LEMMA WithActiveKeepsOne ==
  ASSUME NEW r \in RunIds, Shape, OneActivePerKey, memory' = WithActive(memory, r)
  PROVE  OneActivePerKey'
BY DEF WithActive, OneActivePerKey, Shape

LEMMA OneActiveInit == Init => OneActivePerKey
BY DEF Init, OneActivePerKey

LEMMA OneActiveStep == RunInv /\ OneActivePerKey /\ [Next]_vars => OneActivePerKey'
<1> SUFFICES ASSUME RunInv, OneActivePerKey, [Next]_vars PROVE OneActivePerKey'
  OBVIOUS
<1>0. Shape /\ Targets
  BY DEF RunInv
<1>1. ASSUME UNCHANGED memory PROVE OneActivePerKey'
  BY <1>1 DEF OneActivePerKey
<1>2. ASSUME NEW r \in RunIds, StorePreferences(r) PROVE OneActivePerKey'
  BY <1>0, <1>1, <1>2, WithActiveKeepsOne DEF StorePreferences
<1>3. ASSUME NEW h \in Streams, EndWithoutExport(h) \/ FileMemories(h) \/ EndSession(h)
      PROVE  OneActivePerKey'
  <2>1. StorePreferences(target[h])
    BY <1>3 DEF EndWithoutExport, FileMemories, EndSession
  <2>2. target[h] \in RunIds
    BY <1>0, <1>3, ConstantsAssumption DEF EndWithoutExport, FileMemories, EndSession, CompleteRun, Targets,
       Shape, Handlers, RunIds
  <2> QED
    BY <1>2, <2>1, <2>2
<1>4. ASSUME NEW r \in Handled, AcceptCandidate(r) PROVE OneActivePerKey'
  BY <1>0, <1>4, WithActiveKeepsOne, ConstantsAssumption DEF AcceptCandidate
<1>5. ASSUME NEW r \in Handled, DeleteMemory(r) PROVE OneActivePerKey'
  BY <1>0, <1>5 DEF DeleteMemory, OneActivePerKey, Shape
<1>6. CASE \E h \in Streams : EndWithoutExport(h) \/ FileMemories(h) \/ EndSession(h)
  BY <1>3, <1>6
<1>7. CASE \E r \in Handled : AcceptCandidate(r) \/ DeleteMemory(r)
  BY <1>4, <1>5, <1>7
<1>8. CASE /\ ~\E h \in Streams : EndWithoutExport(h) \/ FileMemories(h) \/ EndSession(h)
           /\ ~\E r \in Handled : AcceptCandidate(r) \/ DeleteMemory(r)
  <2>1. UNCHANGED memory
    BY <1>8 DEF Next, StreamStep, CreateMessage, OpenRun, OpenSession, StartPost, PostReturns,
       PostRaises, Poll, SeeCancel, SeeDisconnect, AppendEvent, RuntimeRaises, Drop,
       EndWithExport, ExportAnswers, CancelRun, RejectCandidate, SetArchived, DeleteSession,
       vars, memoryVars
  <2> QED
    BY <1>1, <2>1
<1> QED
  BY <1>6, <1>7, <1>8

\* A user has one active memory of a key at most.
THEOREM OneMemoryPerKey == Spec => []OneActivePerKey
BY RunInvInit, RunInvStep, OneActiveInit, OneActiveStep, PTL DEF Spec

\* A candidate comes at the end of the one stream of its run, and a version 1 row
\* is of a text that such a candidate is made for.
MemoryInv ==
    /\ MemoryFiledOnce
    /\ \A r \in legacy : r \in Runs /\ HasTriggerWord(TextOf[r])
    /\ \A r \in RunIds : candidate[r] # "none" =>
          \E h \in Streams : target[h] = r /\ pc[h] = "done"

LEMMA MemoryInvInit == Init => MemoryInv
BY DEF Init, MemoryInv, MemoryFiledOnce

LEMMA MemoryInvStep == RunInv /\ MemoryInv /\ [Next]_vars => MemoryInv'
<1> SUFFICES ASSUME RunInv, MemoryInv, [Next]_vars PROVE MemoryInv'
  OBVIOUS
<1> USE ConstantsAssumption
    DEF MemoryInv, MemoryFiledOnce, HasPreference, HasTriggerWord, RunInv, Shape, Targets,
         ExecutedOnce, Executing, sessionVars, runVars, handlerVars, memoryVars, RunIds,
         Handlers, Goto
<1>1. ASSUME NEW r \in Runs, CreateMessage(r) PROVE MemoryInv'
  BY <1>1 DEF CreateMessage, ActiveRunBlocks, IsOpen, ActiveStatuses
<1>2. ASSUME NEW h \in Streams, NEW r \in Runs, OpenRun(h, r) PROVE MemoryInv'
  BY <1>2 DEF OpenRun
<1>3. ASSUME NEW h \in Streams, OpenSession(h) PROVE MemoryInv'
  BY <1>3 DEF OpenSession
<1>4. ASSUME NEW h \in Posts, StartPost(h) PROVE MemoryInv'
  BY <1>4 DEF StartPost
<1>5. ASSUME NEW h \in Posts, PostReturns(h) PROVE MemoryInv'
  BY <1>5 DEF PostReturns, DeriveStatus
<1>6. ASSUME NEW h \in Posts, PostRaises(h) PROVE MemoryInv'
  BY <1>6 DEF PostRaises
<1>7. ASSUME NEW h \in Streams, Poll(h) PROVE MemoryInv'
  <2>1. pc[h] \notin {"completed", "exported", "dropped", "done"} /\ UNCHANGED <<target,
       legacy, candidate>>
    BY <1>7 DEF Poll
  <2>2. \A g \in Streams : pc[g] \in {"completed", "exported", "dropped", "done"} => pc'[g] =
       pc[g]
    BY <1>7, <2>1 DEF Poll
  <2>3. ASSUME NEW r \in legacy
        PROVE  \E g \in Streams : target'[g] = r /\ pc'[g] \in {"completed", "exported",
             "dropped"}
    <3>1. PICK g \in Streams : target[g] = r /\ pc[g] \in {"completed", "exported", "dropped"}
      OBVIOUS
    <3>2. target'[g] = r /\ pc'[g] \in {"completed", "exported", "dropped"}
      BY <2>1, <2>2, <3>1
    <3> QED
      BY <3>2
  <2>4. ASSUME NEW r \in RunIds, candidate[r] # "none"
        PROVE  \E g \in Streams : target'[g] = r /\ pc'[g] = "done"
    <3>1. PICK g \in Streams : target[g] = r /\ pc[g] = "done"
      BY <2>4
    <3>2. target'[g] = r /\ pc'[g] = "done"
      BY <2>1, <2>2, <3>1
    <3> QED
      BY <3>2
  <2> QED
    BY <2>1, <2>3, <2>4
<1>8. ASSUME NEW h \in Streams, SeeCancel(h) PROVE MemoryInv'
  <2>1. pc[h] \notin {"completed", "exported", "dropped", "done"} /\ UNCHANGED <<target,
       legacy, candidate>>
    BY <1>8 DEF SeeCancel
  <2>2. \A g \in Streams : pc[g] \in {"completed", "exported", "dropped", "done"} => pc'[g] =
       pc[g]
    BY <1>8, <2>1 DEF SeeCancel
  <2>3. ASSUME NEW r \in legacy
        PROVE  \E g \in Streams : target'[g] = r /\ pc'[g] \in {"completed", "exported",
             "dropped"}
    <3>1. PICK g \in Streams : target[g] = r /\ pc[g] \in {"completed", "exported", "dropped"}
      OBVIOUS
    <3>2. target'[g] = r /\ pc'[g] \in {"completed", "exported", "dropped"}
      BY <2>1, <2>2, <3>1
    <3> QED
      BY <3>2
  <2>4. ASSUME NEW r \in RunIds, candidate[r] # "none"
        PROVE  \E g \in Streams : target'[g] = r /\ pc'[g] = "done"
    <3>1. PICK g \in Streams : target[g] = r /\ pc[g] = "done"
      BY <2>4
    <3>2. target'[g] = r /\ pc'[g] = "done"
      BY <2>1, <2>2, <3>1
    <3> QED
      BY <3>2
  <2> QED
    BY <2>1, <2>3, <2>4
<1>9. ASSUME NEW h \in Streams, SeeDisconnect(h) PROVE MemoryInv'
  <2>1. pc[h] \notin {"completed", "exported", "dropped", "done"} /\ UNCHANGED <<target,
       legacy, candidate>>
    BY <1>9 DEF SeeDisconnect
  <2>2. \A g \in Streams : pc[g] \in {"completed", "exported", "dropped", "done"} => pc'[g] =
       pc[g]
    BY <1>9, <2>1 DEF SeeDisconnect
  <2>3. ASSUME NEW r \in legacy
        PROVE  \E g \in Streams : target'[g] = r /\ pc'[g] \in {"completed", "exported",
             "dropped"}
    <3>1. PICK g \in Streams : target[g] = r /\ pc[g] \in {"completed", "exported", "dropped"}
      OBVIOUS
    <3>2. target'[g] = r /\ pc'[g] \in {"completed", "exported", "dropped"}
      BY <2>1, <2>2, <3>1
    <3> QED
      BY <3>2
  <2>4. ASSUME NEW r \in RunIds, candidate[r] # "none"
        PROVE  \E g \in Streams : target'[g] = r /\ pc'[g] = "done"
    <3>1. PICK g \in Streams : target[g] = r /\ pc[g] = "done"
      BY <2>4
    <3>2. target'[g] = r /\ pc'[g] = "done"
      BY <2>1, <2>2, <3>1
    <3> QED
      BY <3>2
  <2> QED
    BY <2>1, <2>3, <2>4
<1>10. ASSUME NEW h \in Streams, AppendEvent(h) PROVE MemoryInv'
  <2>1. pc[h] \notin {"completed", "exported", "dropped", "done"} /\ UNCHANGED <<target,
       legacy, candidate>>
    BY <1>10 DEF AppendEvent
  <2>2. \A g \in Streams : pc[g] \in {"completed", "exported", "dropped", "done"} => pc'[g] =
       pc[g]
    BY <1>10, <2>1 DEF AppendEvent
  <2>3. ASSUME NEW r \in legacy
        PROVE  \E g \in Streams : target'[g] = r /\ pc'[g] \in {"completed", "exported",
             "dropped"}
    <3>1. PICK g \in Streams : target[g] = r /\ pc[g] \in {"completed", "exported", "dropped"}
      OBVIOUS
    <3>2. target'[g] = r /\ pc'[g] \in {"completed", "exported", "dropped"}
      BY <2>1, <2>2, <3>1
    <3> QED
      BY <3>2
  <2>4. ASSUME NEW r \in RunIds, candidate[r] # "none"
        PROVE  \E g \in Streams : target'[g] = r /\ pc'[g] = "done"
    <3>1. PICK g \in Streams : target[g] = r /\ pc[g] = "done"
      BY <2>4
    <3>2. target'[g] = r /\ pc'[g] = "done"
      BY <2>1, <2>2, <3>1
    <3> QED
      BY <3>2
  <2> QED
    BY <2>1, <2>3, <2>4
<1>11. ASSUME NEW h \in Streams, RuntimeRaises(h) PROVE MemoryInv'
  <2>1. pc[h] \notin {"completed", "exported", "dropped", "done"} /\ UNCHANGED <<target,
       legacy, candidate>>
    BY <1>11 DEF RuntimeRaises
  <2>2. \A g \in Streams : pc[g] \in {"completed", "exported", "dropped", "done"} => pc'[g] =
       pc[g]
    BY <1>11, <2>1 DEF RuntimeRaises
  <2>3. ASSUME NEW r \in legacy
        PROVE  \E g \in Streams : target'[g] = r /\ pc'[g] \in {"completed", "exported",
             "dropped"}
    <3>1. PICK g \in Streams : target[g] = r /\ pc[g] \in {"completed", "exported", "dropped"}
      OBVIOUS
    <3>2. target'[g] = r /\ pc'[g] \in {"completed", "exported", "dropped"}
      BY <2>1, <2>2, <3>1
    <3> QED
      BY <3>2
  <2>4. ASSUME NEW r \in RunIds, candidate[r] # "none"
        PROVE  \E g \in Streams : target'[g] = r /\ pc'[g] = "done"
    <3>1. PICK g \in Streams : target[g] = r /\ pc[g] = "done"
      BY <2>4
    <3>2. target'[g] = r /\ pc'[g] = "done"
      BY <2>1, <2>2, <3>1
    <3> QED
      BY <3>2
  <2> QED
    BY <2>1, <2>3, <2>4
<1>12. ASSUME NEW h \in Streams, Drop(h) PROVE MemoryInv'
  BY <1>12 DEF Drop
<1>13. ASSUME NEW h \in Streams, EndWithoutExport(h) PROVE MemoryInv'
  <2>1. target[h] \in RunIds /\ pc[h] = "loop" /\ pc' = [pc EXCEPT ![h] = "done"]
    BY <1>13 DEF EndWithoutExport, CompleteRun
  <2>2. UNCHANGED <<target, legacy>>
    BY <1>13 DEF EndWithoutExport
  <2>3. \A r \in RunIds : r # target[h] => candidate'[r] = candidate[r]
    BY <1>13, <2>1 DEF EndWithoutExport, StorePreferences
  <2>4. target[h] \notin legacy
    <3> SUFFICES ASSUME target[h] \in legacy PROVE FALSE
      OBVIOUS
    <3>1. PICK g \in Streams : target[g] = target[h] /\ pc[g] \in {"completed", "exported",
         "dropped"}
      OBVIOUS
    <3>2. g = h
      BY <2>1, <3>1
    <3> QED
      BY <2>1, <3>1, <3>2
  <2>5. MemoryFiledOnce'
    <3>1. ASSUME NEW r \in legacy PROVE candidate'[r] = "none"
      BY <2>3, <2>4
    <3>2. ASSUME NEW r \in legacy
          PROVE  \E g \in Streams : target'[g] = r /\ pc'[g] \in {"completed", "exported",
               "dropped"}
      <4>1. PICK g \in Streams : target[g] = r /\ pc[g] \in {"completed", "exported", "dropped"}
        OBVIOUS
      <4>2. target'[g] = r /\ pc'[g] = pc[g]
        BY <2>1, <2>2, <4>1
      <4> QED
        BY <4>1, <4>2
    <3> QED
      BY <2>2, <3>1, <3>2
  <2>6. \A r \in RunIds : candidate'[r] # "none" =>
           \E g \in Streams : target'[g] = r /\ pc'[g] = "done"
    BY <2>1, <2>2, <2>3
  <2> QED
    BY <2>2, <2>5, <2>6
<1>14. ASSUME NEW h \in Streams, EndWithExport(h) PROVE MemoryInv'
  BY <1>14 DEF EndWithExport, CompleteRun, SetRunStatus, DeriveStatus
<1>15. ASSUME NEW h \in Streams, ExportAnswers(h) PROVE MemoryInv'
  BY <1>15 DEF ExportAnswers
<1>16. ASSUME NEW h \in Streams, FileMemories(h) PROVE MemoryInv'
  BY <1>16 DEF FileMemories, StorePreferences
<1>17. ASSUME NEW h \in Streams, EndSession(h) PROVE MemoryInv'
  BY <1>17 DEF EndSession, StorePreferences, DeriveStatus
<1>18. ASSUME NEW r \in RunIds, CancelRun(r) PROVE MemoryInv'
  BY <1>18 DEF CancelRun
<1>19. ASSUME NEW r \in Handled, AcceptCandidate(r) PROVE MemoryInv'
  BY <1>19 DEF AcceptCandidate
<1>20. ASSUME NEW r \in Handled, RejectCandidate(r) PROVE MemoryInv'
  BY <1>20 DEF RejectCandidate
<1>21. ASSUME NEW r \in Handled, DeleteMemory(r) PROVE MemoryInv'
  BY <1>21 DEF DeleteMemory
<1>22. ASSUME SetArchived PROVE MemoryInv'
  BY <1>22 DEF SetArchived
<1>23. ASSUME DeleteSession PROVE MemoryInv'
  BY <1>23 DEF DeleteSession
<1>24. ASSUME UNCHANGED vars PROVE MemoryInv'
  BY <1>24 DEF vars
<1> HIDE DEF MemoryInv, MemoryFiledOnce, HasPreference, HasTriggerWord, RunInv, Shape,
     Targets, ExecutedOnce, Executing, sessionVars, runVars, handlerVars, memoryVars, RunIds,
     Handlers, Goto
<1> QED
  BY <1>1, <1>2, <1>3, <1>4, <1>5, <1>6, <1>7, <1>8, <1>9, <1>10, <1>11, <1>12, <1>13, <1>14,
       <1>15, <1>16, <1>17, <1>18, <1>19, <1>20, <1>21, <1>22, <1>23, <1>24
     DEF Next, StreamStep

\* A preference is remembered in one place.
THEOREM MemoriesAreFiledOnce == Spec => []MemoryFiledOnce
<1>1. MemoryInv => MemoryFiledOnce
  BY DEF MemoryInv
<1> QED
  BY RunInvInit, RunInvStep, MemoryInvInit, MemoryInvStep, <1>1, PTL DEF Spec

---------------------------------------------------------------------------
(* Types *)

\* The bound on the events of a run holds because a stream that has not decided
\* leaves room for the event that does.
LengthInv ==
    /\ \A r \in RunIds : Len(events[r]) <= MaxEvents + 1
    /\ \A r \in RunIds : (\A h \in Handlers : target[h] # r) => events[r] = <<>>
    /\ \A h \in Posts : pc[h] = "posting" => target[h] = h
    /\ \A h \in Handlers :
          /\ pc[h] \in {"loop", "completed"} => Len(events[target[h]]) <= MaxEvents
          /\ pc[h] = "polled" \/ (pc[h] = "loop" /\ ~Decided(h)) =>
                Len(events[target[h]]) <= MaxEvents - 1

RestInv ==
    /\ present \in BOOLEAN
    /\ status \in (RunStatuses \ {"none"}) \cup {"archived"}
    /\ shown \in RunIds \cup {NoRun}
    /\ answers \in Seq(Runs)
    /\ legacy \subseteq Runs

LEMMA TypeInit == Init => LengthInv /\ RestInv
<1> SUFFICES ASSUME Init PROVE LengthInv /\ RestInv
  OBVIOUS
<1>1. LengthInv
  BY ConstantsAssumption DEF Init, LengthInv, Handlers, RunIds
<1>2. RestInv
  BY DEF Init, RestInv, RunStatuses
<1> QED
  BY <1>1, <1>2

LEMMA LengthStep == RunInv /\ LengthInv /\ [Next]_vars => LengthInv'
<1> SUFFICES ASSUME RunInv, LengthInv, [Next]_vars PROVE LengthInv'
  OBVIOUS
<1> USE ConstantsAssumption
    DEF RunInv, Shape, Targets, ExecutedOnce, Executing, sessionVars, runVars, handlerVars,
         memoryVars, RunIds, Handlers, Goto, LengthInv, Decided, Deciding, EventTypes
<1>1. ASSUME NEW r \in Runs, CreateMessage(r) PROVE LengthInv'
  BY <1>1 DEF CreateMessage, ActiveRunBlocks, IsOpen, ActiveStatuses
<1>2. ASSUME NEW h \in Streams, NEW r \in Runs, OpenRun(h, r) PROVE LengthInv'
  BY <1>2 DEF OpenRun
<1>3. ASSUME NEW h \in Streams, OpenSession(h) PROVE LengthInv'
  <2>1. \A g \in Handlers : target[g] # h
    BY <1>3 DEF OpenSession
  <2>2. events[h] = <<>> /\ Len(events[h]) = 0
    BY <2>1
  <2>3. /\ target' = [target EXCEPT ![h] = h]
        /\ pc' = [pc EXCEPT ![h] = "loop"]
        /\ UNCHANGED events
    BY <1>3 DEF OpenSession
  <2>4. \A g \in Handlers : g # h => target'[g] = target[g] /\ pc'[g] = pc[g]
    BY <2>3
  <2>5. target'[h] = h /\ pc'[h] = "loop"
    BY <2>3
  <2>6. /\ \A r \in RunIds : Len(events'[r]) <= MaxEvents + 1
        /\ \A g \in Posts : pc'[g] = "posting" => target'[g] = g
    BY <2>3, <2>4, <2>5
  <2>8. ASSUME NEW r \in RunIds, \A g \in Handlers : target'[g] # r
        PROVE  events'[r] = <<>>
    <3>1. r # h
      BY <2>5, <2>8
    <3>2. target[h] # r
      BY <1>3 DEF OpenSession
    <3>3. \A g \in Handlers : target[g] # r
      BY <2>4, <2>8, <3>2
    <3> QED
      BY <2>3, <3>1, <3>3
  <2>7. ASSUME NEW g \in Handlers
        PROVE  /\ pc'[g] \in {"loop", "completed"} => Len(events'[target'[g]]) <= MaxEvents
               /\ pc'[g] = "polled" \/ (pc'[g] = "loop" /\ ~Decided(g)') =>
                     Len(events'[target'[g]]) <= MaxEvents - 1
    <3>1. CASE g = h
      BY <2>2, <2>3, <2>5, <3>1
    <3>2. CASE g # h
      BY <2>3, <2>4, <3>2
    <3> QED
      BY <3>1, <3>2
  <2> QED
    BY <2>6, <2>7, <2>8
<1>4. ASSUME NEW h \in Posts, StartPost(h) PROVE LengthInv'
  BY <1>4 DEF StartPost
<1>5. ASSUME NEW h \in Posts, PostReturns(h) PROVE LengthInv'
  <2>1. PICK last \in Ends : events' = [events EXCEPT ![h] = <<last>>]
    BY <1>5 DEF PostReturns
  <2>2. pc[h] = "posting" /\ pc' = [pc EXCEPT ![h] = "done"] /\ UNCHANGED target
    BY <1>5 DEF PostReturns
  <2>3. h \in Handlers /\ h \in RunIds
    OBVIOUS
  <2>4. events'[h] = <<last>> /\ Len(events'[h]) = 1
    BY <2>1, <2>3
  <2>5. \A r \in RunIds : r # h => events'[r] = events[r]
    BY <2>1
  <2>6. /\ \A r \in RunIds : Len(events'[r]) <= MaxEvents + 1
        /\ \A g \in Posts : pc'[g] = "posting" => target'[g] = g
    <3>1. 1 <= MaxEvents + 1
      OBVIOUS
    <3>2. \A r \in RunIds : Len(events'[r]) <= MaxEvents + 1
      <4> SUFFICES ASSUME NEW r \in RunIds PROVE Len(events'[r]) <= MaxEvents + 1
        OBVIOUS
      <4>1. CASE r = h
        BY <2>4, <3>1, <4>1
      <4>2. CASE r # h
        BY <2>5, <4>2
      <4> QED
        BY <4>1, <4>2
    <3>3. \A g \in Posts : pc'[g] = "posting" => pc[g] = "posting"
      BY <2>2
    <3> QED
      BY <2>2, <3>2, <3>3
  <2>7. ASSUME NEW r \in RunIds, \A g \in Handlers : target'[g] # r
        PROVE  events'[r] = <<>>
    <3>1. target[h] = h
      BY <2>2
    <3>2. r # h
      BY <2>2, <2>3, <2>7, <3>1
    <3> QED
      BY <2>2, <2>5, <2>7, <3>2
  <2>8. ASSUME NEW g \in Handlers
        PROVE  /\ pc'[g] \in {"loop", "completed"} => Len(events'[target'[g]]) <= MaxEvents
               /\ pc'[g] = "polled" \/ (pc'[g] = "loop" /\ ~Decided(g)') =>
                     Len(events'[target'[g]]) <= MaxEvents - 1
    <3>1. CASE pc'[g] \notin {"loop", "polled", "completed"}
      BY <3>1
    <3>2. CASE pc'[g] \in {"loop", "polled", "completed"}
      <4>1. g # h /\ pc'[g] = pc[g] /\ target'[g] = target[g]
        BY <2>2, <2>3, <3>2
      <4>2. target[g] # h /\ target[g] \in RunIds
        BY <2>3, <3>2, <4>1
      <4> QED
        BY <2>5, <3>2, <4>1, <4>2
    <3> QED
      BY <3>1, <3>2
  <2> QED
    BY <2>6, <2>7, <2>8
<1>6. ASSUME NEW h \in Posts, PostRaises(h) PROVE LengthInv'
  BY <1>6 DEF PostRaises
<1>7. ASSUME NEW h \in Streams, Poll(h) PROVE LengthInv'
  BY <1>7 DEF Poll
<1>8. ASSUME NEW h \in Streams, SeeCancel(h) PROVE LengthInv'
  BY <1>8 DEF SeeCancel, SetRunStatus
<1>9. ASSUME NEW h \in Streams, SeeDisconnect(h) PROVE LengthInv'
  BY <1>9 DEF SeeDisconnect, SetRunStatus
<1>10. ASSUME NEW h \in Streams, AppendEvent(h) PROVE LengthInv'
  <2> DEFINE t == target[h]
  <2>1. t \in RunIds /\ h \in Handlers /\ pc[h] = "polled" /\ Len(events[t]) <= MaxEvents - 1
    BY <1>10 DEF AppendEvent
  <2>2. pc' = [pc EXCEPT ![h] = "loop"] /\ UNCHANGED target
    BY <1>10 DEF AppendEvent
  <2>3. PICK type \in Ends \cup {"step"} :
           /\ events' = [events EXCEPT ![t] = Append(events[t], type)]
           /\ type \notin Ends => Len(events[t]) < MaxEvents - 1
    BY <1>10 DEF AppendEvent
  <2>4. events[t] \in Seq(EventTypes) /\ type \in EventTypes /\ Len(events[t]) \in Nat
    BY <2>1, <2>3
  <2>5. events'[t] = Append(events[t], type) /\ Len(events'[t]) = Len(events[t]) + 1
        /\ events'[t][Len(events'[t])] = type /\ events'[t] # <<>>
    <3>1. events'[t] = Append(events[t], type)
      BY <2>1, <2>3
    <3>2. Len(Append(events[t], type)) = Len(events[t]) + 1
      BY <2>4
    <3>3. Append(events[t], type)[Len(events[t]) + 1] = type
      BY <2>4
    <3>4. events'[t] \in Seq(EventTypes) /\ Len(events'[t]) # 0
      BY <2>4, <3>1, <3>2
    <3>5. events'[t] # <<>>
      BY <3>4
    <3>6. events'[t][Len(events'[t])] = type
      BY <3>1, <3>2, <3>3
    <3>7. Len(events'[t]) = Len(events[t]) + 1
      BY <3>1, <3>2
    <3> QED
      BY <3>1, <3>5, <3>6, <3>7
  <2>6. \A r \in RunIds : r # t => events'[r] = events[r]
    BY <2>3
  <2>7. \A g \in Handlers : g # h => pc'[g] = pc[g] /\ target'[g] = target[g]
    BY <2>2
  <2>8. pc'[h] = "loop" /\ target'[h] = t
    BY <2>1, <2>2
  <2>9. /\ \A r \in RunIds : Len(events'[r]) <= MaxEvents + 1
        /\ \A g \in Posts : pc'[g] = "posting" => target'[g] = g
    <3>1. Len(events'[t]) <= MaxEvents + 1
      BY <2>1, <2>4, <2>5
    <3>2. \A r \in RunIds : Len(events'[r]) <= MaxEvents + 1
      BY <2>6, <3>1
    <3>3. \A g \in Posts : g # h /\ g \in Handlers
      OBVIOUS
    <3>4. \A g \in Posts : pc'[g] = "posting" => target'[g] = g
      BY <2>7, <3>3
    <3> QED
      BY <3>2, <3>4
  <2>10. ASSUME NEW r \in RunIds, \A g \in Handlers : target'[g] # r
         PROVE  events'[r] = <<>>
    BY <2>1, <2>2, <2>6, <2>10
  <2>11. ASSUME NEW g \in Handlers
         PROVE  /\ pc'[g] \in {"loop", "completed"} => Len(events'[target'[g]]) <= MaxEvents
                /\ pc'[g] = "polled" \/ (pc'[g] = "loop" /\ ~Decided(g)') =>
                      Len(events'[target'[g]]) <= MaxEvents - 1
    <3>1. CASE pc'[g] \notin {"loop", "polled", "completed"}
      BY <3>1
    <3>2. CASE g = h
      <4>1. Len(events'[t]) <= MaxEvents
        BY <2>1, <2>4, <2>5
      <4>2. ~Decided(h)' => Len(events'[t]) <= MaxEvents - 1
        <5>1. ~Decided(h)' => type \notin Ends
          BY <2>5, <2>8
        <5> QED
          BY <2>1, <2>3, <2>4, <2>5, <5>1
      <4> QED
        BY <2>8, <3>2, <4>1, <4>2
    <3>3. CASE g # h /\ pc'[g] \in {"loop", "polled", "completed"}
      <4>1. target[g] \in RunIds /\ target[g] # t
        BY <2>1, <2>7, <3>3
      <4> QED
        BY <2>6, <2>7, <3>3, <4>1
    <3> QED
      BY <3>1, <3>2, <3>3
  <2> QED
    BY <2>9, <2>10, <2>11
<1>11. ASSUME NEW h \in Streams, RuntimeRaises(h) PROVE LengthInv'
  BY <1>11 DEF RuntimeRaises, SetRunStatus
<1>12. ASSUME NEW h \in Streams, Drop(h) PROVE LengthInv'
  BY <1>12 DEF Drop
<1>13. ASSUME NEW h \in Streams, EndWithoutExport(h) PROVE LengthInv'
  BY <1>13 DEF EndWithoutExport, CompleteRun, SetRunStatus, StorePreferences, DeriveStatus
<1>14. ASSUME NEW h \in Streams, EndWithExport(h) PROVE LengthInv'
  BY <1>14 DEF EndWithExport, CompleteRun, SetRunStatus, DeriveStatus
<1>15. ASSUME NEW h \in Streams, ExportAnswers(h) PROVE LengthInv'
  BY <1>15 DEF ExportAnswers
<1>16. ASSUME NEW h \in Streams, FileMemories(h) PROVE LengthInv'
  BY <1>16 DEF FileMemories, StorePreferences
<1>17. ASSUME NEW h \in Streams, EndSession(h) PROVE LengthInv'
  BY <1>17 DEF EndSession, StorePreferences, DeriveStatus
<1>18. ASSUME NEW r \in RunIds, CancelRun(r) PROVE LengthInv'
  BY <1>18 DEF CancelRun
<1>19. ASSUME NEW r \in Handled, AcceptCandidate(r) PROVE LengthInv'
  BY <1>19 DEF AcceptCandidate
<1>20. ASSUME NEW r \in Handled, RejectCandidate(r) PROVE LengthInv'
  BY <1>20 DEF RejectCandidate
<1>21. ASSUME NEW r \in Handled, DeleteMemory(r) PROVE LengthInv'
  BY <1>21 DEF DeleteMemory
<1>22. ASSUME SetArchived PROVE LengthInv'
  BY <1>22 DEF SetArchived
<1>23. ASSUME DeleteSession PROVE LengthInv'
  BY <1>23 DEF DeleteSession
<1>24. ASSUME UNCHANGED vars PROVE LengthInv'
  BY <1>24 DEF vars
<1> HIDE DEF RunInv, Shape, Targets, ExecutedOnce, Executing, sessionVars, runVars,
     handlerVars, memoryVars, RunIds, Handlers, Goto, LengthInv, Decided, Deciding, EventTypes
<1> QED
  BY <1>1, <1>2, <1>3, <1>4, <1>5, <1>6, <1>7, <1>8, <1>9, <1>10, <1>11, <1>12, <1>13, <1>14,
       <1>15, <1>16, <1>17, <1>18, <1>19, <1>20, <1>21, <1>22, <1>23, <1>24
     DEF Next, StreamStep

LEMMA RestStep == RunInv /\ RestInv /\ [Next]_vars => RestInv'
<1> SUFFICES ASSUME RunInv, RestInv, [Next]_vars PROVE RestInv'
  OBVIOUS
<1> USE ConstantsAssumption
    DEF RestInv, RunStatuses, RunInv, Shape, Targets, ExecutedOnce, Executing, sessionVars,
         runVars, handlerVars, memoryVars, RunIds, Handlers, Goto
<1>1. ASSUME NEW r \in Runs, CreateMessage(r) PROVE RestInv'
  BY <1>1 DEF CreateMessage, ActiveRunBlocks, IsOpen, ActiveStatuses
<1>2. ASSUME NEW h \in Streams, NEW r \in Runs, OpenRun(h, r) PROVE RestInv'
  BY <1>2 DEF OpenRun
<1>3. ASSUME NEW h \in Streams, OpenSession(h) PROVE RestInv'
  BY <1>3 DEF OpenSession
<1>4. ASSUME NEW h \in Posts, StartPost(h) PROVE RestInv'
  BY <1>4 DEF StartPost
<1>5. ASSUME NEW h \in Posts, PostReturns(h) PROVE RestInv'
  BY <1>5 DEF PostReturns, DeriveStatus
<1>6. ASSUME NEW h \in Posts, PostRaises(h) PROVE RestInv'
  BY <1>6 DEF PostRaises
<1>7. ASSUME NEW h \in Streams, Poll(h) PROVE RestInv'
  BY <1>7 DEF Poll
<1>8. ASSUME NEW h \in Streams, SeeCancel(h) PROVE RestInv'
  BY <1>8 DEF SeeCancel, SetRunStatus
<1>9. ASSUME NEW h \in Streams, SeeDisconnect(h) PROVE RestInv'
  BY <1>9 DEF SeeDisconnect, SetRunStatus
<1>10. ASSUME NEW h \in Streams, AppendEvent(h) PROVE RestInv'
  BY <1>10 DEF AppendEvent
<1>11. ASSUME NEW h \in Streams, RuntimeRaises(h) PROVE RestInv'
  BY <1>11 DEF RuntimeRaises, SetRunStatus
<1>12. ASSUME NEW h \in Streams, Drop(h) PROVE RestInv'
  BY <1>12 DEF Drop
<1>13. ASSUME NEW h \in Streams, EndWithoutExport(h) PROVE RestInv'
  BY <1>13 DEF EndWithoutExport, CompleteRun, SetRunStatus, StorePreferences, DeriveStatus
<1>14. ASSUME NEW h \in Streams, EndWithExport(h) PROVE RestInv'
  BY <1>14 DEF EndWithExport, CompleteRun, SetRunStatus, DeriveStatus
<1>15. ASSUME NEW h \in Streams, ExportAnswers(h) PROVE RestInv'
  BY <1>15 DEF ExportAnswers
<1>16. ASSUME NEW h \in Streams, FileMemories(h) PROVE RestInv'
  BY <1>16 DEF FileMemories, StorePreferences
<1>17. ASSUME NEW h \in Streams, EndSession(h) PROVE RestInv'
  BY <1>17 DEF EndSession, StorePreferences, DeriveStatus
<1>18. ASSUME NEW r \in RunIds, CancelRun(r) PROVE RestInv'
  BY <1>18 DEF CancelRun
<1>19. ASSUME NEW r \in Handled, AcceptCandidate(r) PROVE RestInv'
  BY <1>19 DEF AcceptCandidate
<1>20. ASSUME NEW r \in Handled, RejectCandidate(r) PROVE RestInv'
  BY <1>20 DEF RejectCandidate
<1>21. ASSUME NEW r \in Handled, DeleteMemory(r) PROVE RestInv'
  BY <1>21 DEF DeleteMemory
<1>22. ASSUME SetArchived PROVE RestInv'
  BY <1>22 DEF SetArchived
<1>23. ASSUME DeleteSession PROVE RestInv'
  BY <1>23 DEF DeleteSession
<1>24. ASSUME UNCHANGED vars PROVE RestInv'
  BY <1>24 DEF vars
<1> HIDE DEF RestInv, RunStatuses, RunInv, Shape, Targets, ExecutedOnce, Executing,
     sessionVars, runVars, handlerVars, memoryVars, RunIds, Handlers, Goto
<1> QED
  BY <1>1, <1>2, <1>3, <1>4, <1>5, <1>6, <1>7, <1>8, <1>9, <1>10, <1>11, <1>12, <1>13, <1>14,
       <1>15, <1>16, <1>17, <1>18, <1>19, <1>20, <1>21, <1>22, <1>23, <1>24
     DEF Next, StreamStep

\* Every variable keeps its type.
THEOREM TypeCorrect == Spec => []TypeOK
<1>1. RunInv /\ LengthInv /\ RestInv => TypeOK
  BY DEF RunInv, Shape, LengthInv, RestInv, TypeOK, HandlerPcs, StreamPcs, EventTypes
<1> QED
  BY RunInvInit, RunInvStep, TypeInit, LengthStep, RestStep, <1>1, PTL DEF Spec

---------------------------------------------------------------------------
(* The ledger *)

told == [r \in Runs |-> IF present \/ runStatus[r] = "none" THEN runStatus[r] ELSE "deleted"]
known == [r \in Runs |-> IF present THEN Recorded(r) ELSE {}]

\* A step of the ledger, seen through the refinement mapping.
LedgerStep == Ledger!Next \/ UNCHANGED <<told, known>>

\* Nothing recorded is forgotten, and a run is settled as is recorded by then.
Justified ==
    \A r \in Runs :
        /\ Recorded(r) \subseteq Recorded(r)'
        /\ runStatus'[r] \in {runStatus[r], "created", "running"} \cup Recorded(r)'

LEMMA RecordedOf ==
  ASSUME NEW r \in Runs, NEW o
  PROVE  o \in Recorded(r) <=>
           \/ \E i \in DOMAIN events[r] : /\ events[r][i] \in Deciding
                                          /\ o = DeriveStatus(<<events[r][i]>>)
           \/ r \in flags /\ o = "cancelled"
BY DEF Recorded

LEMMA RecordedAfter ==
  ASSUME NEW r \in Runs, NEW o
  PROVE  o \in Recorded(r)' <=>
           \/ \E i \in DOMAIN events'[r] : /\ events'[r][i] \in Deciding
                                           /\ o = DeriveStatus(<<events'[r][i]>>)
           \/ r \in flags' /\ o = "cancelled"
BY DEF Recorded

\* derive_run_status looks at the last event only.
LEMMA DerivedFromLast ==
  ASSUME NEW list \in Seq(EventTypes), list # <<>>
  PROVE  DeriveStatus(list) = DeriveStatus(<<list[Len(list)]>>)
<1>1. <<list[Len(list)]>> # <<>> /\ Len(<<list[Len(list)]>>) = 1
      /\ <<list[Len(list)]>>[1] = list[Len(list)]
  OBVIOUS
<1> QED
  BY <1>1 DEF DeriveStatus

LEMMA DerivedIsOutcome ==
  ASSUME NEW list PROVE DeriveStatus(list) \in {"completed", "failed", "awaiting_user"}
BY DEF DeriveStatus

\* What is recorded when an event is appended to a list, or a flag set.
LEMMA RecordedByEvent ==
  ASSUME Shape, NEW q \in RunIds, NEW t \in EventTypes, UNCHANGED flags,
         events' = [events EXCEPT ![q] = Append(@, t)], NEW r \in Runs
  PROVE  Recorded(r)' = IF r = q /\ t \in Deciding
                        THEN Recorded(r) \cup {DeriveStatus(<<t>>)} ELSE Recorded(r)
<1> USE DEF RunIds
<1>1. CASE r = q
  <2>1. /\ events[r] \in Seq(EventTypes) /\ Len(events[r]) \in Nat
        /\ events'[r] = Append(events[r], t)
    BY <1>1 DEF Shape
  <2>2. /\ DOMAIN events'[r] = DOMAIN events[r] \cup {Len(events[r]) + 1}
        /\ \A i \in DOMAIN events[r] : events'[r][i] = events[r][i]
        /\ events'[r][Len(events[r]) + 1] = t
    BY <2>1
  <2>3. ASSUME NEW o
        PROVE  o \in Recorded(r)' <=> \/ o \in Recorded(r)
                                      \/ t \in Deciding /\ o = DeriveStatus(<<t>>)
    <3>1. ASSUME NEW i \in DOMAIN events'[r], events'[r][i] \in Deciding,
                 o = DeriveStatus(<<events'[r][i]>>)
          PROVE  o \in Recorded(r) \/ (t \in Deciding /\ o = DeriveStatus(<<t>>))
      <4>1. CASE i \in DOMAIN events[r]
        <5>1. events[r][i] = events'[r][i]
          BY <2>2, <4>1
        <5> QED
          BY <3>1, <4>1, <5>1, RecordedOf
      <4>2. CASE i = Len(events[r]) + 1
        BY <2>2, <3>1, <4>2
      <4> QED
        BY <2>2, <4>1, <4>2
    <3>2. ASSUME NEW i \in DOMAIN events[r], events[r][i] \in Deciding,
                 o = DeriveStatus(<<events[r][i]>>)
          PROVE  o \in Recorded(r)'
      <4>1. i \in DOMAIN events'[r] /\ events'[r][i] = events[r][i]
        BY <2>2
      <4> QED
        BY <3>2, <4>1, RecordedAfter
    <3>3. ASSUME t \in Deciding, o = DeriveStatus(<<t>>) PROVE o \in Recorded(r)'
      <4> DEFINE n == Len(events[r]) + 1
      <4>1. n \in DOMAIN events'[r] /\ events'[r][n] = t
        BY <2>2
      <4> HIDE DEF n
      <4> QED
        BY <3>3, <4>1, RecordedAfter
    <3>4. r \in flags /\ o = "cancelled" => o \in Recorded(r) /\ o \in Recorded(r)'
      BY RecordedOf, RecordedAfter
    <3>5. o \in Recorded(r)' => o \in Recorded(r) \/ (t \in Deciding /\ o = DeriveStatus(<<t>>))
      BY <3>1, <3>4, RecordedAfter
    <3>6. o \in Recorded(r) => o \in Recorded(r)'
      BY <3>2, <3>4, RecordedOf
    <3> QED
      BY <3>3, <3>5, <3>6
  <2>4. CASE t \in Deciding
    BY <1>1, <2>3, <2>4
  <2>5. CASE t \notin Deciding
    BY <1>1, <2>3, <2>5
  <2> QED
    BY <2>4, <2>5
<1>2. CASE r # q
  <2>1. events'[r] = events[r]
    BY <1>2 DEF Shape
  <2>2. Recorded(r)' = Recorded(r)
    BY <2>1 DEF Recorded
  <2> QED
    BY <1>2, <2>2
<1> QED
  BY <1>1, <1>2

LEMMA RecordedByFlag ==
  ASSUME NEW q, UNCHANGED events, flags' = flags \cup {q}, NEW r \in Runs
  PROVE  Recorded(r)' = IF r = q THEN Recorded(r) \cup {"cancelled"} ELSE Recorded(r)
<1>1. ASSUME NEW o
      PROVE  o \in Recorded(r)' <=> o \in Recorded(r) \/ (r = q /\ o = "cancelled")
  BY RecordedOf, RecordedAfter
<1>2. CASE r = q
  BY <1>1, <1>2
<1>3. CASE r # q
  BY <1>1, <1>3
<1> QED
  BY <1>2, <1>3

LEMMA RecordedKept ==
  ASSUME UNCHANGED <<events, flags>> PROVE \A r \in Runs : Recorded(r)' = Recorded(r)
BY DEF Recorded

\* The ledger sees nothing of a step that leaves runs, lists, flags and session.
LEMMA QuietStep ==
  ASSUME UNCHANGED <<present, runStatus, events, flags>>
  PROVE  LedgerStep /\ Justified
BY RecordedKept DEF LedgerStep, told, known, Justified

\* Nor of any step once the session is deleted, if runs do not appear or vanish.
LEMMA GoneStep ==
  ASSUME ~present, ~present', \A r \in Runs : runStatus'[r] = "none" <=> runStatus[r] = "none"
  PROVE  LedgerStep
BY DEF LedgerStep, told, known

\* A fact about a run becomes known, or about something that is no run.
LEMMA RecordStep ==
  ASSUME UNCHANGED <<present, runStatus>>, NEW q, NEW o \in Ledger!Outcomes,
         q \in Runs => runStatus[q] # "none",
         \A r \in Runs : Recorded(r)' = IF r = q THEN Recorded(r) \cup {o} ELSE Recorded(r)
  PROVE  LedgerStep /\ Justified
<1>1. told' = told
  BY DEF told
<1>2. ASSUME ~present \/ q \notin Runs PROVE LedgerStep
  <2>1. known' = known
    BY <1>2 DEF known
  <2> QED
    BY <1>1, <2>1 DEF LedgerStep
<1>3. ASSUME present /\ q \in Runs PROVE LedgerStep
  <2>1. known' = [known EXCEPT ![q] = @ \cup {o}] /\ told[q] # "none"
    BY <1>3 DEF known, told
  <2>2. Ledger!Record(q, o)
    BY <1>1, <2>1 DEF Ledger!Record, known, told
  <2> QED
    BY <1>3, <2>2 DEF LedgerStep, Ledger!Next
<1>4. Justified
  BY DEF Justified
<1> QED
  BY <1>2, <1>3, <1>4

\* A run is settled by what is recorded of it then.
LEMMA SettleStep ==
  ASSUME Shape, UNCHANGED present, NEW q \in Runs, runStatus[q] # "none", NEW o \in Ledger!Outcomes,
         runStatus' = [runStatus EXCEPT ![q] = o],
         \A r \in Runs : Recorded(r)' = IF r = q THEN Recorded(r) \cup {o} ELSE Recorded(r)
  PROVE  LedgerStep /\ Justified
<1>1. runStatus \in [Runs -> RunStatuses] /\ o # "none" /\ o # "deleted"
  BY DEF Shape, Ledger!Outcomes
<1>2. ASSUME ~present PROVE LedgerStep
  BY <1>1, <1>2, GoneStep
<1>3. ASSUME present PROVE LedgerStep
  <2>1. known' = [known EXCEPT ![q] = @ \cup {o}]
    BY <1>3 DEF known
  <2>2. told' = [told EXCEPT ![q] = o]
    BY <1>1, <1>3 DEF told
  <2>3. told[q] # "none" /\ told[q] # "deleted"
    BY <1>1, <1>3 DEF told, RunStatuses
  <2>4. Ledger!Decide(q, o)
    BY <2>1, <2>2, <2>3 DEF Ledger!Decide, Ledger!Live, known, told
  <2> QED
    BY <2>4 DEF LedgerStep, Ledger!Next
<1>4. Justified
  BY <1>1 DEF Justified
<1> QED
  BY <1>2, <1>3, <1>4

\* An event is appended to the list of a run that was started, or of a handler.
LEMMA EventStep ==
  ASSUME Shape, UNCHANGED <<present, runStatus, flags>>, NEW q \in RunIds, NEW t \in EventTypes,
         events' = [events EXCEPT ![q] = Append(@, t)], q \in Runs => runStatus[q] # "none"
  PROVE  LedgerStep /\ Justified
<1> DEFINE o == DeriveStatus(<<t>>)
<1>1. o \in Ledger!Outcomes
  BY DerivedIsOutcome DEF Ledger!Outcomes
<1>2. ASSUME NEW r \in Runs
      PROVE  Recorded(r)' = IF r = q /\ t \in Deciding THEN Recorded(r) \cup {o} ELSE Recorded(r)
  BY RecordedByEvent
<1> HIDE DEF o
<1>3. CASE t \in Deciding
  BY <1>1, <1>2, <1>3, RecordStep
<1>4. CASE t \notin Deciding
  BY <1>2, <1>4 DEF LedgerStep, told, known, Justified
<1> QED
  BY <1>3, <1>4

\* What settles a run at the end of its loop is recorded already.
LEMMA CompleteStep ==
  ASSUME RunInv, NEW h \in Streams, CompleteRun(h), UNCHANGED <<present, events, flags>>
  PROVE  LedgerStep /\ Justified
<1> DEFINE r == target[h]
           list == events[r]
           o == DeriveStatus(list)
<1>1. /\ r \in Runs /\ runStatus[r] # "none"
      /\ runStatus' = [runStatus EXCEPT ![r] = o]
      /\ list # <<>> /\ list[Len(list)] \in Deciding
  BY DEF CompleteRun, SetRunStatus, Decided, RunInv, Targets, Handlers
<1>2. list \in Seq(EventTypes)
  BY <1>1 DEF RunInv, Shape, RunIds
<1>3. Len(list) \in DOMAIN list
  BY <1>1, <1>2
<1>4. o \in Recorded(r)
  BY <1>1, <1>2, <1>3, DerivedFromLast, RecordedOf
<1>5. o \in Ledger!Outcomes
  BY DerivedIsOutcome DEF Ledger!Outcomes
<1>6. \A q \in Runs : Recorded(q)' = IF q = r THEN Recorded(q) \cup {o} ELSE Recorded(q)
  BY <1>4, RecordedKept
<1> HIDE DEF o, r
<1> QED
  BY <1>1, <1>5, <1>6, SettleStep DEF RunInv

\* A flag settles the run it names.
LEMMA CancelStep ==
  ASSUME Shape, UNCHANGED <<present, events>>, NEW q \in RunIds, flags' = flags \cup {q},
         q \in Runs => runStatus[q] # "none",
         runStatus' = IF q \in Runs THEN [runStatus EXCEPT ![q] = "cancelled"] ELSE runStatus
  PROVE  LedgerStep /\ Justified
<1>1. "cancelled" \in Ledger!Outcomes
  BY DEF Ledger!Outcomes
<1>2. \A r \in Runs : Recorded(r)' = IF r = q THEN Recorded(r) \cup {"cancelled"} ELSE Recorded(r)
  BY RecordedByFlag
<1>3. CASE q \in Runs
  BY <1>1, <1>2, <1>3, SettleStep
<1>4. CASE q \notin Runs
  BY <1>1, <1>2, <1>4, RecordStep
<1> QED
  BY <1>3, <1>4

\* The runs a session names were created.
Named == \A r \in {active, current} \cap Runs : runStatus[r] # "none"

LEMMA NamedInit == Init => Named
BY ConstantsAssumption DEF Init, Named, RunIds

LEMMA NamedStep == RunInv /\ Named /\ [Next]_vars => Named'
<1> SUFFICES ASSUME RunInv, Named, [Next]_vars PROVE Named'
  OBVIOUS
<1> USE ConstantsAssumption
    DEF RunInv, Shape, Targets, Named, sessionVars, runVars, handlerVars, memoryVars,
        RunIds, Handlers
<1>1. ASSUME NEW r \in Runs, CreateMessage(r) PROVE Named'
  BY <1>1 DEF CreateMessage
<1>2. ASSUME NEW h \in Streams, NEW r \in Runs, OpenRun(h, r) PROVE Named'
  BY <1>2 DEF OpenRun
<1>3. ASSUME NEW h \in Streams, OpenSession(h) PROVE Named'
  BY <1>3 DEF OpenSession
<1>4. ASSUME NEW h \in Posts, StartPost(h) PROVE Named'
  BY <1>4 DEF StartPost
<1>5. ASSUME NEW h \in Posts, PostReturns(h) PROVE Named'
  BY <1>5 DEF PostReturns
<1>6. ASSUME NEW h \in Posts, PostRaises(h) PROVE Named'
  BY <1>6 DEF PostRaises
<1>7. ASSUME NEW h \in Streams, Poll(h) PROVE Named'
  BY <1>7 DEF Poll
<1>8. ASSUME NEW h \in Streams, SeeCancel(h) PROVE Named'
  BY <1>8 DEF SeeCancel, SetRunStatus, Goto
<1>9. ASSUME NEW h \in Streams, SeeDisconnect(h) PROVE Named'
  BY <1>9 DEF SeeDisconnect, SetRunStatus, Goto
<1>10. ASSUME NEW h \in Streams, AppendEvent(h) PROVE Named'
  BY <1>10 DEF AppendEvent
<1>11. ASSUME NEW h \in Streams, RuntimeRaises(h) PROVE Named'
  BY <1>11 DEF RuntimeRaises, SetRunStatus, Goto
<1>12. ASSUME NEW h \in Streams, Drop(h) PROVE Named'
  BY <1>12 DEF Drop
<1>13. ASSUME NEW h \in Streams, EndWithoutExport(h) PROVE Named'
  BY <1>13, DerivedIsOutcome DEF EndWithoutExport, CompleteRun, SetRunStatus, Goto
<1>14. ASSUME NEW h \in Streams, EndWithExport(h) PROVE Named'
  BY <1>14, DerivedIsOutcome DEF EndWithExport, CompleteRun, SetRunStatus, Goto
<1>15. ASSUME NEW h \in Streams, ExportAnswers(h) PROVE Named'
  BY <1>15 DEF ExportAnswers
<1>16. ASSUME NEW h \in Streams, FileMemories(h) PROVE Named'
  BY <1>16 DEF FileMemories
<1>17. ASSUME NEW h \in Streams, EndSession(h) PROVE Named'
  BY <1>17 DEF EndSession
<1>18. ASSUME NEW r \in RunIds, CancelRun(r) PROVE Named'
  BY <1>18 DEF CancelRun
<1>19. ASSUME NEW r \in Handled, AcceptCandidate(r) PROVE Named'
  BY <1>19 DEF AcceptCandidate
<1>20. ASSUME NEW r \in Handled, RejectCandidate(r) PROVE Named'
  BY <1>20 DEF RejectCandidate
<1>21. ASSUME NEW r \in Handled, DeleteMemory(r) PROVE Named'
  BY <1>21 DEF DeleteMemory
<1>22. ASSUME SetArchived PROVE Named'
  BY <1>22 DEF SetArchived
<1>23. ASSUME DeleteSession PROVE Named'
  BY <1>23 DEF DeleteSession
<1>24. ASSUME UNCHANGED vars PROVE Named'
  BY <1>24 DEF vars
<1> HIDE DEF RunInv, Shape, Targets, Named, sessionVars, runVars, handlerVars, memoryVars,
     RunIds, Handlers
<1> QED
  BY <1>1, <1>2, <1>3, <1>4, <1>5, <1>6, <1>7, <1>8, <1>9, <1>10, <1>11, <1>12, <1>13,
       <1>14, <1>15, <1>16, <1>17, <1>18, <1>19, <1>20, <1>21, <1>22, <1>23, <1>24
     DEF Next, StreamStep

LEMMA LedgerStepHolds == RunInv /\ Named /\ [Next]_vars => LedgerStep /\ Justified
<1> SUFFICES ASSUME RunInv, Named, [Next]_vars PROVE LedgerStep /\ Justified
  OBVIOUS
<1> USE DEF sessionVars, runVars, memoryVars
<1>1. ASSUME NEW r \in Runs, CreateMessage(r) PROVE LedgerStep /\ Justified
  <2>1. /\ present /\ present' /\ runStatus[r] = "none"
        /\ runStatus' = [runStatus EXCEPT ![r] = "created"]
        /\ UNCHANGED <<events, flags>>
    BY <1>1 DEF CreateMessage
  <2>2. told' = [told EXCEPT ![r] = "created"] /\ told[r] = "none" /\ known' = known
    BY <2>1, RecordedKept DEF told, known, RunInv, Shape
  <2>3. Ledger!Create(r)
    BY <2>2 DEF Ledger!Create, told, known
  <2>4. Justified
    BY <2>1, RecordedKept DEF Justified, RunInv, Shape
  <2> QED
    BY <2>3, <2>4 DEF LedgerStep, Ledger!Next
<1>2. ASSUME NEW h \in Streams, NEW r \in Runs, OpenRun(h, r) PROVE LedgerStep /\ Justified
  <2>1. /\ present /\ present' /\ runStatus[r] = "created"
        /\ runStatus' = [runStatus EXCEPT ![r] = "running"]
        /\ UNCHANGED <<events, flags>>
    BY <1>2 DEF OpenRun
  <2>2. told' = [told EXCEPT ![r] = "running"] /\ told[r] = "created" /\ known' = known
    BY <2>1, RecordedKept DEF told, known, RunInv, Shape
  <2>3. Ledger!Start(r)
    BY <2>2 DEF Ledger!Start, Ledger!Live, told, known
  <2>4. Justified
    BY <2>1, RecordedKept DEF Justified, RunInv, Shape
  <2> QED
    BY <2>3, <2>4 DEF LedgerStep, Ledger!Next
<1>3. ASSUME NEW h \in Streams, OpenSession(h) PROVE LedgerStep /\ Justified
  BY <1>3, QuietStep DEF OpenSession
<1>4. ASSUME NEW h \in Posts, StartPost(h) PROVE LedgerStep /\ Justified
  BY <1>4, QuietStep DEF StartPost
<1>5. ASSUME NEW h \in Posts, PostReturns(h) PROVE LedgerStep /\ Justified
  <2>1. PICK last \in Ends : events' = [events EXCEPT ![h] = <<last>>]
    BY <1>5 DEF PostReturns
  <2>2. h \notin Runs
    BY ConstantsAssumption DEF Handlers
  <2>3. \A r \in Runs : events'[r] = events[r]
    BY <2>1, <2>2 DEF RunInv, Shape, RunIds
  <2>4. UNCHANGED <<present, runStatus, flags>>
    BY <1>5 DEF PostReturns
  <2>5. \A r \in Runs : Recorded(r)' = Recorded(r)
    BY <2>3, <2>4 DEF Recorded
  <2> QED
    BY <2>4, <2>5 DEF LedgerStep, told, known, Justified
<1>6. ASSUME NEW h \in Posts, PostRaises(h) PROVE LedgerStep /\ Justified
  BY <1>6, QuietStep DEF PostRaises
<1>7. ASSUME NEW h \in Streams, Poll(h) PROVE LedgerStep /\ Justified
  BY <1>7, QuietStep DEF Poll
<1>8. ASSUME NEW h \in Streams, SeeCancel(h) PROVE LedgerStep /\ Justified
  <2>1. /\ target[h] \in RunIds
        /\ target[h] \in Runs => runStatus[target[h]] # "none"
    BY <1>8, ConstantsAssumption DEF SeeCancel, RunInv, Shape, Targets, Handlers, RunIds
  <2>2. /\ flags' = flags \cup {target[h]} /\ UNCHANGED <<present, events>>
        /\ runStatus' = IF target[h] \in Runs THEN [runStatus EXCEPT ![target[h]] = "cancelled"]
                        ELSE runStatus
    BY <1>8 DEF SeeCancel, SetRunStatus
  <2> QED
    BY <2>1, <2>2, CancelStep DEF RunInv
<1>9. ASSUME NEW h \in Streams, SeeDisconnect(h) PROVE LedgerStep /\ Justified
  <2>1. /\ target[h] \in RunIds
        /\ target[h] \in Runs => runStatus[target[h]] # "none"
    BY <1>9, ConstantsAssumption DEF SeeDisconnect, RunInv, Shape, Targets, Handlers, RunIds
  <2>2. /\ flags' = flags \cup {target[h]} /\ UNCHANGED <<present, events>>
        /\ runStatus' = IF target[h] \in Runs THEN [runStatus EXCEPT ![target[h]] = "cancelled"]
                        ELSE runStatus
    BY <1>9 DEF SeeDisconnect, SetRunStatus
  <2> QED
    BY <2>1, <2>2, CancelStep DEF RunInv
<1>10. ASSUME NEW h \in Streams, AppendEvent(h) PROVE LedgerStep /\ Justified
  <2>1. /\ target[h] \in RunIds
        /\ target[h] \in Runs => runStatus[target[h]] # "none"
    BY <1>10, ConstantsAssumption DEF AppendEvent, RunInv, Shape, Targets, Handlers, RunIds
  <2>2. PICK type \in Ends \cup {"step"} :
          events' = [events EXCEPT ![target[h]] = Append(@, type)]
    BY <1>10 DEF AppendEvent
  <2>3. type \in EventTypes
    BY ConstantsAssumption DEF EventTypes, Deciding
  <2>4. UNCHANGED <<present, runStatus, flags>>
    BY <1>10 DEF AppendEvent
  <2> QED
    BY <2>1, <2>2, <2>3, <2>4, EventStep DEF RunInv
<1>11. ASSUME NEW h \in Streams, RuntimeRaises(h) PROVE LedgerStep /\ Justified
  <2>1. /\ target[h] \in RunIds
        /\ target[h] \in Runs => runStatus[target[h]] # "none"
    BY <1>11, ConstantsAssumption DEF RuntimeRaises, RunInv, Shape, Targets, Handlers, RunIds
  <2>2. /\ events' = [events EXCEPT ![target[h]] = Append(@, "run_failed")]
        /\ UNCHANGED <<present, flags>>
        /\ runStatus' = IF target[h] \in Runs THEN [runStatus EXCEPT ![target[h]] = "failed"]
                        ELSE runStatus
    BY <1>11 DEF RuntimeRaises, SetRunStatus
  <2>3. "run_failed" \in EventTypes /\ "run_failed" \in Deciding
    BY DEF EventTypes, Deciding
  <2>4. DeriveStatus(<<"run_failed">>) = "failed" /\ "failed" \in Ledger!Outcomes
    BY DEF DeriveStatus, Ledger!Outcomes
  <2>5. CASE target[h] \in Runs
    <3>1. \A r \in Runs : Recorded(r)' = IF r = target[h] THEN Recorded(r) \cup {"failed"}
                                         ELSE Recorded(r)
      BY <2>1, <2>2, <2>3, <2>4, RecordedByEvent DEF RunInv
    <3> QED
      BY <2>1, <2>2, <2>4, <2>5, <3>1, SettleStep DEF RunInv
  <2>6. CASE target[h] \notin Runs
    BY <2>1, <2>2, <2>3, <2>6, EventStep DEF RunInv
  <2> QED
    BY <2>5, <2>6
<1>12. ASSUME NEW h \in Streams, Drop(h) PROVE LedgerStep /\ Justified
  BY <1>12, QuietStep DEF Drop
<1>13. ASSUME NEW h \in Streams, EndWithoutExport(h) PROVE LedgerStep /\ Justified
  BY <1>13, CompleteStep DEF EndWithoutExport
<1>14. ASSUME NEW h \in Streams, EndWithExport(h) PROVE LedgerStep /\ Justified
  BY <1>14, CompleteStep DEF EndWithExport
<1>15. ASSUME NEW h \in Streams, ExportAnswers(h) PROVE LedgerStep /\ Justified
  <2>1. /\ target[h] \in RunIds
        /\ target[h] \in Runs => runStatus[target[h]] # "none"
    BY <1>15, ConstantsAssumption DEF ExportAnswers, RunInv, Shape, Targets, Handlers, RunIds
  <2>2. /\ events' = [events EXCEPT ![target[h]] = Append(@, "export")]
        /\ UNCHANGED <<present, runStatus, flags>>
    BY <1>15 DEF ExportAnswers
  <2>3. "export" \in EventTypes
    BY DEF EventTypes
  <2> QED
    BY <2>1, <2>2, <2>3, EventStep DEF RunInv
<1>16. ASSUME NEW h \in Streams, FileMemories(h) PROVE LedgerStep /\ Justified
  BY <1>16, QuietStep DEF FileMemories
<1>17. ASSUME NEW h \in Streams, EndSession(h) PROVE LedgerStep /\ Justified
  BY <1>17, QuietStep DEF EndSession
<1>18. ASSUME NEW r \in RunIds, CancelRun(r) PROVE LedgerStep /\ Justified
  <2>1. r \in Runs => runStatus[r] # "none"
    BY <1>18 DEF CancelRun, Named
  <2> QED
    BY <1>18, <2>1, CancelStep DEF CancelRun, RunInv
<1>19. ASSUME NEW r \in Handled, AcceptCandidate(r) PROVE LedgerStep /\ Justified
  BY <1>19, QuietStep DEF AcceptCandidate
<1>20. ASSUME NEW r \in Handled, RejectCandidate(r) PROVE LedgerStep /\ Justified
  BY <1>20, QuietStep DEF RejectCandidate
<1>21. ASSUME NEW r \in Handled, DeleteMemory(r) PROVE LedgerStep /\ Justified
  BY <1>21, QuietStep DEF DeleteMemory
<1>22. ASSUME SetArchived PROVE LedgerStep /\ Justified
  BY <1>22, QuietStep DEF SetArchived
<1>23. ASSUME DeleteSession PROVE LedgerStep /\ Justified
  <2>1. /\ present /\ ~present' /\ UNCHANGED <<runStatus, events>>
        /\ flags \subseteq flags'
    BY <1>23 DEF DeleteSession
  <2>2. Justified
    BY <2>1, RecordedOf, RecordedAfter DEF Justified
  <2>3. /\ told' = [r \in Runs |-> IF told[r] = "none" THEN "none" ELSE "deleted"]
        /\ known' = [r \in Runs |-> {}]
    BY <2>1 DEF told, known
  <2>4. Ledger!RemoveAll
    BY <2>3 DEF Ledger!RemoveAll, told, known
  <2> QED
    BY <2>2, <2>4 DEF LedgerStep, Ledger!Next
<1>24. ASSUME UNCHANGED vars PROVE LedgerStep /\ Justified
  BY <1>24, QuietStep DEF vars
<1> QED
  BY <1>1, <1>2, <1>3, <1>4, <1>5, <1>6, <1>7, <1>8, <1>9, <1>10, <1>11, <1>12, <1>13,
       <1>14, <1>15, <1>16, <1>17, <1>18, <1>19, <1>20, <1>21, <1>22, <1>23, <1>24
     DEF Next, StreamStep

\* The dictionary variant implements the ledger: what a reader is told of a run
\* rests on an event of its list or on its flag, recorded before or together with
\* it, for any runs, handlers and interleaving.
THEOREM DictionariesImplementLedger == Spec => ImplementsLedger
<1>1. Init => Ledger!Init
  BY DEF Init, Ledger!Init, Recorded, RunIds
<1>2. RunInv /\ Named /\ [Next]_vars => [Ledger!Next]_<<told, known>>
  BY LedgerStepHolds DEF LedgerStep
<1>3. Spec => [][Ledger!Next]_<<told, known>>
  BY RunInvInit, RunInvStep, NamedInit, NamedStep, <1>2, PTL DEF Spec
<1>4. Spec => Ledger!Init
  BY <1>1 DEF Spec
<1> QED
  BY <1>3, <1>4, PTL DEF ImplementsLedger, Ledger!Spec, told, known

\* A settled message run has the event or the flag that settles it
\* (derive_run_status, _cancelled_run_ids), also after its session is deleted.
THEOREM SettledRunsAreRecorded == Spec => []SettledIsRecorded
<1>1. Init => SettledIsRecorded
  BY DEF Init, SettledIsRecorded
<1>2. RunInv /\ Named /\ SettledIsRecorded /\ [Next]_vars => SettledIsRecorded'
  BY LedgerStepHolds DEF SettledIsRecorded, Justified
<1> QED
  BY RunInvInit, RunInvStep, NamedInit, NamedStep, <1>1, <1>2, PTL DEF Spec
===============================================================================
