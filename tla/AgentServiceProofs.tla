-------------------------- MODULE AgentServiceProofs --------------------------
(***************************************************************************)
(* Theorems about AgentService and its two runtimes for every value of     *)
(* their constants.                                                        *)
(***************************************************************************)
EXTENDS AgentService, SequenceTheorems, TLAPS

---------------------------------------------------------------------------
(* The contract *)

\* While a runtime goes on, it is at its end exactly if it has said how the run
\* ends.
ContractInv ==
    /\ runtime \in {"react", "phase1"}
    /\ outcome = "running" => (pc = "end" <=> Said \in Contract!Deciding)

LEMMA ContractInvInit == Init => ContractInv
BY DEF Init, React!ReactInit, ContractInv, Said, Contract!Deciding

LEMMA ContractInvStep == ContractInv /\ [Next]_vars => ContractInv'
<1> SUFFICES ASSUME ContractInv, [Next]_vars PROVE ContractInv'
  OBVIOUS
<1> USE BudgetsAssumption
    DEF ContractInv, Said, Contract!Deciding, shared, reactOnly, phase1Only, runtimeVars,
         handlerVars, React!loopVars, React!streamVars
<1>1. ASSUME runtime = "react", React!ReactProgress \/ React!Abandon,
             UNCHANGED <<phase1Only, handlerVars>>
      PROVE  ContractInv'
  <2>1. CASE React!RunStarted
    BY <1>1, <2>1 DEF React!RunStarted, React!At, React!Goto, React!Yield
  <2>2. CASE React!ContextBuilt
    BY <1>1, <2>2 DEF React!ContextBuilt, React!At, React!Goto, React!Yield
  <2>3. CASE React!SummaryLoaded
    BY <1>1, <2>3 DEF React!SummaryLoaded, React!At, React!Goto, React!Yield
  <2>4. CASE React!StartStep
    BY <1>1, <2>4 DEF React!StartStep, React!At, React!Goto, React!Yield
  <2>5. CASE React!ThinkingStarted
    BY <1>1, <2>5 DEF React!ThinkingStarted, React!At, React!Goto, React!Yield
  <2>6. CASE React!ThinkingDelta
    BY <1>1, <2>6 DEF React!ThinkingDelta, React!At, React!Goto, React!Yield
  <2>7. CASE React!ActionDelta
    BY <1>1, <2>7 DEF React!ActionDelta, React!At, React!Goto, React!Yield
  <2>8. CASE React!StreamEnds
    BY <1>1, <2>8 DEF React!StreamEnds, React!At, React!Goto, React!Yield, React!Silent
  <2>9. CASE React!SelectAction
    BY <1>1, <2>9 DEF React!SelectAction, React!At, React!Goto, React!Yield
  <2>10. CASE React!FinalAnswer
    BY <1>1, <2>10 DEF React!FinalAnswer, React!At, React!Goto, React!Silent, React!Done
  <2>11. CASE React!AskUser
    BY <1>1, <2>11 DEF React!AskUser, React!At, React!Goto, React!Yield, React!Done
  <2>12. CASE React!SearchMemory
    BY <1>1, <2>12 DEF React!SearchMemory, React!At, React!Goto, React!Yield, React!Done
  <2>13. CASE React!RefuseSearch
    BY <1>1, <2>13 DEF React!RefuseSearch, React!At, React!Goto, React!Silent, React!Done
  <2>14. CASE React!StartSearch
    BY <1>1, <2>14 DEF React!StartSearch, React!At, React!Goto, React!Yield, React!Done
  <2>15. CASE React!CompleteSearch
    BY <1>1, <2>15 DEF React!CompleteSearch, React!At, React!Goto, React!Yield
  <2>16. CASE React!RefuseTool
    BY <1>1, <2>16 DEF React!RefuseTool, React!At, React!Goto, React!Silent
  <2>17. CASE React!StartTool
    BY <1>1, <2>17 DEF React!StartTool, React!At, React!Goto, React!Yield
  <2>18. CASE React!CompleteTool
    BY <1>1, <2>18 DEF React!CompleteTool, React!At, React!Goto, React!Yield
  <2>19. CASE React!FailTool
    BY <1>1, <2>19 DEF React!FailTool, React!At, React!Goto, React!Yield
  <2>20. CASE React!CompleteStep
    BY <1>1, <2>20 DEF React!CompleteStep, React!At, React!Goto, React!Yield
  <2>21. CASE React!StartAnswer
    BY <1>1, <2>21 DEF React!StartAnswer, React!At, React!Goto, React!Yield
  <2>22. CASE React!AnswerDelta
    BY <1>1, <2>22 DEF React!AnswerDelta, React!At, React!Goto, React!Yield
  <2>23. CASE React!Recommend
    BY <1>1, <2>23 DEF React!Recommend, React!At, React!Goto, React!Yield
  <2>24. CASE React!AnswerCompleted
    BY <1>1, <2>24 DEF React!AnswerCompleted, React!At, React!Goto, React!Yield
  <2>25. CASE React!RunCompleted
    BY <1>1, <2>25 DEF React!RunCompleted, React!At, React!Goto, React!Yield
  <2>26. CASE React!Returned
    BY <1>1, <2>26 DEF React!Returned, React!At
  <2>27. CASE React!Raise
    BY <1>1, <2>27 DEF React!Raise
  <2>28. CASE React!Abandon
    BY <1>1, <2>28 DEF React!Abandon
  <2> QED
    BY <1>1, <2>1, <2>2, <2>3, <2>4, <2>5, <2>6, <2>7, <2>8, <2>9, <2>10, <2>11, <2>12, <2>13,
         <2>14, <2>15, <2>16, <2>17, <2>18, <2>19, <2>20, <2>21, <2>22, <2>23, <2>24, <2>25,
         <2>26, <2>27, <2>28
       DEF React!ReactProgress, React!CarryOut
<1>2. ASSUME runtime = "phase1", Phase1!PipelineProgress \/ Phase1!Abandon,
             UNCHANGED <<reactOnly, handlerVars>>
      PROVE  ContractInv'
  <2>1. CASE Phase1!StartAnalysis
    BY <1>2, <2>1 DEF Phase1!StartAnalysis, Phase1!At, Phase1!Goto, Phase1!Yield
  <2>2. CASE Phase1!Understand
    BY <1>2, <2>2 DEF Phase1!Understand, Phase1!At, Phase1!RunNode, Phase1!Goto, Phase1!Yield
  <2>3. CASE Phase1!BuildContext
    BY <1>2, <2>3 DEF Phase1!BuildContext, Phase1!At, Phase1!RunNode, Phase1!Goto, Phase1!Yield
  <2>4. CASE Phase1!Plan
    BY <1>2, <2>4 DEF Phase1!Plan, Phase1!At, Phase1!RunNode, Phase1!Goto, Phase1!Yield
  <2>5. CASE Phase1!StartTool
    BY <1>2, <2>5 DEF Phase1!StartTool, Phase1!At, Phase1!Goto, Phase1!Yield
  <2>6. CASE Phase1!CompleteTool
    BY <1>2, <2>6 DEF Phase1!CompleteTool, Phase1!At, Phase1!Goto, Phase1!Yield
  <2>7. CASE Phase1!FailTool
    BY <1>2, <2>7 DEF Phase1!FailTool, Phase1!At, Phase1!Goto, Phase1!Yield
  <2>8. CASE Phase1!RunFailed
    BY <1>2, <2>8 DEF Phase1!RunFailed, Phase1!At, Phase1!Goto, Phase1!Yield
  <2>9. CASE Phase1!Retrieve
    BY <1>2, <2>9 DEF Phase1!Retrieve, Phase1!At, Phase1!Goto, Phase1!Yield
  <2>10. CASE Phase1!Reason
    BY <1>2, <2>10 DEF Phase1!Reason, Phase1!At, Phase1!RunNode, Phase1!Goto, Phase1!Yield
  <2>11. CASE Phase1!Recommend
    BY <1>2, <2>11 DEF Phase1!Recommend, Phase1!At, Phase1!Goto, Phase1!Yield
  <2>12. CASE Phase1!AwaitUser
    BY <1>2, <2>12 DEF Phase1!AwaitUser, Phase1!At, Phase1!RunNode, Phase1!Goto, Phase1!Yield
  <2>13. CASE Phase1!Returned
    BY <1>2, <2>13 DEF Phase1!Returned, Phase1!At
  <2>14. CASE Phase1!Raise
    BY <1>2, <2>14 DEF Phase1!Raise, Phase1!At
  <2>15. CASE Phase1!Abandon
    BY <1>2, <2>15 DEF Phase1!Abandon
  <2> QED
    BY <1>2, <2>1, <2>2, <2>3, <2>4, <2>5, <2>6, <2>7, <2>8, <2>9, <2>10, <2>11, <2>12, <2>13,
         <2>14, <2>15
       DEF Phase1!PipelineProgress
<1>3. ASSUME UNCHANGED <<runtimeVars, runtime>> PROVE ContractInv'
  BY <1>3
<1>4. CASE Iterate
  BY <1>1, <1>2, <1>4 DEF Iterate
<1>5. CASE StopListening
  BY <1>1, <1>2, <1>5 DEF StopListening
<1>6. CASE \/ Settle \/ SettleFailed \/ SettleCancelled \/ MakeExport \/ CancelRun
         \/ UNCHANGED vars
  BY <1>3, <1>6 DEF Settle, SettleFailed, SettleCancelled, MakeExport, CancelRun, vars, handlerVars
<1> QED
  BY <1>4, <1>5, <1>6 DEF Next

\* A step of the contract, seen through the refinement mapping.
ContractStep == Contract!Next \/ UNCHANGED <<Said, outcome>>

LEMMA ContractStepHolds == ContractInv /\ [Next]_vars => ContractStep
<1> SUFFICES ASSUME ContractInv, [Next]_vars PROVE ContractStep
  OBVIOUS
<1> USE BudgetsAssumption
    DEF ContractInv, ContractStep, Contract!Next, Contract!Say, Contract!Return,
         Contract!Raise, Contract!Abandon, Said, Contract!Deciding, shared, reactOnly,
         phase1Only, runtimeVars, handlerVars, React!loopVars, React!streamVars
<1>1. ASSUME runtime = "react", React!ReactProgress \/ React!Abandon,
             UNCHANGED <<phase1Only, handlerVars>>
      PROVE  ContractStep
  <2>1. CASE React!RunStarted
    BY <1>1, <2>1 DEF React!RunStarted, React!At, React!Goto, React!Yield
  <2>2. CASE React!ContextBuilt
    BY <1>1, <2>2 DEF React!ContextBuilt, React!At, React!Goto, React!Yield
  <2>3. CASE React!SummaryLoaded
    BY <1>1, <2>3 DEF React!SummaryLoaded, React!At, React!Goto, React!Yield
  <2>4. CASE React!StartStep
    BY <1>1, <2>4 DEF React!StartStep, React!At, React!Goto, React!Yield
  <2>5. CASE React!ThinkingStarted
    BY <1>1, <2>5 DEF React!ThinkingStarted, React!At, React!Goto, React!Yield
  <2>6. CASE React!ThinkingDelta
    BY <1>1, <2>6 DEF React!ThinkingDelta, React!At, React!Goto, React!Yield
  <2>7. CASE React!ActionDelta
    BY <1>1, <2>7 DEF React!ActionDelta, React!At, React!Goto, React!Yield
  <2>8. CASE React!StreamEnds
    BY <1>1, <2>8 DEF React!StreamEnds, React!At, React!Goto, React!Yield, React!Silent
  <2>9. CASE React!SelectAction
    BY <1>1, <2>9 DEF React!SelectAction, React!At, React!Goto, React!Yield
  <2>10. CASE React!FinalAnswer
    BY <1>1, <2>10 DEF React!FinalAnswer, React!At, React!Goto, React!Silent, React!Done
  <2>11. CASE React!AskUser
    BY <1>1, <2>11 DEF React!AskUser, React!At, React!Goto, React!Yield, React!Done
  <2>12. CASE React!SearchMemory
    BY <1>1, <2>12 DEF React!SearchMemory, React!At, React!Goto, React!Yield, React!Done
  <2>13. CASE React!RefuseSearch
    BY <1>1, <2>13 DEF React!RefuseSearch, React!At, React!Goto, React!Silent, React!Done
  <2>14. CASE React!StartSearch
    BY <1>1, <2>14 DEF React!StartSearch, React!At, React!Goto, React!Yield, React!Done
  <2>15. CASE React!CompleteSearch
    BY <1>1, <2>15 DEF React!CompleteSearch, React!At, React!Goto, React!Yield
  <2>16. CASE React!RefuseTool
    BY <1>1, <2>16 DEF React!RefuseTool, React!At, React!Goto, React!Silent
  <2>17. CASE React!StartTool
    BY <1>1, <2>17 DEF React!StartTool, React!At, React!Goto, React!Yield
  <2>18. CASE React!CompleteTool
    BY <1>1, <2>18 DEF React!CompleteTool, React!At, React!Goto, React!Yield
  <2>19. CASE React!FailTool
    BY <1>1, <2>19 DEF React!FailTool, React!At, React!Goto, React!Yield
  <2>20. CASE React!CompleteStep
    BY <1>1, <2>20 DEF React!CompleteStep, React!At, React!Goto, React!Yield
  <2>21. CASE React!StartAnswer
    BY <1>1, <2>21 DEF React!StartAnswer, React!At, React!Goto, React!Yield
  <2>22. CASE React!AnswerDelta
    BY <1>1, <2>22 DEF React!AnswerDelta, React!At, React!Goto, React!Yield
  <2>23. CASE React!Recommend
    BY <1>1, <2>23 DEF React!Recommend, React!At, React!Goto, React!Yield
  <2>24. CASE React!AnswerCompleted
    BY <1>1, <2>24 DEF React!AnswerCompleted, React!At, React!Goto, React!Yield
  <2>25. CASE React!RunCompleted
    BY <1>1, <2>25 DEF React!RunCompleted, React!At, React!Goto, React!Yield
  <2>26. CASE React!Returned
    BY <1>1, <2>26 DEF React!Returned, React!At
  <2>27. CASE React!Raise
    BY <1>1, <2>27 DEF React!Raise
  <2>28. CASE React!Abandon
    BY <1>1, <2>28 DEF React!Abandon
  <2> QED
    BY <1>1, <2>1, <2>2, <2>3, <2>4, <2>5, <2>6, <2>7, <2>8, <2>9, <2>10, <2>11, <2>12, <2>13,
         <2>14, <2>15, <2>16, <2>17, <2>18, <2>19, <2>20, <2>21, <2>22, <2>23, <2>24, <2>25,
         <2>26, <2>27, <2>28
       DEF React!ReactProgress, React!CarryOut
<1>2. ASSUME runtime = "phase1", Phase1!PipelineProgress \/ Phase1!Abandon,
             UNCHANGED <<reactOnly, handlerVars>>
      PROVE  ContractStep
  <2>1. CASE Phase1!StartAnalysis
    BY <1>2, <2>1 DEF Phase1!StartAnalysis, Phase1!At, Phase1!Goto, Phase1!Yield
  <2>2. CASE Phase1!Understand
    BY <1>2, <2>2 DEF Phase1!Understand, Phase1!At, Phase1!RunNode, Phase1!Goto, Phase1!Yield
  <2>3. CASE Phase1!BuildContext
    BY <1>2, <2>3 DEF Phase1!BuildContext, Phase1!At, Phase1!RunNode, Phase1!Goto, Phase1!Yield
  <2>4. CASE Phase1!Plan
    BY <1>2, <2>4 DEF Phase1!Plan, Phase1!At, Phase1!RunNode, Phase1!Goto, Phase1!Yield
  <2>5. CASE Phase1!StartTool
    BY <1>2, <2>5 DEF Phase1!StartTool, Phase1!At, Phase1!Goto, Phase1!Yield
  <2>6. CASE Phase1!CompleteTool
    BY <1>2, <2>6 DEF Phase1!CompleteTool, Phase1!At, Phase1!Goto, Phase1!Yield
  <2>7. CASE Phase1!FailTool
    BY <1>2, <2>7 DEF Phase1!FailTool, Phase1!At, Phase1!Goto, Phase1!Yield
  <2>8. CASE Phase1!RunFailed
    BY <1>2, <2>8 DEF Phase1!RunFailed, Phase1!At, Phase1!Goto, Phase1!Yield
  <2>9. CASE Phase1!Retrieve
    BY <1>2, <2>9 DEF Phase1!Retrieve, Phase1!At, Phase1!Goto, Phase1!Yield
  <2>10. CASE Phase1!Reason
    BY <1>2, <2>10 DEF Phase1!Reason, Phase1!At, Phase1!RunNode, Phase1!Goto, Phase1!Yield
  <2>11. CASE Phase1!Recommend
    BY <1>2, <2>11 DEF Phase1!Recommend, Phase1!At, Phase1!Goto, Phase1!Yield
  <2>12. CASE Phase1!AwaitUser
    BY <1>2, <2>12 DEF Phase1!AwaitUser, Phase1!At, Phase1!RunNode, Phase1!Goto, Phase1!Yield
  <2>13. CASE Phase1!Returned
    BY <1>2, <2>13 DEF Phase1!Returned, Phase1!At
  <2>14. CASE Phase1!Raise
    BY <1>2, <2>14 DEF Phase1!Raise, Phase1!At
  <2>15. CASE Phase1!Abandon
    BY <1>2, <2>15 DEF Phase1!Abandon
  <2> QED
    BY <1>2, <2>1, <2>2, <2>3, <2>4, <2>5, <2>6, <2>7, <2>8, <2>9, <2>10, <2>11, <2>12, <2>13,
         <2>14, <2>15
       DEF Phase1!PipelineProgress
<1>3. ASSUME UNCHANGED <<runtimeVars, runtime>> PROVE ContractStep
  BY <1>3
<1>4. CASE Iterate
  BY <1>1, <1>2, <1>4 DEF Iterate
<1>5. CASE StopListening
  BY <1>1, <1>2, <1>5 DEF StopListening
<1>6. CASE \/ Settle \/ SettleFailed \/ SettleCancelled \/ MakeExport \/ CancelRun
         \/ UNCHANGED vars
  BY <1>3, <1>6 DEF Settle, SettleFailed, SettleCancelled, MakeExport, CancelRun, vars, handlerVars
<1> QED
  BY <1>4, <1>5, <1>6 DEF Next

\* Both runtimes keep the contract.
THEOREM RuntimesKeepContract == Spec => ImplementsContract
<1>1. Init => Contract!Init
  BY DEF Init, React!ReactInit, Contract!Init, Said
<1>2. ContractInv /\ [Next]_vars => [Contract!Next]_<<Said, outcome>>
  BY ContractStepHolds DEF ContractStep
<1> QED
  BY ContractInvInit, ContractInvStep, <1>1, <1>2, PTL DEF Spec, ImplementsContract, Contract!Spec

---------------------------------------------------------------------------
(* The tool budget *)

\* What the final prompt says is missing is what is missing when it is built, and
\* nothing is asked of a tool after that.
RefusalInv ==
    /\ toolCalls \in Seq(Names)
    /\ refused \in Nat
    /\ Len(toolCalls) <= MaxToolCalls
    /\ refused > 0 <=> "tools" \in missing
    /\ prompt # React!NoPrompt =>
          /\ runtime = "react"
          /\ pc \in {"answering", "recommended", "completed", "end"}
          /\ prompt.missing = missing

LEMMA RefusalInvInit == Init => RefusalInv
BY BudgetsAssumption DEF Init, React!ReactInit, RefusalInv, React!BudgetsOK

LEMMA RefusalInvStep == RefusalInv /\ [Next]_vars => RefusalInv'
<1> SUFFICES ASSUME RefusalInv, [Next]_vars PROVE RefusalInv'
  OBVIOUS
<1> USE BudgetsAssumption
    DEF RefusalInv, React!BudgetsOK, shared, reactOnly, phase1Only, runtimeVars, handlerVars,
         React!loopVars, React!streamVars
<1>1. ASSUME runtime = "react", React!ReactProgress \/ React!Abandon,
             UNCHANGED <<phase1Only, handlerVars>>
      PROVE  RefusalInv'
  <2>1. CASE React!RunStarted
    BY <1>1, <2>1 DEF React!RunStarted, React!At, React!Goto, React!Yield
  <2>2. CASE React!ContextBuilt
    BY <1>1, <2>2 DEF React!ContextBuilt, React!At, React!Goto, React!Yield
  <2>3. CASE React!SummaryLoaded
    BY <1>1, <2>3 DEF React!SummaryLoaded, React!At, React!Goto, React!Yield
  <2>4. CASE React!StartStep
    BY <1>1, <2>4 DEF React!StartStep, React!At, React!Goto, React!Yield
  <2>5. CASE React!ThinkingStarted
    BY <1>1, <2>5 DEF React!ThinkingStarted, React!At, React!Goto, React!Yield
  <2>6. CASE React!ThinkingDelta
    BY <1>1, <2>6 DEF React!ThinkingDelta, React!At, React!Goto, React!Yield
  <2>7. CASE React!ActionDelta
    BY <1>1, <2>7 DEF React!ActionDelta, React!At, React!Goto, React!Yield
  <2>8. CASE React!StreamEnds
    BY <1>1, <2>8 DEF React!StreamEnds, React!At, React!Goto, React!Yield, React!Silent
  <2>9. CASE React!SelectAction
    BY <1>1, <2>9 DEF React!SelectAction, React!At, React!Goto, React!Yield
  <2>10. CASE React!FinalAnswer
    BY <1>1, <2>10 DEF React!FinalAnswer, React!At, React!Goto, React!Silent, React!Done
  <2>11. CASE React!AskUser
    BY <1>1, <2>11 DEF React!AskUser, React!At, React!Goto, React!Yield, React!Done
  <2>12. CASE React!SearchMemory
    BY <1>1, <2>12 DEF React!SearchMemory, React!At, React!Goto, React!Yield, React!Done
  <2>13. CASE React!RefuseSearch
    BY <1>1, <2>13 DEF React!RefuseSearch, React!At, React!Goto, React!Silent, React!Done
  <2>14. CASE React!StartSearch
    BY <1>1, <2>14 DEF React!StartSearch, React!At, React!Goto, React!Yield, React!Done
  <2>15. CASE React!CompleteSearch
    BY <1>1, <2>15 DEF React!CompleteSearch, React!At, React!Goto, React!Yield
  <2>16. CASE React!RefuseTool
    BY <1>1, <2>16 DEF React!RefuseTool, React!At, React!Goto, React!Silent
  <2>17. CASE React!StartTool
    BY <1>1, <2>17 DEF React!StartTool, React!At, React!Goto, React!Yield
  <2>18. CASE React!CompleteTool
    BY <1>1, <2>18 DEF React!CompleteTool, React!At, React!Goto, React!Yield
  <2>19. CASE React!FailTool
    BY <1>1, <2>19 DEF React!FailTool, React!At, React!Goto, React!Yield
  <2>20. CASE React!CompleteStep
    BY <1>1, <2>20 DEF React!CompleteStep, React!At, React!Goto, React!Yield
  <2>21. CASE React!StartAnswer
    BY <1>1, <2>21 DEF React!StartAnswer, React!At, React!Goto, React!Yield
  <2>22. CASE React!AnswerDelta
    BY <1>1, <2>22 DEF React!AnswerDelta, React!At, React!Goto, React!Yield
  <2>23. CASE React!Recommend
    BY <1>1, <2>23 DEF React!Recommend, React!At, React!Goto, React!Yield
  <2>24. CASE React!AnswerCompleted
    BY <1>1, <2>24 DEF React!AnswerCompleted, React!At, React!Goto, React!Yield
  <2>25. CASE React!RunCompleted
    BY <1>1, <2>25 DEF React!RunCompleted, React!At, React!Goto, React!Yield
  <2>26. CASE React!Returned
    BY <1>1, <2>26 DEF React!Returned, React!At
  <2>27. CASE React!Raise
    BY <1>1, <2>27 DEF React!Raise
  <2>28. CASE React!Abandon
    BY <1>1, <2>28 DEF React!Abandon
  <2> QED
    BY <1>1, <2>1, <2>2, <2>3, <2>4, <2>5, <2>6, <2>7, <2>8, <2>9, <2>10, <2>11, <2>12, <2>13,
         <2>14, <2>15, <2>16, <2>17, <2>18, <2>19, <2>20, <2>21, <2>22, <2>23, <2>24, <2>25,
         <2>26, <2>27, <2>28
       DEF React!ReactProgress, React!CarryOut
<1>2. ASSUME runtime = "phase1", Phase1!PipelineProgress \/ Phase1!Abandon,
             UNCHANGED <<reactOnly, handlerVars>>
      PROVE  RefusalInv'
  BY <1>2
<1>3. ASSUME UNCHANGED <<runtimeVars, runtime>> PROVE RefusalInv'
  BY <1>3
<1>4. CASE Iterate
  BY <1>1, <1>2, <1>4 DEF Iterate
<1>5. CASE StopListening
  BY <1>1, <1>2, <1>5 DEF StopListening
<1>6. CASE \/ Settle \/ SettleFailed \/ SettleCancelled \/ MakeExport \/ CancelRun
         \/ UNCHANGED vars
  BY <1>3, <1>6 DEF Settle, SettleFailed, SettleCancelled, MakeExport, CancelRun, vars, handlerVars
<1> QED
  BY <1>4, <1>5, <1>6 DEF Next

\* No more tool calls are made than the budget, and a refused one is reported.
THEOREM RefusedCallsAreReported == Spec => []RefusalsAreReported
<1>1. RefusalInv => RefusalsAreReported
  BY DEF RefusalInv, RefusalsAreReported
<1> QED
  BY RefusalInvInit, RefusalInvStep, <1>1, PTL DEF Spec

---------------------------------------------------------------------------
(* The brackets of the event stream *)

\* What is open at each point of a runtime, innermost first.
Open ==
    IF runtime = "phase1" THEN IF pc = "tool" THEN <<"tool">> ELSE <<>>
    ELSE CASE pc = "stream" /\ thinking           -> <<"thinking", "step">>
           [] pc = "stream" /\ ~thinking          -> <<"step">>
           [] pc = "thought"                      -> <<"thinking", "step">>
           [] pc \in {"parse", "act"}             -> <<"step">>
           [] pc = "search"                       -> <<"search", "step">>
           [] pc = "tool"                         -> <<"tool", "step">>
           [] pc \in {"answering", "recommended"} -> <<"answer">>
           [] OTHER                               -> <<>>

BracketInv ==
    /\ runtime \in {"react", "phase1"}
    /\ thinking \in BOOLEAN
    /\ pc = "thought" => thinking
    /\ brackets = Open
    /\ outcome = "returned" => pc = "end"

LEMMA BracketInvInit == Init => BracketInv
BY DEF Init, React!ReactInit, BracketInv, Open

LEMMA PushFirst == \A a : <<a>> \o <<>> = <<a>>
OBVIOUS

LEMMA PushSecond == \A a, b : <<a>> \o <<b>> = <<a, b>>
<1> SUFFICES ASSUME NEW a, NEW b PROVE <<a>> \o <<b>> = <<a, b>>
  OBVIOUS
<1> DEFINE S == {a, b}
<1>1. <<a>> \in Seq(S) /\ <<b>> \in Seq(S) /\ <<a, b>> \in Seq(S)
  OBVIOUS
<1>2. Len(<<a>>) = 1 /\ Len(<<b>>) = 1 /\ Len(<<a, b>>) = 2 /\ <<a>>[1] = a /\ <<b>>[1] = b
  OBVIOUS
<1> DEFINE s == <<a>>
           t == <<b>>
<1>3. s \in Seq(S) /\ t \in Seq(S) /\ Len(s) = 1 /\ Len(t) = 1 /\ s[1] = a /\ t[1] = b
  BY <1>1, <1>2
<1> HIDE DEF s, t, S
<1>4. s \o t \in Seq(S) /\ Len(s \o t) = 2 /\ (s \o t)[1] = a /\ (s \o t)[2] = b
  BY <1>3, ConcatProperties
<1>5. \A i \in 1..2 : (s \o t)[i] = <<a, b>>[i]
  BY <1>4
<1>6. s \o t = <<a, b>>
  BY <1>1, <1>2, <1>4, <1>5, SeqEqual
<1> QED
  BY <1>6 DEF s, t

LEMMA BracketInvStep == BracketInv /\ [Next]_vars => BracketInv'
<1> SUFFICES ASSUME BracketInv, [Next]_vars PROVE BracketInv'
  OBVIOUS
<1> USE BudgetsAssumption
    DEF BracketInv, Open, shared, reactOnly, phase1Only, runtimeVars, handlerVars,
         React!loopVars, React!streamVars
<1>1. ASSUME runtime = "react", React!ReactProgress \/ React!Abandon,
             UNCHANGED <<phase1Only, handlerVars>>
      PROVE  BracketInv'
  <2>1. CASE React!RunStarted
    BY <1>1, <2>1 DEF React!RunStarted, React!At, React!Goto, React!Yield, React!Opens,
         React!Closes
  <2>2. CASE React!ContextBuilt
    BY <1>1, <2>2 DEF React!ContextBuilt, React!At, React!Goto, React!Yield, React!Opens,
         React!Closes
  <2>3. CASE React!SummaryLoaded
    BY <1>1, <2>3 DEF React!SummaryLoaded, React!At, React!Goto, React!Yield, React!Opens,
         React!Closes
  <2>4. CASE React!StartStep
    BY <1>1, <2>4, PushFirst DEF React!StartStep, React!At, React!Goto, React!Yield,
         React!Opens, React!Closes
  <2>5. CASE React!ThinkingStarted
    BY <1>1, <2>5, PushSecond DEF React!ThinkingStarted, React!At, React!Goto, React!Yield,
         React!Opens, React!Closes
  <2>6. CASE React!ThinkingDelta
    BY <1>1, <2>6 DEF React!ThinkingDelta, React!At, React!Goto, React!Yield, React!Opens,
         React!Closes
  <2>7. CASE React!ActionDelta
    BY <1>1, <2>7 DEF React!ActionDelta, React!At, React!Goto, React!Yield, React!Opens,
         React!Closes
  <2>8. CASE React!StreamEnds
    BY <1>1, <2>8 DEF React!StreamEnds, React!At, React!Goto, React!Yield, React!Silent,
         React!Opens, React!Closes
  <2>9. CASE React!SelectAction
    BY <1>1, <2>9 DEF React!SelectAction, React!At, React!Goto, React!Yield, React!Opens,
         React!Closes
  <2>10. CASE React!FinalAnswer
    BY <1>1, <2>10 DEF React!FinalAnswer, React!At, React!Goto, React!Silent, React!Done,
         React!Opens, React!Closes
  <2>11. CASE React!AskUser
    BY <1>1, <2>11 DEF React!AskUser, React!At, React!Goto, React!Yield, React!Done,
         React!Opens, React!Closes
  <2>12. CASE React!SearchMemory
    BY <1>1, <2>12 DEF React!SearchMemory, React!At, React!Goto, React!Yield, React!Done,
         React!Opens, React!Closes
  <2>13. CASE React!RefuseSearch
    BY <1>1, <2>13 DEF React!RefuseSearch, React!At, React!Goto, React!Silent, React!Done,
         React!Opens, React!Closes
  <2>14. CASE React!StartSearch
    BY <1>1, <2>14, PushSecond DEF React!StartSearch, React!At, React!Goto, React!Yield,
         React!Done, React!Opens, React!Closes
  <2>15. CASE React!CompleteSearch
    BY <1>1, <2>15 DEF React!CompleteSearch, React!At, React!Goto, React!Yield, React!Opens,
         React!Closes
  <2>16. CASE React!RefuseTool
    BY <1>1, <2>16 DEF React!RefuseTool, React!At, React!Goto, React!Silent, React!Opens,
         React!Closes
  <2>17. CASE React!StartTool
    BY <1>1, <2>17, PushSecond DEF React!StartTool, React!At, React!Goto, React!Yield,
         React!Opens, React!Closes
  <2>18. CASE React!CompleteTool
    BY <1>1, <2>18 DEF React!CompleteTool, React!At, React!Goto, React!Yield, React!Opens,
         React!Closes
  <2>19. CASE React!FailTool
    BY <1>1, <2>19 DEF React!FailTool, React!At, React!Goto, React!Yield, React!Opens,
         React!Closes
  <2>20. CASE React!CompleteStep
    BY <1>1, <2>20 DEF React!CompleteStep, React!At, React!Goto, React!Yield, React!Opens,
         React!Closes
  <2>21. CASE React!StartAnswer
    BY <1>1, <2>21, PushFirst DEF React!StartAnswer, React!At, React!Goto, React!Yield,
         React!Opens, React!Closes
  <2>22. CASE React!AnswerDelta
    BY <1>1, <2>22 DEF React!AnswerDelta, React!At, React!Goto, React!Yield, React!Opens,
         React!Closes
  <2>23. CASE React!Recommend
    BY <1>1, <2>23 DEF React!Recommend, React!At, React!Goto, React!Yield, React!Opens,
         React!Closes
  <2>24. CASE React!AnswerCompleted
    BY <1>1, <2>24 DEF React!AnswerCompleted, React!At, React!Goto, React!Yield, React!Opens,
         React!Closes
  <2>25. CASE React!RunCompleted
    BY <1>1, <2>25 DEF React!RunCompleted, React!At, React!Goto, React!Yield, React!Opens,
         React!Closes
  <2>26. CASE React!Returned
    BY <1>1, <2>26 DEF React!Returned, React!At, React!Opens, React!Closes
  <2>27. CASE React!Raise
    BY <1>1, <2>27 DEF React!Raise, React!Opens, React!Closes
  <2>28. CASE React!Abandon
    BY <1>1, <2>28 DEF React!Abandon, React!Opens, React!Closes
  <2> QED
    BY <1>1, <2>1, <2>2, <2>3, <2>4, <2>5, <2>6, <2>7, <2>8, <2>9, <2>10, <2>11, <2>12, <2>13,
         <2>14, <2>15, <2>16, <2>17, <2>18, <2>19, <2>20, <2>21, <2>22, <2>23, <2>24, <2>25,
         <2>26, <2>27, <2>28
       DEF React!ReactProgress, React!CarryOut
<1>2. ASSUME runtime = "phase1", Phase1!PipelineProgress \/ Phase1!Abandon,
             UNCHANGED <<reactOnly, handlerVars>>
      PROVE  BracketInv'
  <2>1. CASE Phase1!StartAnalysis
    BY <1>2, <2>1 DEF Phase1!StartAnalysis, Phase1!At, Phase1!Goto, Phase1!Yield
  <2>2. CASE Phase1!Understand
    BY <1>2, <2>2 DEF Phase1!Understand, Phase1!At, Phase1!RunNode, Phase1!Goto, Phase1!Yield
  <2>3. CASE Phase1!BuildContext
    BY <1>2, <2>3 DEF Phase1!BuildContext, Phase1!At, Phase1!RunNode, Phase1!Goto, Phase1!Yield
  <2>4. CASE Phase1!Plan
    BY <1>2, <2>4 DEF Phase1!Plan, Phase1!At, Phase1!RunNode, Phase1!Goto, Phase1!Yield
  <2>5. CASE Phase1!StartTool
    BY <1>2, <2>5 DEF Phase1!StartTool, Phase1!At, Phase1!Goto, Phase1!Yield
  <2>6. CASE Phase1!CompleteTool
    BY <1>2, <2>6 DEF Phase1!CompleteTool, Phase1!At, Phase1!Goto, Phase1!Yield
  <2>7. CASE Phase1!FailTool
    BY <1>2, <2>7 DEF Phase1!FailTool, Phase1!At, Phase1!Goto, Phase1!Yield
  <2>8. CASE Phase1!RunFailed
    BY <1>2, <2>8 DEF Phase1!RunFailed, Phase1!At, Phase1!Goto, Phase1!Yield
  <2>9. CASE Phase1!Retrieve
    BY <1>2, <2>9 DEF Phase1!Retrieve, Phase1!At, Phase1!Goto, Phase1!Yield
  <2>10. CASE Phase1!Reason
    BY <1>2, <2>10 DEF Phase1!Reason, Phase1!At, Phase1!RunNode, Phase1!Goto, Phase1!Yield
  <2>11. CASE Phase1!Recommend
    BY <1>2, <2>11 DEF Phase1!Recommend, Phase1!At, Phase1!Goto, Phase1!Yield
  <2>12. CASE Phase1!AwaitUser
    BY <1>2, <2>12 DEF Phase1!AwaitUser, Phase1!At, Phase1!RunNode, Phase1!Goto, Phase1!Yield
  <2>13. CASE Phase1!Returned
    BY <1>2, <2>13 DEF Phase1!Returned, Phase1!At
  <2>14. CASE Phase1!Raise
    BY <1>2, <2>14 DEF Phase1!Raise, Phase1!At
  <2>15. CASE Phase1!Abandon
    BY <1>2, <2>15 DEF Phase1!Abandon
  <2> QED
    BY <1>2, <2>1, <2>2, <2>3, <2>4, <2>5, <2>6, <2>7, <2>8, <2>9, <2>10, <2>11, <2>12, <2>13,
         <2>14, <2>15
       DEF Phase1!PipelineProgress
<1>3. ASSUME UNCHANGED <<runtimeVars, runtime>> PROVE BracketInv'
  BY <1>3
<1>4. CASE Iterate
  BY <1>1, <1>2, <1>4 DEF Iterate
<1>5. CASE StopListening
  BY <1>1, <1>2, <1>5 DEF StopListening
<1>6. CASE \/ Settle \/ SettleFailed \/ SettleCancelled \/ MakeExport \/ CancelRun
         \/ UNCHANGED vars
  BY <1>3, <1>6 DEF Settle, SettleFailed, SettleCancelled, MakeExport, CancelRun, vars, handlerVars
<1> QED
  BY <1>4, <1>5, <1>6 DEF Next

\* Starts and completions match, and a run that returns has left nothing open.
THEOREM BracketsMatch == Spec => []EventsAreBracketed
<1>1. BracketInv => EventsAreBracketed
  BY DEF BracketInv, EventsAreBracketed, Open
<1> QED
  BY BracketInvInit, BracketInvStep, <1>1, PTL DEF Spec

---------------------------------------------------------------------------
(* Types of the ReAct runtime *)

\* The action being carried out is the first of the batch, and a search is counted
\* before it finds anything.
ReactInv ==
    runtime = "react" =>
        /\ React!ReactTypeOK
        /\ pc = "search" => searches > 0 /\ actions # <<>>
        /\ pc = "tool" => actions # <<>> /\ Head(actions) \in Names
        /\ pc = "thought" => chunks < MaxChunks

LEMMA Budgets ==
  /\ MaxSteps \in Nat \ {0} /\ MaxActionsPerStep \in Nat \ {0}
  /\ MaxToolCalls \in Nat /\ MaxKnowledgeSearches \in Nat /\ MaxChunks \in Nat
  /\ Hits \subseteq Nat
BY BudgetsAssumption DEF React!BudgetsOK

LEMMA ReactInvInit == Init => ReactInv
<1> SUFFICES ASSUME Init PROVE ReactInv
  OBVIOUS
<1>1. /\ pc = "begin" /\ step = 0 /\ searches = 0 /\ refused = 0 /\ chunks = 0
      /\ actions = <<>> /\ toolCalls = <<>> /\ observations = <<>> /\ retrieved = <<>>
      /\ missing = {} /\ prompt = React!NoPrompt
      /\ finalRequested = FALSE /\ thinking = FALSE /\ text = FALSE
  BY DEF Init, React!ReactInit
<1>2. 0 \in 0..MaxSteps /\ 0 \in 0..MaxKnowledgeSearches /\ 0 \in 0..MaxChunks
  BY Budgets
<1>3. prompt.missing = {}
  BY <1>1 DEF React!NoPrompt
<1>4. /\ <<>> \in Seq(React!SingleAction) /\ Len(<<>>) <= MaxActionsPerStep
      /\ <<>> \in Seq(Names) /\ <<>> \in Seq(1..MaxKnowledgeSearches)
  BY Budgets
<1> QED
  BY <1>1, <1>2, <1>3, <1>4 DEF ReactInv, React!ReactTypeOK

\* The rest of a batch is a batch.
LEMMA RestOfBatch ==
  ASSUME NEW S, NEW s \in Seq(S), s # <<>>
  PROVE  /\ Head(s) \in S /\ Tail(s) \in Seq(S)
         /\ Len(s) \in Nat /\ Len(Tail(s)) = Len(s) - 1
OBVIOUS

\* Documents are marked with the search that found them.
LEMMA FoundAreTyped ==
  ASSUME searches \in 1..MaxKnowledgeSearches, retrieved \in Seq(1..MaxKnowledgeSearches),
         NEW documents \in React!FoundDocuments
  PROVE  retrieved \o documents \in Seq(1..MaxKnowledgeSearches)
<1>1. PICK n \in Hits : documents = [i \in 1..n |-> searches]
  BY DEF React!FoundDocuments
<1>2. documents \in Seq(1..MaxKnowledgeSearches)
  BY <1>1, Budgets
<1> QED
  BY <1>2

\* What is kept of a list of actions that is too long.
LEMMA FirstOfBatch ==
  ASSUME NEW batch \in React!Batches
  PROVE  LET n == IF Len(batch) < MaxActionsPerStep THEN Len(batch) ELSE MaxActionsPerStep
         IN  /\ SubSeq(batch, 1, n) \in Seq(React!SingleAction)
             /\ Len(SubSeq(batch, 1, n)) <= MaxActionsPerStep
<1>1. batch \in Seq(React!SingleAction) /\ Len(batch) \in Nat
  BY Budgets DEF React!Batches
<1> DEFINE n == IF Len(batch) < MaxActionsPerStep THEN Len(batch) ELSE MaxActionsPerStep
<1>2. n \in Nat /\ n <= Len(batch) /\ n <= MaxActionsPerStep
  BY <1>1, Budgets
<1> HIDE DEF n
<1>3. SubSeq(batch, 1, n) \in Seq(React!SingleAction) /\ Len(SubSeq(batch, 1, n)) = n
  BY <1>1, <1>2
<1> QED
  BY <1>2, <1>3 DEF n

LEMMA ReactInvStep == ReactInv /\ [Next]_vars => ReactInv'
<1> SUFFICES ASSUME ReactInv, [Next]_vars PROVE ReactInv'
  OBVIOUS
<1> USE Budgets
    DEF ReactInv, React!ReactTypeOK, shared, reactOnly, phase1Only, runtimeVars, handlerVars,
         React!loopVars, React!streamVars
<1>1. ASSUME runtime = "react", React!ReactProgress \/ React!Abandon,
             UNCHANGED <<phase1Only, handlerVars>>
      PROVE  ReactInv'
  <2>1. CASE React!RunStarted
    BY <1>1, <2>1 DEF React!RunStarted, React!At, React!Goto, React!Yield
  <2>2. CASE React!ContextBuilt
    BY <1>1, <2>2 DEF React!ContextBuilt, React!At, React!Goto, React!Yield
  <2>3. CASE React!SummaryLoaded
    BY <1>1, <2>3 DEF React!SummaryLoaded, React!At, React!Goto, React!Yield
  <2>4. CASE React!StartStep
    <3>1. step' \in 0..MaxSteps /\ chunks' \in 0..MaxChunks
      BY <1>1, <2>4 DEF React!StartStep
    <3> QED
      BY <1>1, <2>4, <3>1 DEF React!StartStep, React!At, React!Goto, React!Yield
  <2>5. CASE React!ThinkingStarted
    BY <1>1, <2>5 DEF React!ThinkingStarted, React!At, React!Goto, React!Yield
  <2>6. CASE React!ThinkingDelta
    <3>1. chunks < MaxChunks /\ chunks' = chunks + 1
      BY <1>1, <2>6 DEF React!ThinkingDelta, React!At
    <3>2. chunks' \in 0..MaxChunks
      BY <1>1, <3>1
    <3>3. pc' \in {"stream", "answering"} /\ {thinking', text'} \subseteq BOOLEAN
      BY <1>1, <2>6 DEF React!ThinkingDelta, React!Goto
    <3>4. UNCHANGED <<step, actions, toolCalls, observations, searches, retrieved, missing,
                      refused, finalRequested, prompt>>
      BY <2>6 DEF React!ThinkingDelta
    <3> QED
      BY <1>1, <3>2, <3>3, <3>4
  <2>7. CASE React!ActionDelta
    <3>1. chunks < MaxChunks /\ chunks' = chunks + 1
      BY <1>1, <2>7 DEF React!ActionDelta, React!At
    <3>2. chunks' \in 0..MaxChunks
      BY <1>1, <3>1
    <3>3. pc' \in {"stream", "answering"} /\ {thinking', text'} \subseteq BOOLEAN
      BY <1>1, <2>7 DEF React!ActionDelta, React!Goto
    <3>4. UNCHANGED <<step, actions, toolCalls, observations, searches, retrieved, missing,
                      refused, finalRequested, prompt>>
      BY <2>7 DEF React!ActionDelta
    <3> QED
      BY <1>1, <3>2, <3>3, <3>4
  <2>8. CASE React!StreamEnds
    BY <1>1, <2>8 DEF React!StreamEnds, React!At, React!Goto, React!Yield, React!Silent
  <2>9. CASE React!SelectAction
    BY <1>1, <2>9, FirstOfBatch DEF React!SelectAction, React!At, React!Goto, React!Yield
  <2>10. CASE React!FinalAnswer
    BY <1>1, <2>10 DEF React!FinalAnswer, React!At, React!Goto, React!Silent, React!Done
  <2>11. CASE React!AskUser
    BY <1>1, <2>11 DEF React!AskUser, React!At, React!Goto, React!Yield, React!Done
  <2>12. CASE React!SearchMemory
    <3>1. actions # <<>> /\ actions' = Tail(actions)
      BY <1>1, <2>12 DEF React!SearchMemory, React!Done
    <3>2. actions' \in Seq(React!SingleAction) /\ Len(actions') <= MaxActionsPerStep
      BY <1>1, <3>1, RestOfBatch
    <3>3. /\ pc' = "act"
          /\ UNCHANGED <<step, toolCalls, observations, searches, retrieved, missing, refused,
                        finalRequested, prompt, thinking, text, chunks>>
      BY <2>12 DEF React!SearchMemory, React!Goto
    <3> QED
      BY <1>1, <3>2, <3>3
  <2>13. CASE React!RefuseSearch
    <3>1. actions # <<>> /\ actions' = Tail(actions)
      BY <1>1, <2>13 DEF React!RefuseSearch, React!Done
    <3>2. actions' \in Seq(React!SingleAction) /\ Len(actions') <= MaxActionsPerStep
      BY <1>1, <3>1, RestOfBatch
    <3>3. /\ pc' = "act"
          /\ UNCHANGED <<step, toolCalls, observations, searches, retrieved, finalRequested,
                        prompt, thinking, text, chunks>>
      BY <2>13 DEF React!RefuseSearch, React!Goto
    <3>4. missing' = missing \cup {"searches"} /\ refused' \in {refused, refused + 1}
      BY <2>13 DEF React!RefuseSearch
    <3>5. refused' \in Nat
      BY <1>1, <3>4
    <3> QED
      BY <1>1, <3>2, <3>3, <3>4, <3>5
  <2>14. CASE React!StartSearch
    <3>1. searches' \in 1..MaxKnowledgeSearches
      BY <1>1, <2>14 DEF React!StartSearch
    <3>2. searches' \in 0..MaxKnowledgeSearches /\ searches' > 0
      BY <3>1
    <3> QED
      BY <1>1, <2>14, <3>2 DEF React!StartSearch, React!At, React!Goto, React!Yield, React!Done
  <2>15. CASE React!CompleteSearch
    <3>1. actions # <<>> /\ actions' = Tail(actions)
      BY <1>1, <2>15 DEF React!CompleteSearch, React!At
    <3>2. actions' \in Seq(React!SingleAction) /\ Len(actions') <= MaxActionsPerStep
      BY <1>1, <3>1, RestOfBatch
    <3>3. /\ pc' = "act"
          /\ UNCHANGED <<step, toolCalls, observations, searches, missing, refused,
                        finalRequested, prompt, thinking, text, chunks>>
      BY <2>15 DEF React!CompleteSearch, React!Goto
    <3>4. retrieved' \in Seq(1..MaxKnowledgeSearches)
      <4>1. searches \in 1..MaxKnowledgeSearches
        BY <1>1, <2>15 DEF React!CompleteSearch, React!At
      <4> QED
        BY <1>1, <2>15, <4>1, FoundAreTyped DEF React!CompleteSearch
    <3> QED
      BY <1>1, <3>2, <3>3, <3>4
  <2>16. CASE React!RefuseTool
    <3>1. actions # <<>> /\ actions' = Tail(actions)
      BY <1>1, <2>16 DEF React!RefuseTool
    <3>2. actions' \in Seq(React!SingleAction) /\ Len(actions') <= MaxActionsPerStep
      BY <1>1, <3>1, RestOfBatch
    <3>3. /\ pc' = "act"
          /\ UNCHANGED <<step, toolCalls, observations, searches, retrieved, finalRequested,
                        prompt, thinking, text, chunks>>
      BY <2>16 DEF React!RefuseTool, React!Goto
    <3>4. missing' = missing \cup {"tools"} /\ refused' \in {refused, refused + 1}
      BY <2>16 DEF React!RefuseTool
    <3>5. refused' \in Nat
      BY <1>1, <3>4
    <3> QED
      BY <1>1, <3>2, <3>3, <3>4, <3>5
  <2>17. CASE React!StartTool
    <3>1. actions # <<>> /\ Head(actions) \in Names /\ toolCalls' \in Seq(Names)
      BY <1>1, <2>17 DEF React!StartTool
    <3>2. /\ pc' = "tool"
          /\ UNCHANGED <<step, actions, observations, searches, retrieved, missing, refused,
                        finalRequested, prompt, thinking, text, chunks>>
      BY <2>17 DEF React!StartTool, React!Goto
    <3> QED
      BY <1>1, <3>1, <3>2
  <2>18. CASE React!CompleteTool
    <3>1. actions # <<>> /\ actions' = Tail(actions)
      BY <1>1, <2>18 DEF React!CompleteTool, React!At
    <3>2. actions' \in Seq(React!SingleAction) /\ Len(actions') <= MaxActionsPerStep
      BY <1>1, <3>1, RestOfBatch
    <3>3. /\ pc' = "act"
          /\ UNCHANGED <<step, toolCalls, searches, retrieved, missing, refused,
                        finalRequested, prompt, thinking, text, chunks>>
      BY <2>18 DEF React!CompleteTool, React!Goto
    <3>4. observations' \in Seq(Names)
      BY <1>1, <2>18 DEF React!CompleteTool, React!At
    <3> QED
      BY <1>1, <3>2, <3>3, <3>4
  <2>19. CASE React!FailTool
    <3>1. actions # <<>> /\ actions' = Tail(actions)
      BY <1>1, <2>19 DEF React!FailTool, React!At
    <3>2. actions' \in Seq(React!SingleAction) /\ Len(actions') <= MaxActionsPerStep
      BY <1>1, <3>1, RestOfBatch
    <3>3. /\ pc' = "act"
          /\ UNCHANGED <<step, toolCalls, observations, searches, retrieved, missing, refused,
                        finalRequested, prompt, thinking, text, chunks>>
      BY <2>19 DEF React!FailTool, React!Goto
    <3> QED
      BY <1>1, <3>2, <3>3
  <2>20. CASE React!CompleteStep
    BY <1>1, <2>20 DEF React!CompleteStep, React!At, React!Goto, React!Yield
  <2>21. CASE React!StartAnswer
    <3>1. prompt'.missing = missing /\ chunks' \in 0..MaxChunks
      BY <1>1, <2>21 DEF React!StartAnswer
    <3>2. pc' = "answering" /\ thinking' = FALSE /\ text' = FALSE
      BY <2>21 DEF React!StartAnswer, React!Goto
    <3>3. UNCHANGED <<step, actions, toolCalls, observations, searches, retrieved, missing,
                      refused, finalRequested>>
      BY <2>21 DEF React!StartAnswer
    <3> QED
      BY <1>1, <3>1, <3>2, <3>3
  <2>22. CASE React!AnswerDelta
    <3>1. chunks < MaxChunks /\ chunks' = chunks + 1
      BY <1>1, <2>22 DEF React!AnswerDelta, React!At
    <3>2. chunks' \in 0..MaxChunks
      BY <1>1, <3>1
    <3>3. pc' \in {"stream", "answering"} /\ {thinking', text'} \subseteq BOOLEAN
      BY <1>1, <2>22 DEF React!AnswerDelta, React!Goto
    <3>4. UNCHANGED <<step, actions, toolCalls, observations, searches, retrieved, missing,
                      refused, finalRequested, prompt>>
      BY <2>22 DEF React!AnswerDelta
    <3> QED
      BY <1>1, <3>2, <3>3, <3>4
  <2>23. CASE React!Recommend
    BY <1>1, <2>23 DEF React!Recommend, React!At, React!Goto, React!Yield
  <2>24. CASE React!AnswerCompleted
    BY <1>1, <2>24 DEF React!AnswerCompleted, React!At, React!Goto, React!Yield
  <2>25. CASE React!RunCompleted
    BY <1>1, <2>25 DEF React!RunCompleted, React!At, React!Goto, React!Yield
  <2>26. CASE React!Returned
    BY <1>1, <2>26 DEF React!Returned, React!At
  <2>27. CASE React!Raise
    BY <1>1, <2>27 DEF React!Raise
  <2>28. CASE React!Abandon
    BY <1>1, <2>28 DEF React!Abandon
  <2> QED
    BY <1>1, <2>1, <2>2, <2>3, <2>4, <2>5, <2>6, <2>7, <2>8, <2>9, <2>10, <2>11, <2>12, <2>13,
         <2>14, <2>15, <2>16, <2>17, <2>18, <2>19, <2>20, <2>21, <2>22, <2>23, <2>24, <2>25,
         <2>26, <2>27, <2>28
       DEF React!ReactProgress, React!CarryOut
<1>2. ASSUME runtime = "phase1", Phase1!PipelineProgress \/ Phase1!Abandon,
             UNCHANGED <<reactOnly, handlerVars>>
      PROVE  ReactInv'
  BY <1>2
<1>3. ASSUME UNCHANGED <<runtimeVars, runtime>> PROVE ReactInv'
  BY <1>3
<1>4. CASE Iterate
  BY <1>1, <1>2, <1>4 DEF Iterate
<1>5. CASE StopListening
  BY <1>1, <1>2, <1>5 DEF StopListening
<1>6. CASE \/ Settle \/ SettleFailed \/ SettleCancelled \/ MakeExport \/ CancelRun
         \/ UNCHANGED vars
  BY <1>3, <1>6 DEF Settle, SettleFailed, SettleCancelled, MakeExport, CancelRun, vars, handlerVars
<1> QED
  BY <1>4, <1>5, <1>6 DEF Next

---------------------------------------------------------------------------
(* The registry *)

Entries(list) == {list[i] : i \in DOMAIN list}

LEMMA HeadIsList ==
  /\ RegistryHead \in Seq(Entries(RegistryHead)) /\ Len(RegistryHead) = 15
  /\ \A i \in 1..15 : RegistryHead[i][1] # ExportTool
<1>1. RegistryHead \in Seq(Entries(RegistryHead)) /\ Len(RegistryHead) = 15
  BY DEF RegistryHead, Entries
<1>2. \A i \in 1..15 : RegistryHead[i][1] # ExportTool
  BY DEF RegistryHead, ExportTool
<1> QED
  BY <1>1, <1>2

LEMMA MiddleIsList ==
  /\ RegistryMiddle \in Seq(Entries(RegistryMiddle)) /\ Len(RegistryMiddle) = 16
  /\ \A i \in 1..16 : RegistryMiddle[i][1] # ExportTool
<1>1. RegistryMiddle \in Seq(Entries(RegistryMiddle)) /\ Len(RegistryMiddle) = 16
  BY DEF RegistryMiddle, Entries
<1>2. \A i \in 1..16 : RegistryMiddle[i][1] # ExportTool
  BY DEF RegistryMiddle, ExportTool
<1> QED
  BY <1>1, <1>2

LEMMA TailIsList ==
  /\ RegistryTail \in Seq(Entries(RegistryTail)) /\ Len(RegistryTail) = 7
  /\ \A i \in 1..7 : RegistryTail[i][1] = ExportTool => i = 7
<1>1. RegistryTail \in Seq(Entries(RegistryTail)) /\ Len(RegistryTail) = 7
  BY DEF RegistryTail, Entries
<1>2. \A i \in 1..7 : RegistryTail[i][1] = ExportTool => i = 7
  BY DEF RegistryTail, ExportTool
<1> QED
  BY <1>1, <1>2

LEMMA ThreeLists ==
  ASSUME NEW S, NEW a \in Seq(S), NEW b \in Seq(S), NEW c \in Seq(S),
         NEW list, list = a \o b \o c
  PROVE  /\ DOMAIN list = 1..(Len(a) + Len(b) + Len(c))
         /\ Len(list) = Len(a) + Len(b) + Len(c)
         /\ \A i \in DOMAIN list :
              list[i] = IF i <= Len(a) THEN a[i]
                        ELSE IF i <= Len(a) + Len(b) THEN b[i - Len(a)]
                        ELSE c[i - (Len(a) + Len(b))]
OBVIOUS

\* Nothing is registered after the export tool.
LEMMA ExportToolIsLast ==
  /\ DOMAIN Registry = 1..38 /\ Len(Registry) = 38
  /\ \A i \in DOMAIN Registry : Registry[i][1] = ExportTool => i = Len(Registry)
<1> DEFINE S == Entries(RegistryHead) \cup Entries(RegistryMiddle) \cup Entries(RegistryTail)
<1>1. RegistryHead \in Seq(S) /\ RegistryMiddle \in Seq(S) /\ RegistryTail \in Seq(S)
  <2>1. \A A, B, C : \A list \in Seq(A) : list \in Seq(A \cup B \cup C)
    OBVIOUS
  <2>2. \A A, B, C : \A list \in Seq(B) : list \in Seq(A \cup B \cup C)
    OBVIOUS
  <2>3. \A A, B, C : \A list \in Seq(C) : list \in Seq(A \cup B \cup C)
    OBVIOUS
  <2> QED
    BY <2>1, <2>2, <2>3, HeadIsList, MiddleIsList, TailIsList
<1> HIDE DEF S
<1>2. /\ DOMAIN Registry = 1..38 /\ Len(Registry) = 38
      /\ \A i \in 1..38 : Registry[i] = IF i <= 15 THEN RegistryHead[i]
                                        ELSE IF i <= 31 THEN RegistryMiddle[i - 15]
                                        ELSE RegistryTail[i - 31]
  <2>1. Len(RegistryHead) = 15 /\ Len(RegistryMiddle) = 16 /\ Len(RegistryTail) = 7
    BY HeadIsList, MiddleIsList, TailIsList
  <2>2. Registry = RegistryHead \o RegistryMiddle \o RegistryTail
    BY DEF Registry
  <2>3. /\ DOMAIN Registry = 1..(Len(RegistryHead) + Len(RegistryMiddle) + Len(RegistryTail))
        /\ Len(Registry) = Len(RegistryHead) + Len(RegistryMiddle) + Len(RegistryTail)
        /\ \A i \in DOMAIN Registry :
             Registry[i] = IF i <= Len(RegistryHead) THEN RegistryHead[i]
                           ELSE IF i <= Len(RegistryHead) + Len(RegistryMiddle)
                           THEN RegistryMiddle[i - Len(RegistryHead)]
                           ELSE RegistryTail[i - (Len(RegistryHead) + Len(RegistryMiddle))]
    BY <1>1, <2>2, ThreeLists
  <2> QED
    BY <2>1, <2>3
<1>3. ASSUME NEW i \in 1..38, Registry[i][1] = ExportTool PROVE i = 38
  <2>1. CASE i <= 15
    <3>1. i \in 1..15 /\ Registry[i] = RegistryHead[i]
      BY <1>2, <2>1
    <3> QED
      BY <1>3, <3>1, HeadIsList
  <2>2. CASE i > 15 /\ i <= 31
    <3>1. i - 15 \in 1..16 /\ Registry[i] = RegistryMiddle[i - 15]
      BY <1>2, <2>2
    <3> QED
      BY <1>3, <3>1, MiddleIsList
  <2>3. CASE i > 31
    <3>1. i - 31 \in 1..7 /\ Registry[i] = RegistryTail[i - 31]
      BY <1>2, <2>3
    <3>2. i - 31 = 7
      BY <1>3, <3>1, TailIsList
    <3> QED
      BY <3>2
  <2> QED
    BY <2>1, <2>2, <2>3
<1> QED
  BY <1>2, <1>3

\* Both runtimes have the tools of the service.
LEMMA SameTools ==
  /\ Phase1!Registry = Registry
  /\ \A earlier, name, input :
        /\ Phase1!LatestPlan(earlier, name, input) = LatestPlan(earlier, name, input)
        /\ React!LatestPlan(earlier, name, input) = LatestPlan(earlier, name, input)
<1>1. Phase1!Registry = Registry
  <2>1. /\ Phase1!RegistryHead = RegistryHead
        /\ Phase1!RegistryMiddle = RegistryMiddle
        /\ Phase1!RegistryTail = RegistryTail
    BY Zenon DEF Phase1!RegistryHead, RegistryHead, Phase1!RegistryMiddle, RegistryMiddle,
       Phase1!RegistryTail, RegistryTail, Phase1!ExportTool, ExportTool
  <2> QED
    BY <2>1 DEF Phase1!Registry, Registry
<1>2. ASSUME NEW earlier, NEW name, NEW input
      PROVE  /\ Phase1!LatestPlan(earlier, name, input) = LatestPlan(earlier, name, input)
             /\ React!LatestPlan(earlier, name, input) = LatestPlan(earlier, name, input)
  BY DEF Phase1!LatestPlan, React!LatestPlan, LatestPlan, Phase1!PlanOf, React!PlanOf, PlanOf,
     Phase1!ExportFormat, React!ExportFormat, ExportFormat, Phase1!ExportTool,
     React!ExportTool, ExportTool, Phase1!ExportFormats, React!ExportFormats, ExportFormats
<1> QED
  BY <1>1, <1>2

LEMMA RunToolsAreRegistered == Phase1!RunTools \subseteq 1..38
BY SameTools, ExportToolIsLast DEF Phase1!RunTools, Phase1!AvailableTools

\* A plan names a format an export can have, and only the export tool makes one.
LEMMA PlansAreFormats ==
  ASSUME NEW tool_, NEW input, NEW earlier \in {"none"} \cup ExportFormats
  PROVE  /\ LatestPlan(earlier, tool_, input) \in {"none"} \cup ExportFormats
         /\ LatestPlan(earlier, tool_, input) # "none" => earlier # "none" \/ tool_ = ExportTool
<1>1. ExportFormat(input) \in ExportFormats /\ ExportFormat(input) # "none"
  BY DEF ExportFormat, ExportFormats
<1> QED
  BY <1>1 DEF LatestPlan, PlanOf

---------------------------------------------------------------------------
(* The pipeline *)

\* After the export tool there is no tool left to fail, and a run that failed has
\* not come to it.
PipelineInv ==
    runtime = "phase1" =>
        /\ Phase1!PipelineTypeOK
        /\ pc = "tool" => tool \in Phase1!RunTools
        /\ plan # "none" => tool = Len(Registry) /\ pc # "tool"
        /\ pc = "toolFailed" \/ last = "run_failed" => plan = "none"

\* Every plan is a format or none.
PlanInv == plan \in {"none"} \cup ExportFormats

LEMMA PipelineInvInit == Init => PipelineInv /\ PlanInv
BY DEF Init, React!ReactInit, PipelineInv, PlanInv, Phase1!PipelineTypeOK

LEMMA PipelineInvStep == PipelineInv /\ [Next]_vars => PipelineInv'
<1> SUFFICES ASSUME PipelineInv, [Next]_vars PROVE PipelineInv'
  OBVIOUS
<1> USE DEF PipelineInv, Phase1!PipelineTypeOK, shared, reactOnly, phase1Only, runtimeVars,
     handlerVars, React!loopVars, React!streamVars
<1>1. ASSUME runtime = "react", React!ReactProgress \/ React!Abandon,
             UNCHANGED <<phase1Only, handlerVars>>
      PROVE  PipelineInv'
  BY <1>1
<1>2. ASSUME runtime = "phase1", Phase1!PipelineProgress \/ Phase1!Abandon,
             UNCHANGED <<reactOnly, handlerVars>>
      PROVE  PipelineInv'
  <2>1. CASE Phase1!StartAnalysis
    BY <1>2, <2>1 DEF Phase1!StartAnalysis, Phase1!At, Phase1!Goto, Phase1!Yield
  <2>2. CASE Phase1!Understand
    BY <1>2, <2>2 DEF Phase1!Understand, Phase1!At, Phase1!RunNode, Phase1!Goto, Phase1!Yield,
         Phase1!NodeStatuses
  <2>3. CASE Phase1!BuildContext
    BY <1>2, <2>3 DEF Phase1!BuildContext, Phase1!At, Phase1!RunNode, Phase1!Goto,
         Phase1!Yield, Phase1!NodeStatuses
  <2>4. CASE Phase1!Plan
    BY <1>2, <2>4 DEF Phase1!Plan, Phase1!At, Phase1!RunNode, Phase1!Goto, Phase1!Yield,
         Phase1!NodeStatuses
  <2>5. CASE Phase1!StartTool
    <3>1. tool' \in Phase1!RunTools /\ tool' > tool /\ UNCHANGED <<plan, runStatus>>
      BY <2>5 DEF Phase1!StartTool, Phase1!Remaining
    <3>2. tool' \in 1..38
      BY <3>1, RunToolsAreRegistered
    <3>3. plan = "none"
      BY <1>2, <3>1, <3>2, ExportToolIsLast
    <3> QED
      BY <1>2, <2>5, <3>1, <3>3 DEF Phase1!StartTool, Phase1!At, Phase1!Goto, Phase1!Yield
  <2>6. CASE Phase1!CompleteTool
    <3>1. /\ pc = "tool" /\ pc' = "tools" /\ last' = "tool_completed"
          /\ UNCHANGED <<runStatus, tool>>
          /\ \E input \in {"none"} : plan' = LatestPlan(plan, Phase1!CurrentTool, input)
      BY <2>6, SameTools DEF Phase1!CompleteTool, Phase1!At, Phase1!Goto, Phase1!Yield
    <3>2. tool \in DOMAIN Registry /\ plan = "none"
      BY <1>2, <3>1, RunToolsAreRegistered, ExportToolIsLast
    <3>3. plan' # "none" => Phase1!CurrentTool = ExportTool
      BY <3>1, <3>2, PlansAreFormats
    <3>4. plan' # "none" => tool = Len(Registry)
      BY <3>2, <3>3, SameTools, ExportToolIsLast DEF Phase1!CurrentTool
    <3> QED
      BY <1>2, <3>1, <3>4
  <2>7. CASE Phase1!FailTool
    BY <1>2, <2>7 DEF Phase1!FailTool, Phase1!At, Phase1!Goto, Phase1!Yield
  <2>8. CASE Phase1!RunFailed
    BY <1>2, <2>8 DEF Phase1!RunFailed, Phase1!At, Phase1!Goto, Phase1!Yield
  <2>9. CASE Phase1!Retrieve
    BY <1>2, <2>9 DEF Phase1!Retrieve, Phase1!At, Phase1!Goto, Phase1!Yield
  <2>10. CASE Phase1!Reason
    BY <1>2, <2>10 DEF Phase1!Reason, Phase1!At, Phase1!RunNode, Phase1!Goto, Phase1!Yield,
         Phase1!NodeStatuses
  <2>11. CASE Phase1!Recommend
    BY <1>2, <2>11 DEF Phase1!Recommend, Phase1!At, Phase1!Goto, Phase1!Yield
  <2>12. CASE Phase1!AwaitUser
    BY <1>2, <2>12 DEF Phase1!AwaitUser, Phase1!At, Phase1!RunNode, Phase1!Goto, Phase1!Yield,
         Phase1!NodeStatuses
  <2>13. CASE Phase1!Returned
    BY <1>2, <2>13 DEF Phase1!Returned, Phase1!At
  <2>14. CASE Phase1!Raise
    BY <1>2, <2>14 DEF Phase1!Raise, Phase1!At
  <2>15. CASE Phase1!Abandon
    BY <1>2, <2>15 DEF Phase1!Abandon
  <2> QED
    BY <1>2, <2>1, <2>2, <2>3, <2>4, <2>5, <2>6, <2>7, <2>8, <2>9, <2>10, <2>11, <2>12, <2>13,
         <2>14, <2>15
       DEF Phase1!PipelineProgress
<1>3. ASSUME UNCHANGED <<runtimeVars, runtime>> PROVE PipelineInv'
  BY <1>3
<1>4. CASE Iterate
  BY <1>1, <1>2, <1>4 DEF Iterate
<1>5. CASE StopListening
  BY <1>1, <1>2, <1>5 DEF StopListening
<1>6. CASE \/ Settle \/ SettleFailed \/ SettleCancelled \/ MakeExport \/ CancelRun
         \/ UNCHANGED vars
  BY <1>3, <1>6 DEF Settle, SettleFailed, SettleCancelled, MakeExport, CancelRun, vars, handlerVars
<1> QED
  BY <1>4, <1>5, <1>6 DEF Next

LEMMA PlanInvStep == PlanInv /\ [Next]_vars => PlanInv'
<1> SUFFICES ASSUME PlanInv, [Next]_vars PROVE PlanInv'
  OBVIOUS
<1>1. UNCHANGED plan \/ \E name, input : plan' = LatestPlan(plan, name, input)
  <2>1. ASSUME runtime = "react", React!ReactProgress
        PROVE  UNCHANGED plan \/ \E name, input : plan' = LatestPlan(plan, name, input)
    BY <2>1, SameTools
       DEF React!ReactProgress, React!CarryOut, React!RunStarted, React!ContextBuilt, React!SummaryLoaded, React!StartStep, React!ThinkingStarted, React!ThinkingDelta, React!ActionDelta, React!StreamEnds, React!SelectAction, React!FinalAnswer, React!AskUser, React!SearchMemory, React!RefuseSearch, React!StartSearch, React!CompleteSearch, React!RefuseTool, React!StartTool, React!CompleteTool, React!FailTool, React!CompleteStep, React!StartAnswer, React!AnswerDelta, React!Recommend, React!AnswerCompleted, React!RunCompleted, React!Returned, React!Raise
  <2>2. ASSUME runtime = "phase1", Phase1!PipelineProgress
        PROVE  UNCHANGED plan \/ \E name, input : plan' = LatestPlan(plan, name, input)
    BY <2>2, SameTools
       DEF Phase1!PipelineProgress, Phase1!StartAnalysis, Phase1!Understand, Phase1!BuildContext, Phase1!Plan, Phase1!StartTool, Phase1!CompleteTool, Phase1!FailTool, Phase1!RunFailed, Phase1!Retrieve, Phase1!Reason, Phase1!Recommend, Phase1!AwaitUser, Phase1!Returned, Phase1!Raise
  <2>3. CASE Iterate
    BY <2>1, <2>2, <2>3 DEF Iterate
  <2>4. CASE \/ StopListening \/ Settle \/ SettleFailed \/ SettleCancelled \/ MakeExport
             \/ CancelRun \/ UNCHANGED vars
    BY <2>4 DEF StopListening, React!Abandon, Phase1!Abandon, Settle, SettleFailed,
       SettleCancelled, MakeExport, CancelRun, vars, runtimeVars, shared
  <2> QED
    BY <2>3, <2>4 DEF Next
<1> QED
  BY <1>1, PlansAreFormats DEF PlanInv

---------------------------------------------------------------------------
(* Exports *)

\* What the handler makes of the end of the iteration.
ExportInv ==
    /\ outcome \in {"running", "returned", "raised", "abandoned"}
    /\ outcome = "returned" => Said \in Contract!Deciding
    /\ handler \in {"iterating", "settled", "done"}
    /\ status \in {"running", "completed", "failed", "cancelled", "awaiting_user"}
    /\ export \in {"none", "created", "failed"}
    /\ handler = "iterating" => export = "none"
    /\ handler = "settled" =>
          outcome = "returned" /\ status \in {StatusOf(last), "cancelled"} /\ export = "none"
    /\ export # "none" =>
          outcome = "returned" /\ plan # "none" /\ status \in {StatusOf(last), "cancelled"}

LEMMA ExportInvInit == Init => ExportInv
BY DEF Init, React!ReactInit, ExportInv

LEMMA ExportInvStep == ContractInv /\ ExportInv /\ [Next]_vars => ExportInv'
<1> SUFFICES ASSUME ContractInv, ExportInv, [Next]_vars PROVE ExportInv'
  OBVIOUS
<1>1. ASSUME Iterate \/ StopListening
      PROVE  outcome = "running" /\ UNCHANGED handlerVars
  <2>1. ASSUME React!ReactProgress \/ React!Abandon PROVE outcome = "running"
    BY <2>1 DEF React!ReactProgress, React!CarryOut, React!RunStarted, React!ContextBuilt, React!SummaryLoaded, React!StartStep, React!ThinkingStarted, React!ThinkingDelta, React!ActionDelta, React!StreamEnds, React!SelectAction, React!FinalAnswer, React!AskUser, React!SearchMemory, React!RefuseSearch, React!StartSearch, React!CompleteSearch, React!RefuseTool, React!StartTool, React!CompleteTool, React!FailTool, React!CompleteStep, React!StartAnswer, React!AnswerDelta, React!Recommend, React!AnswerCompleted, React!RunCompleted, React!Returned, React!Raise,
       React!Abandon, React!At, React!Done
  <2>2. ASSUME Phase1!PipelineProgress \/ Phase1!Abandon PROVE outcome = "running"
    BY <2>2 DEF Phase1!PipelineProgress, Phase1!StartAnalysis, Phase1!Understand, Phase1!BuildContext, Phase1!Plan, Phase1!StartTool, Phase1!CompleteTool, Phase1!FailTool, Phase1!RunFailed, Phase1!Retrieve, Phase1!Reason, Phase1!Recommend, Phase1!AwaitUser, Phase1!Returned, Phase1!Raise,
       Phase1!Abandon, Phase1!At, Phase1!RunNode
  <2> QED
    BY <1>1, <2>1, <2>2 DEF Iterate, StopListening
<1>2. CASE Iterate \/ StopListening
  <2>1. outcome' \in {"running", "returned", "raised", "abandoned"}
        /\ (outcome' = "returned" => Said' \in Contract!Deciding)
    BY <1>1, <1>2, ContractStepHolds
       DEF ContractStep, Contract!Next, Contract!Say, Contract!Return, Contract!Raise,
           Contract!Abandon
  <2>2. handler # "settled" /\ export = "none"
    BY <1>1, <1>2 DEF ExportInv
  <2> QED
    BY <1>1, <1>2, <2>1, <2>2 DEF ExportInv, handlerVars
<1>3. CASE Settle
  <2>1. UNCHANGED <<outcome, last, export, runtime>> /\ outcome = "returned"
        /\ status' = StatusOf(last) /\ handler' = "settled" /\ handler = "iterating"
    BY <1>3 DEF Settle, runtimeVars, shared
  <2>2. StatusOf(last) \in {"completed", "awaiting_user", "failed"}
    BY DEF StatusOf
  <2> QED
    BY <2>1, <2>2 DEF ExportInv, StatusOf, Said
<1>4. CASE SettleFailed \/ SettleCancelled
  BY <1>4 DEF SettleFailed, SettleCancelled, ExportInv, runtimeVars, shared, Said
<1>5. CASE MakeExport
  <2>1. UNCHANGED <<outcome, last, plan, status, runtime>> /\ handler = "settled"
        /\ handler' = "done"
        /\ export' \in IF plan = "none" THEN {"none"} ELSE {"created", "failed"}
    BY <1>5 DEF MakeExport, runtimeVars, shared
  <2> QED
    BY <2>1 DEF ExportInv, StatusOf, Said
<1>6. CASE CancelRun
  BY <1>6 DEF CancelRun, runtimeVars, shared, ExportInv, StatusOf, Said
<1>7. CASE UNCHANGED vars
  BY <1>7 DEF vars, handlerVars, runtimeVars, shared, ExportInv, StatusOf, Said
<1> QED
  BY <1>2, <1>3, <1>4, <1>5, <1>6, <1>7 DEF Next

\* The ReAct runtime says of no run that it failed: it raises.
NoFailureInv == runtime = "react" => last # "run_failed"

LEMMA NoFailureInit == Init => NoFailureInv
BY DEF Init, React!ReactInit, NoFailureInv

LEMMA NoFailureStep == NoFailureInv /\ [Next]_vars => NoFailureInv'
<1> SUFFICES ASSUME NoFailureInv, [Next]_vars, runtime = "react" PROVE last' # "run_failed"
  BY DEF NoFailureInv, Next, Iterate, StopListening, Settle, SettleFailed, SettleCancelled,
     MakeExport, CancelRun, vars, handlerVars
<1>1. last # "run_failed"
  BY DEF NoFailureInv
<1>2. CASE React!ReactProgress
  BY <1>1, <1>2 DEF React!ReactProgress, React!CarryOut, React!RunStarted, React!ContextBuilt, React!SummaryLoaded, React!StartStep, React!ThinkingStarted, React!ThinkingDelta, React!ActionDelta, React!StreamEnds, React!SelectAction, React!FinalAnswer, React!AskUser, React!SearchMemory, React!RefuseSearch, React!StartSearch, React!CompleteSearch, React!RefuseTool, React!StartTool, React!CompleteTool, React!FailTool, React!CompleteStep, React!StartAnswer, React!AnswerDelta, React!Recommend, React!AnswerCompleted, React!RunCompleted, React!Returned, React!Raise, React!Yield, React!Silent
<1>3. CASE UNCHANGED last
  BY <1>1, <1>3
<1> QED
  BY <1>2, <1>3 DEF Next, Iterate, StopListening, React!Abandon, Phase1!Abandon, Settle,
     SettleFailed, SettleCancelled, MakeExport, CancelRun, vars, runtimeVars, shared

\* An export file is made only behind an answer or a question, and shown with it
\* unless the run is cancelled.
THEOREM ExportsFollowSuccess == Spec => []ExportFollowsSuccess
<1>1. ExportInv /\ PipelineInv /\ NoFailureInv /\ ContractInv => ExportFollowsSuccess
  <2> SUFFICES ASSUME ExportInv, PipelineInv, NoFailureInv, ContractInv, export # "none"
               PROVE  /\ last \in {"run_completed", "awaiting_user"}
                      /\ status \in {StatusOf(last), "cancelled"}
    BY DEF ExportFollowsSuccess
  <2>1. /\ Said \in Contract!Deciding /\ plan # "none"
        /\ status \in {StatusOf(last), "cancelled"}
    BY DEF ExportInv
  <2>2. last \in {"run_completed", "run_failed", "awaiting_user"}
    BY <2>1 DEF Said, Contract!Deciding
  <2>3. last # "run_failed"
    BY <2>1 DEF PipelineInv, NoFailureInv, ContractInv
  <2> QED
    BY <2>1, <2>2, <2>3
<1> QED
  BY ContractInvInit, ContractInvStep, ExportInvInit, ExportInvStep, PipelineInvInit,
     PipelineInvStep, NoFailureInit, NoFailureStep, <1>1, PTL DEF Spec

\* Types of the service and of whichever runtime runs: a batch is never longer than
\* its limit, no budget is exceeded, the position of the pipeline is a permitted tool.
THEOREM TypeCorrect == Spec => []TypeOK
<1>1. ReactInv /\ PipelineInv /\ PlanInv /\ ExportInv => TypeOK
  BY DEF ReactInv, PipelineInv, PlanInv, ExportInv, TypeOK
<1> QED
  BY ContractInvInit, ContractInvStep, ExportInvInit, ExportInvStep, PipelineInvInit,
     PipelineInvStep, PlanInvStep, ReactInvInit, ReactInvStep, <1>1, PTL DEF Spec

---------------------------------------------------------------------------
(* Every run ends *)

\* A bound on the steps still to come: each step of the loop costs a chunk at a
\* time, an action at most twice, and the answer comes behind all of them.
StepCost == MaxChunks + 2 * MaxActionsPerStep + 5
AnswerCost == MaxChunks + 5

\* The steps left in this round of the loop, or behind the loop: at label, with c
\* chunks of the stream read, thinking announced or not, and n actions to do.
InRound(label, c, announced, n) ==
    CASE label = "begin"       -> AnswerCost + 3
      [] label = "context"     -> AnswerCost + 2
      [] label = "summary"     -> AnswerCost + 1
      [] label = "step"        -> AnswerCost
      [] label \in {"stream", "thought"} ->
            AnswerCost + (MaxChunks - c) + (IF announced THEN 0 ELSE 1)
                       + 2 * MaxActionsPerStep + 3
      [] label = "parse"       -> AnswerCost + 2 * MaxActionsPerStep + 2
      [] label = "act"         -> AnswerCost + 2 * n + 1
      [] label \in {"search", "tool"} -> AnswerCost + 2 * n
      [] label = "answer"      -> AnswerCost
      [] label = "answering"   -> MaxChunks - c + 4
      [] label = "recommended" -> 3
      [] label = "completed"   -> 2
      [] OTHER                 -> 1

\* The budget of the steps that are not begun yet.
Ahead == (MaxSteps - step) * StepCost

ReactLeft == Ahead + InRound(pc, chunks, thinking, Len(actions))

\* The steps left of the pipeline: at label, with status given by the last node and
\* t the place of the last tool.
InPipeline(label, given, t) ==
    CASE label = "begin"      -> 2 * Len(Registry) + 9
      [] label = "node" /\ given = "created"          -> 2 * Len(Registry) + 8
      [] label = "node" /\ given = "understanding"    -> 2 * Len(Registry) + 7
      [] label = "node" /\ given = "context_building" -> 2 * Len(Registry) + 6
      [] label = "node" /\ given = "planning"         -> 4
      [] label = "tools"      -> 2 * (Len(Registry) - t) + 5
      [] label = "tool"       -> 2 * (Len(Registry) - t) + 6
      [] label = "reasoned"   -> 3
      [] label = "node" /\ given = "reasoning"        -> 2
      [] label = "toolFailed" -> 2
      [] OTHER                -> 1

PipelineLeft == InPipeline(pc, runStatus, tool)

StepsLeft ==
    IF handler = "done" THEN 0
    ELSE IF handler = "settled" THEN 1
    ELSE IF outcome # "running" THEN 2
    ELSE 2 + IF runtime = "react" THEN ReactLeft ELSE PipelineLeft

\* A handler is done only with an iteration that has ended, and the pipeline has the
\* status of its last node.
PlaceInv ==
    /\ outcome = "running" => handler = "iterating"
    /\ handler \in {"iterating", "settled", "done"}
    /\ runtime \in {"react", "phase1"}
    /\ runtime = "phase1" =>
          /\ pc \in {"tools", "tool", "toolFailed"} => runStatus = "planning"
          /\ pc = "reasoned" => runStatus = "reasoning"

LEMMA PlaceInvInit == Init => PlaceInv
BY DEF Init, React!ReactInit, PlaceInv

LEMMA RunsOn ==
  ASSUME \/ React!ReactProgress \/ React!Abandon
         \/ Phase1!PipelineProgress \/ Phase1!Abandon
  PROVE  outcome = "running"
BY DEF React!ReactProgress, React!CarryOut, React!Abandon, React!RunStarted,
   React!ContextBuilt, React!SummaryLoaded, React!StartStep, React!ThinkingStarted,
   React!ThinkingDelta, React!ActionDelta, React!StreamEnds, React!SelectAction,
   React!FinalAnswer, React!AskUser, React!SearchMemory, React!RefuseSearch,
   React!StartSearch, React!CompleteSearch, React!RefuseTool, React!StartTool,
   React!CompleteTool, React!FailTool, React!CompleteStep, React!StartAnswer,
   React!AnswerDelta, React!Recommend, React!AnswerCompleted, React!RunCompleted,
   React!Returned, React!Raise, React!At, React!Done,
   Phase1!PipelineProgress, Phase1!Abandon, Phase1!StartAnalysis, Phase1!Understand,
   Phase1!BuildContext, Phase1!Plan, Phase1!StartTool, Phase1!CompleteTool, Phase1!FailTool,
   Phase1!RunFailed, Phase1!Retrieve, Phase1!Reason, Phase1!Recommend, Phase1!AwaitUser,
   Phase1!Returned, Phase1!Raise, Phase1!At, Phase1!RunNode

LEMMA PlaceInvStep == PlaceInv /\ [Next]_vars => PlaceInv'
<1> SUFFICES ASSUME PlaceInv, [Next]_vars PROVE PlaceInv'
  OBVIOUS
<1> USE DEF PlaceInv, shared, reactOnly, phase1Only, runtimeVars, handlerVars
<1>1. ASSUME runtime = "react", React!ReactProgress \/ React!Abandon,
             UNCHANGED <<phase1Only, handlerVars>>
      PROVE  PlaceInv'
  <2>1. outcome = "running"
    BY <1>1, RunsOn
  <2> QED
    BY <1>1, <2>1
<1>2. ASSUME runtime = "phase1", Phase1!PipelineProgress \/ Phase1!Abandon,
             UNCHANGED <<reactOnly, handlerVars>>
      PROVE  PlaceInv'
  <2> USE DEF Phase1!At, Phase1!Goto, Phase1!RunNode
  <2>1. CASE Phase1!StartAnalysis
    BY <1>2, <2>1 DEF Phase1!StartAnalysis
  <2>2. CASE Phase1!Understand
    BY <1>2, <2>2 DEF Phase1!Understand
  <2>3. CASE Phase1!BuildContext
    BY <1>2, <2>3 DEF Phase1!BuildContext
  <2>4. CASE Phase1!Plan
    BY <1>2, <2>4 DEF Phase1!Plan
  <2>5. CASE Phase1!StartTool
    BY <1>2, <2>5 DEF Phase1!StartTool
  <2>6. CASE Phase1!CompleteTool
    BY <1>2, <2>6 DEF Phase1!CompleteTool
  <2>7. CASE Phase1!FailTool
    BY <1>2, <2>7 DEF Phase1!FailTool
  <2>8. CASE Phase1!RunFailed
    BY <1>2, <2>8 DEF Phase1!RunFailed
  <2>9. CASE Phase1!Retrieve
    BY <1>2, <2>9 DEF Phase1!Retrieve
  <2>10. CASE Phase1!Reason
    BY <1>2, <2>10 DEF Phase1!Reason
  <2>11. CASE Phase1!Recommend
    BY <1>2, <2>11 DEF Phase1!Recommend
  <2>12. CASE Phase1!AwaitUser
    BY <1>2, <2>12 DEF Phase1!AwaitUser
  <2>13. CASE Phase1!Returned \/ Phase1!Raise \/ Phase1!Abandon
    BY <1>2, <2>13 DEF Phase1!Returned, Phase1!Raise, Phase1!Abandon
  <2> QED
    BY <1>2, <2>1, <2>2, <2>3, <2>4, <2>5, <2>6, <2>7, <2>8, <2>9, <2>10, <2>11, <2>12, <2>13
       DEF Phase1!PipelineProgress
<1>3. CASE Iterate
  BY <1>1, <1>2, <1>3 DEF Iterate
<1>4. CASE StopListening
  BY <1>1, <1>2, <1>4 DEF StopListening
<1>5. CASE \/ Settle \/ SettleFailed \/ SettleCancelled \/ MakeExport \/ CancelRun
         \/ UNCHANGED vars
  BY <1>5 DEF Settle, SettleFailed, SettleCancelled, MakeExport, CancelRun, vars
<1> QED
  BY <1>3, <1>4, <1>5 DEF Next

LEMMA Costs ==
  /\ StepCost \in Nat /\ AnswerCost \in Nat
  /\ StepCost = MaxChunks + 2 * MaxActionsPerStep + 5 /\ AnswerCost = MaxChunks + 5
  /\ MaxChunks \in Nat /\ MaxActionsPerStep \in Nat /\ MaxSteps \in Nat
BY Budgets DEF StepCost, AnswerCost

LEMMA AheadIsNat ==
  ASSUME NEW n \in 0..MaxSteps
  PROVE  (MaxSteps - n) * StepCost \in Nat
<1>1. MaxSteps - n \in Nat
  BY Costs
<1>2. \A a, b \in Nat : a * b \in Nat
  OBVIOUS
<1> QED
  BY <1>1, <1>2, Costs

LEMMA NextStepCosts ==
  ASSUME NEW n \in Nat, n < MaxSteps
  PROVE  (MaxSteps - (n + 1)) * StepCost = (MaxSteps - n) * StepCost - StepCost
<1>1. \A a, b \in Nat : (a - 1) * b = a * b - b
  OBVIOUS
<1>2. MaxSteps - n \in Nat /\ MaxSteps - (n + 1) = (MaxSteps - n) - 1
  BY Costs
<1> QED
  BY <1>1, <1>2, Costs

LEMMA RoundAt ==
  ASSUME NEW c, NEW announced, NEW n
  PROVE  /\ InRound("begin", c, announced, n) = AnswerCost + 3
         /\ InRound("context", c, announced, n) = AnswerCost + 2
         /\ InRound("summary", c, announced, n) = AnswerCost + 1
         /\ InRound("step", c, announced, n) = AnswerCost
         /\ \A label \in {"stream", "thought"} :
               InRound(label, c, announced, n) =
                  AnswerCost + (MaxChunks - c) + (IF announced THEN 0 ELSE 1)
                             + 2 * MaxActionsPerStep + 3
         /\ InRound("parse", c, announced, n) = AnswerCost + 2 * MaxActionsPerStep + 2
         /\ InRound("act", c, announced, n) = AnswerCost + 2 * n + 1
         /\ \A label \in {"search", "tool"} :
               InRound(label, c, announced, n) = AnswerCost + 2 * n
         /\ InRound("answer", c, announced, n) = AnswerCost
         /\ InRound("answering", c, announced, n) = MaxChunks - c + 4
         /\ InRound("recommended", c, announced, n) = 3
         /\ InRound("completed", c, announced, n) = 2
         /\ InRound("end", c, announced, n) = 1
BY DEF InRound

LEMMA RoundIsNat ==
  ASSUME NEW label, NEW c \in 0..MaxChunks, NEW announced, NEW n \in Nat
  PROVE  InRound(label, c, announced, n) \in Nat /\ InRound(label, c, announced, n) > 0
<1>1. CASE label \in {"stream", "thought"}
  BY <1>1, RoundAt, Costs
<1>2. CASE label \in {"search", "tool"}
  BY <1>2, RoundAt, Costs
<1>3. CASE label \in {"begin", "context", "summary", "step", "answer"}
  BY <1>3, RoundAt, Costs
<1>5. CASE label \in {"parse", "act"}
  BY <1>5, RoundAt, Costs
<1>6. CASE label \in {"answering", "recommended", "completed"}
  BY <1>6, RoundAt, Costs
<1>4. CASE /\ label \notin {"stream", "thought"} /\ label \notin {"search", "tool"}
           /\ label \notin {"begin", "context", "summary", "step", "answer"}
           /\ label \notin {"parse", "act"}
           /\ label \notin {"answering", "recommended", "completed"}
  <2>1. InRound(label, c, announced, n) = 1
    BY <1>4, ZenonT(30) DEF InRound
  <2> QED
    BY <2>1
<1> QED
  BY <1>1, <1>2, <1>3, <1>4, <1>5, <1>6

\* What the measure is made of, before and behind a step.
LEMMA ReactNumbers ==
  ASSUME ReactInv, runtime = "react"
  PROVE  /\ step \in 0..MaxSteps /\ chunks \in 0..MaxChunks /\ Ahead \in Nat
         /\ Len(actions) \in 0..MaxActionsPerStep
         /\ ReactLeft \in Nat /\ ReactLeft > 0
<1>1. step \in 0..MaxSteps /\ chunks \in 0..MaxChunks
  BY DEF ReactInv, React!ReactTypeOK
<1>2. Len(actions) \in 0..MaxActionsPerStep
  BY Costs DEF ReactInv, React!ReactTypeOK
<1>3. Ahead \in Nat
  BY <1>1, AheadIsNat DEF Ahead
<1>4. InRound(pc, chunks, thinking, Len(actions)) \in Nat \ {0}
  BY <1>1, <1>2, RoundIsNat
<1> QED
  BY <1>1, <1>2, <1>3, <1>4 DEF ReactLeft

LEMMA ReactNumbersNext ==
  ASSUME ReactInv', runtime' = "react"
  PROVE  /\ chunks' \in 0..MaxChunks /\ Len(actions') \in 0..MaxActionsPerStep
         /\ ReactLeft' \in Nat
<1>1. step' \in 0..MaxSteps /\ chunks' \in 0..MaxChunks
  BY DEF ReactInv, React!ReactTypeOK
<1>2. Len(actions') \in 0..MaxActionsPerStep
  BY Costs DEF ReactInv, React!ReactTypeOK
<1>3. Ahead' \in Nat
  BY <1>1, AheadIsNat DEF Ahead
<1>4. InRound(pc', chunks', thinking', Len(actions')) \in Nat
  BY <1>1, <1>2, RoundIsNat
<1> QED
  BY <1>1, <1>2, <1>3, <1>4 DEF ReactLeft

\* An action that is done leaves one less to do.
LEMMA OneLess ==
  ASSUME ReactInv, runtime = "react", actions # <<>>, actions' = Tail(actions)
  PROVE  Len(actions) > 0 /\ Len(actions') = Len(actions) - 1
<1>1. actions \in Seq(React!SingleAction)
  BY DEF ReactInv, React!ReactTypeOK
<1> QED
  BY <1>1, RestOfBatch

LEMMA ReactDecreases ==
  ASSUME ReactInv, ReactInv', runtime = "react", UNCHANGED runtime, React!ReactProgress,
         outcome' = "running"
  PROVE  ReactLeft' < ReactLeft
<1> USE DEF React!At, React!Goto, React!Done, React!loopVars, React!streamVars
<1>27. /\ step \in 0..MaxSteps /\ Ahead \in Nat
      /\ chunks \in 0..MaxChunks /\ chunks' \in 0..MaxChunks
      /\ Len(actions) \in 0..MaxActionsPerStep /\ Len(actions') \in 0..MaxActionsPerStep
  BY ReactNumbers, ReactNumbersNext
<1>28. ASSUME UNCHANGED step,
             InRound(pc', chunks', thinking', Len(actions'))
                < InRound(pc, chunks, thinking, Len(actions))
      PROVE  ReactLeft' < ReactLeft
  <2>1. Ahead' = Ahead
    BY <1>28 DEF Ahead
  <2>2. /\ InRound(pc, chunks, thinking, Len(actions)) \in Nat
        /\ InRound(pc', chunks', thinking', Len(actions')) \in Nat
    BY <1>27, RoundIsNat
  <2> QED
    BY <1>27, <1>28, <2>1, <2>2 DEF ReactLeft
<1>1. CASE React!RunStarted
  <2>1. /\ UNCHANGED step
        /\ pc = "begin" /\ pc' = "context"
    BY <1>1 DEF React!RunStarted
  <2>2. InRound(pc, chunks, thinking, Len(actions)) = AnswerCost + 3
    BY <2>1, RoundAt
  <2>3. InRound(pc', chunks', thinking', Len(actions')) = AnswerCost + 2
    BY <2>1, RoundAt
  <2> QED
    BY <1>27, <1>28, <2>1, <2>2, <2>3, Costs
<1>2. CASE React!ContextBuilt
  <2>1. /\ UNCHANGED step
        /\ pc = "context"
        /\ pc' = "summary" \/ pc' = "step"
    BY <1>2 DEF React!ContextBuilt
  <2>2. InRound(pc, chunks, thinking, Len(actions)) = AnswerCost + 2
    BY <2>1, RoundAt
  <2>3. InRound(pc', chunks', thinking', Len(actions')) \in {AnswerCost, AnswerCost + 1}
    BY <2>1, RoundAt
  <2> QED
    BY <1>27, <1>28, <2>1, <2>2, <2>3, Costs
<1>3. CASE React!SummaryLoaded
  <2>1. /\ UNCHANGED step
        /\ pc = "summary" /\ pc' = "step"
    BY <1>3 DEF React!SummaryLoaded
  <2>2. InRound(pc, chunks, thinking, Len(actions)) = AnswerCost + 1
    BY <2>1, RoundAt
  <2>3. InRound(pc', chunks', thinking', Len(actions')) = AnswerCost
    BY <2>1, RoundAt
  <2> QED
    BY <1>27, <1>28, <2>1, <2>2, <2>3, Costs
<1>4. CASE React!StartStep
  <2>1. /\ pc = "step" /\ pc' = "stream" /\ step < MaxSteps /\ step' = step + 1
        /\ chunks' = 0 /\ thinking' = FALSE
    BY <1>4 DEF React!StartStep
  <2>2. Ahead' = Ahead - StepCost
    BY <1>27, <2>1, NextStepCosts DEF Ahead
  <2>3. InRound(pc, chunks, thinking, Len(actions)) = AnswerCost
    BY <2>1, RoundAt
  <2>4. InRound(pc', chunks', thinking', Len(actions'))
           = AnswerCost + (MaxChunks - 0) + 1 + 2 * MaxActionsPerStep + 3
    BY <2>1, RoundAt
  <2>5. InRound(pc', chunks', thinking', Len(actions')) = AnswerCost + StepCost - 1
    BY <2>4, Costs
  <2> QED
    BY <1>27, <2>2, <2>3, <2>5, Costs DEF ReactLeft
<1>5. CASE React!ThinkingStarted
  <2>1. /\ UNCHANGED step
        /\ pc = "stream" /\ pc' = "thought"
        /\ ~thinking /\ thinking' = TRUE /\ chunks' = chunks
    BY <1>5 DEF React!ThinkingStarted
  <2>2. InRound(pc, chunks, thinking, Len(actions))
           = AnswerCost + (MaxChunks - chunks) + 1 + 2 * MaxActionsPerStep + 3
    BY <2>1, RoundAt
  <2>3. InRound(pc', chunks', thinking', Len(actions'))
           = AnswerCost + (MaxChunks - chunks') + 0 + 2 * MaxActionsPerStep + 3
    BY <2>1, RoundAt
  <2>4. InRound(pc', chunks', thinking', Len(actions'))
           < InRound(pc, chunks, thinking, Len(actions))
    <3>1. chunks' = chunks
      BY <2>1
    <3> QED
      BY <1>27, <2>2, <2>3, <3>1, Costs
  <2> QED
    BY <1>28, <2>1, <2>4
<1>6. CASE React!ThinkingDelta
  <2>1. /\ UNCHANGED step
        /\ pc \in {"stream", "thought"} /\ pc' = "stream"
        /\ thinking' = thinking /\ chunks' = chunks + 1
    BY <1>6 DEF React!ThinkingDelta
  <2>2. \E early \in {0, 1} :
           /\ InRound(pc, chunks, thinking, Len(actions))
                 = AnswerCost + (MaxChunks - chunks) + early + 2 * MaxActionsPerStep + 3
           /\ InRound(pc', chunks', thinking', Len(actions'))
                 = AnswerCost + (MaxChunks - chunks') + early + 2 * MaxActionsPerStep + 3
    BY <2>1, RoundAt
  <2> QED
    BY <1>27, <1>28, <2>1, <2>2, Costs
<1>7. CASE React!ActionDelta
  <2>1. /\ UNCHANGED step
        /\ pc = "stream" /\ pc' = "stream"
        /\ thinking' = thinking /\ chunks' = chunks + 1
    BY <1>7 DEF React!ActionDelta
  <2>2. \E early \in {0, 1} :
           /\ InRound(pc, chunks, thinking, Len(actions))
                 = AnswerCost + (MaxChunks - chunks) + early + 2 * MaxActionsPerStep + 3
           /\ InRound(pc', chunks', thinking', Len(actions'))
                 = AnswerCost + (MaxChunks - chunks') + early + 2 * MaxActionsPerStep + 3
    BY <2>1, RoundAt
  <2> QED
    BY <1>27, <1>28, <2>1, <2>2, Costs
<1>8. CASE React!StreamEnds
  <2>1. /\ UNCHANGED step
        /\ pc = "stream" /\ pc' = "parse"
    BY <1>8 DEF React!StreamEnds
  <2>2. \/ InRound(pc, chunks, thinking, Len(actions))
              = AnswerCost + (MaxChunks - chunks) + 0 + 2 * MaxActionsPerStep + 3
        \/ InRound(pc, chunks, thinking, Len(actions))
              = AnswerCost + (MaxChunks - chunks) + 1 + 2 * MaxActionsPerStep + 3
    BY <2>1, RoundAt
  <2>3. InRound(pc', chunks', thinking', Len(actions')) = AnswerCost + 2 * MaxActionsPerStep + 2
    BY <2>1, RoundAt
  <2> QED
    BY <1>27, <1>28, <2>1, <2>2, <2>3, Costs
<1>9. CASE React!SelectAction
  <2>1. /\ UNCHANGED step
        /\ pc = "parse" /\ pc' = "act"
    BY <1>9 DEF React!SelectAction
  <2>2. InRound(pc, chunks, thinking, Len(actions)) = AnswerCost + 2 * MaxActionsPerStep + 2
    BY <2>1, RoundAt
  <2>3. InRound(pc', chunks', thinking', Len(actions')) = AnswerCost + 2 * Len(actions') + 1
    BY <2>1, RoundAt
  <2> QED
    BY <1>27, <1>28, <2>1, <2>2, <2>3, Costs
<1>10. CASE React!FinalAnswer
  <2>1. /\ UNCHANGED step
        /\ pc = "act" /\ pc' = "act"
    BY <1>10 DEF React!FinalAnswer
  <2>2. Len(actions) > 0 /\ Len(actions') = 0
    <3>1. actions \in Seq(React!SingleAction) /\ actions # <<>> /\ actions' = <<>>
      BY <1>10 DEF React!FinalAnswer, ReactInv, React!ReactTypeOK
    <3> QED
      BY <3>1
  <2>3. InRound(pc, chunks, thinking, Len(actions)) = AnswerCost + 2 * Len(actions) + 1
    BY <2>1, RoundAt
  <2>4. InRound(pc', chunks', thinking', Len(actions')) = AnswerCost + 2 * Len(actions') + 1
    BY <2>1, RoundAt
  <2> QED
    BY <1>27, <1>28, <2>1, <2>2, <2>3, <2>4, Costs
<1>11. CASE React!AskUser
  <2>1. /\ UNCHANGED step
        /\ pc = "act" /\ pc' = "act"
    BY <1>11 DEF React!AskUser
  <2>2. Len(actions) > 0 /\ Len(actions') = 0
    <3>1. actions \in Seq(React!SingleAction) /\ actions # <<>> /\ actions' = <<>>
      BY <1>11 DEF React!AskUser, ReactInv, React!ReactTypeOK
    <3> QED
      BY <3>1
  <2>3. InRound(pc, chunks, thinking, Len(actions)) = AnswerCost + 2 * Len(actions) + 1
    BY <2>1, RoundAt
  <2>4. InRound(pc', chunks', thinking', Len(actions')) = AnswerCost + 2 * Len(actions') + 1
    BY <2>1, RoundAt
  <2> QED
    BY <1>27, <1>28, <2>1, <2>2, <2>3, <2>4, Costs
<1>12. CASE React!SearchMemory
  <2>1. /\ UNCHANGED step
        /\ pc = "act" /\ pc' = "act"
    BY <1>12 DEF React!SearchMemory
  <2>2. Len(actions) > 0 /\ Len(actions') = Len(actions) - 1
    BY <1>12, OneLess DEF React!SearchMemory
  <2>3. InRound(pc, chunks, thinking, Len(actions)) = AnswerCost + 2 * Len(actions) + 1
    BY <2>1, RoundAt
  <2>4. InRound(pc', chunks', thinking', Len(actions')) = AnswerCost + 2 * Len(actions') + 1
    BY <2>1, RoundAt
  <2> QED
    BY <1>27, <1>28, <2>1, <2>2, <2>3, <2>4, Costs
<1>13. CASE React!RefuseSearch
  <2>1. /\ UNCHANGED step
        /\ pc = "act" /\ pc' = "act"
    BY <1>13 DEF React!RefuseSearch
  <2>2. Len(actions) > 0 /\ Len(actions') = Len(actions) - 1
    BY <1>13, OneLess DEF React!RefuseSearch
  <2>3. InRound(pc, chunks, thinking, Len(actions)) = AnswerCost + 2 * Len(actions) + 1
    BY <2>1, RoundAt
  <2>4. InRound(pc', chunks', thinking', Len(actions')) = AnswerCost + 2 * Len(actions') + 1
    BY <2>1, RoundAt
  <2> QED
    BY <1>27, <1>28, <2>1, <2>2, <2>3, <2>4, Costs
<1>14. CASE React!StartSearch
  <2>1. /\ UNCHANGED step
        /\ pc = "act" /\ pc' = "search"
        /\ actions' = actions
    BY <1>14 DEF React!StartSearch
  <2>2. InRound(pc, chunks, thinking, Len(actions)) = AnswerCost + 2 * Len(actions) + 1
    BY <2>1, RoundAt
  <2>3. InRound(pc', chunks', thinking', Len(actions')) = AnswerCost + 2 * Len(actions')
    BY <2>1, RoundAt
  <2> QED
    BY <1>27, <1>28, <2>1, <2>2, <2>3, Costs
<1>15. CASE React!CompleteSearch
  <2>1. /\ UNCHANGED step
        /\ pc = "search" /\ pc' = "act"
    BY <1>15 DEF React!CompleteSearch
  <2>2. Len(actions) > 0 /\ Len(actions') = Len(actions) - 1
    <3>1. actions # <<>> /\ actions' = Tail(actions)
      BY <1>15 DEF React!CompleteSearch, ReactInv
    <3> QED
      BY <3>1, OneLess
  <2>3. InRound(pc, chunks, thinking, Len(actions)) = AnswerCost + 2 * Len(actions)
    BY <2>1, RoundAt
  <2>4. InRound(pc', chunks', thinking', Len(actions')) = AnswerCost + 2 * Len(actions') + 1
    BY <2>1, RoundAt
  <2> QED
    BY <1>27, <1>28, <2>1, <2>2, <2>3, <2>4, Costs
<1>16. CASE React!RefuseTool
  <2>1. /\ UNCHANGED step
        /\ pc = "act" /\ pc' = "act"
    BY <1>16 DEF React!RefuseTool
  <2>2. Len(actions) > 0 /\ Len(actions') = Len(actions) - 1
    BY <1>16, OneLess DEF React!RefuseTool
  <2>3. InRound(pc, chunks, thinking, Len(actions)) = AnswerCost + 2 * Len(actions) + 1
    BY <2>1, RoundAt
  <2>4. InRound(pc', chunks', thinking', Len(actions')) = AnswerCost + 2 * Len(actions') + 1
    BY <2>1, RoundAt
  <2> QED
    BY <1>27, <1>28, <2>1, <2>2, <2>3, <2>4, Costs
<1>17. CASE React!StartTool
  <2>1. /\ UNCHANGED step
        /\ pc = "act" /\ pc' = "tool"
        /\ actions' = actions
    BY <1>17 DEF React!StartTool
  <2>2. InRound(pc, chunks, thinking, Len(actions)) = AnswerCost + 2 * Len(actions) + 1
    BY <2>1, RoundAt
  <2>3. InRound(pc', chunks', thinking', Len(actions')) = AnswerCost + 2 * Len(actions')
    BY <2>1, RoundAt
  <2> QED
    BY <1>27, <1>28, <2>1, <2>2, <2>3, Costs
<1>18. CASE React!CompleteTool
  <2>1. /\ UNCHANGED step
        /\ pc = "tool" /\ pc' = "act"
    BY <1>18 DEF React!CompleteTool
  <2>2. Len(actions) > 0 /\ Len(actions') = Len(actions) - 1
    <3>1. actions # <<>> /\ actions' = Tail(actions)
      BY <1>18 DEF React!CompleteTool, ReactInv
    <3> QED
      BY <3>1, OneLess
  <2>3. InRound(pc, chunks, thinking, Len(actions)) = AnswerCost + 2 * Len(actions)
    BY <2>1, RoundAt
  <2>4. InRound(pc', chunks', thinking', Len(actions')) = AnswerCost + 2 * Len(actions') + 1
    BY <2>1, RoundAt
  <2> QED
    BY <1>27, <1>28, <2>1, <2>2, <2>3, <2>4, Costs
<1>19. CASE React!FailTool
  <2>1. /\ UNCHANGED step
        /\ pc = "tool" /\ pc' = "act"
    BY <1>19 DEF React!FailTool
  <2>2. Len(actions) > 0 /\ Len(actions') = Len(actions) - 1
    <3>1. actions # <<>> /\ actions' = Tail(actions)
      BY <1>19 DEF React!FailTool, ReactInv
    <3> QED
      BY <3>1, OneLess
  <2>3. InRound(pc, chunks, thinking, Len(actions)) = AnswerCost + 2 * Len(actions)
    BY <2>1, RoundAt
  <2>4. InRound(pc', chunks', thinking', Len(actions')) = AnswerCost + 2 * Len(actions') + 1
    BY <2>1, RoundAt
  <2> QED
    BY <1>27, <1>28, <2>1, <2>2, <2>3, <2>4, Costs
<1>20. CASE React!CompleteStep
  <2>1. /\ UNCHANGED step
        /\ pc = "act" /\ actions = <<>>
        /\ pc' = "answer" \/ pc' = "step"
    BY <1>20 DEF React!CompleteStep
  <2>2. Len(actions) = 0
    BY <2>1
  <2> QED
    BY <1>27, <1>28, <2>1, <2>2, RoundAt, Costs
<1>21. CASE React!StartAnswer
  <2>1. /\ UNCHANGED step
        /\ pc = "answer" /\ pc' = "answering"
    BY <1>21 DEF React!StartAnswer
  <2>2. InRound(pc, chunks, thinking, Len(actions)) = AnswerCost
    BY <2>1, RoundAt
  <2>3. InRound(pc', chunks', thinking', Len(actions')) = MaxChunks - chunks' + 4
    BY <2>1, RoundAt
  <2> QED
    BY <1>27, <1>28, <2>1, <2>2, <2>3, Costs
<1>22. CASE React!AnswerDelta
  <2>1. /\ UNCHANGED step
        /\ pc = "answering" /\ pc' = "answering"
        /\ chunks' = chunks + 1
    BY <1>22 DEF React!AnswerDelta
  <2>2. InRound(pc, chunks, thinking, Len(actions)) = MaxChunks - chunks + 4
    BY <2>1, RoundAt
  <2>3. InRound(pc', chunks', thinking', Len(actions')) = MaxChunks - chunks' + 4
    BY <2>1, RoundAt
  <2> QED
    BY <1>27, <1>28, <2>1, <2>2, <2>3, Costs
<1>23. CASE React!Recommend
  <2>1. /\ UNCHANGED step
        /\ pc = "answering" /\ pc' = "recommended"
    BY <1>23 DEF React!Recommend
  <2>2. InRound(pc, chunks, thinking, Len(actions)) = MaxChunks - chunks + 4
    BY <2>1, RoundAt
  <2>3. InRound(pc', chunks', thinking', Len(actions')) = 3
    BY <2>1, RoundAt
  <2> QED
    BY <1>27, <1>28, <2>1, <2>2, <2>3, Costs
<1>24. CASE React!AnswerCompleted
  <2>1. /\ UNCHANGED step
        /\ pc = "recommended" /\ pc' = "completed"
    BY <1>24 DEF React!AnswerCompleted
  <2>2. InRound(pc, chunks, thinking, Len(actions)) = 3
    BY <2>1, RoundAt
  <2>3. InRound(pc', chunks', thinking', Len(actions')) = 2
    BY <2>1, RoundAt
  <2> QED
    BY <1>27, <1>28, <2>1, <2>2, <2>3, Costs
<1>25. CASE React!RunCompleted
  <2>1. /\ UNCHANGED step
        /\ pc = "completed" /\ pc' = "end"
    BY <1>25 DEF React!RunCompleted
  <2>2. InRound(pc, chunks, thinking, Len(actions)) = 2
    BY <2>1, RoundAt
  <2>3. InRound(pc', chunks', thinking', Len(actions')) = 1
    BY <2>1, RoundAt
  <2> QED
    BY <1>27, <1>28, <2>1, <2>2, <2>3, Costs
<1>26. CASE React!Returned \/ React!Raise
  BY <1>26 DEF React!Returned, React!Raise
<1> QED
  BY <1>1, <1>2, <1>3, <1>4, <1>5, <1>6, <1>7, <1>8, <1>9, <1>10, <1>11, <1>12, <1>13,
     <1>14, <1>15, <1>16, <1>17, <1>18, <1>19, <1>20, <1>21, <1>22, <1>23, <1>24, <1>25, <1>26
     DEF React!ReactProgress, React!CarryOut

LEMMA RegistryLength == Len(Registry) = 38 /\ \A i \in Phase1!RunTools : i \in 1..38
BY RunToolsAreRegistered, ExportToolIsLast

LEMMA PipelineAt ==
  ASSUME NEW given, NEW t
  PROVE  /\ InPipeline("begin", given, t) = 2 * Len(Registry) + 9
         /\ InPipeline("node", "created", t) = 2 * Len(Registry) + 8
         /\ InPipeline("node", "understanding", t) = 2 * Len(Registry) + 7
         /\ InPipeline("node", "context_building", t) = 2 * Len(Registry) + 6
         /\ InPipeline("node", "planning", t) = 4
         /\ InPipeline("tools", given, t) = 2 * (Len(Registry) - t) + 5
         /\ InPipeline("tool", given, t) = 2 * (Len(Registry) - t) + 6
         /\ InPipeline("reasoned", given, t) = 3
         /\ InPipeline("toolFailed", given, t) = 2
         /\ InPipeline("node", "reasoning", t) = 2
         /\ InPipeline("end", given, t) = 1
BY DEF InPipeline

LEMMA PipelineIsNat ==
  ASSUME NEW label, NEW given, NEW t \in 0..38
  PROVE  InPipeline(label, given, t) \in Nat /\ InPipeline(label, given, t) > 0
BY RegistryLength DEF InPipeline

LEMMA PipelineNumbers ==
  ASSUME PipelineInv, runtime = "phase1"
  PROVE  tool \in 0..38 /\ PipelineLeft \in Nat /\ PipelineLeft > 0
<1>1. tool = 0 \/ tool \in Phase1!RunTools
  BY DEF PipelineInv, Phase1!PipelineTypeOK
<1>2. ASSUME tool \in Phase1!RunTools PROVE tool \in 0..38
  <2>1. tool \in 1..38
    BY <1>2, RegistryLength
  <2> QED
    BY <2>1
<1>3. ASSUME tool = 0 PROVE tool \in 0..38
  BY <1>3
<1> QED
  BY <1>1, <1>2, <1>3, PipelineIsNat DEF PipelineLeft

LEMMA PipelineNumbersNext ==
  ASSUME PipelineInv', runtime' = "phase1"
  PROVE  tool' \in 0..38 /\ PipelineLeft' \in Nat
<1>1. tool' = 0 \/ tool' \in Phase1!RunTools
  BY DEF PipelineInv, Phase1!PipelineTypeOK, Phase1!RunTools
<1>2. ASSUME tool' \in Phase1!RunTools PROVE tool' \in 0..38
  <2>1. tool' \in 1..38
    BY <1>2, RegistryLength
  <2> QED
    BY <2>1
<1>3. ASSUME tool' = 0 PROVE tool' \in 0..38
  BY <1>3
<1> QED
  BY <1>1, <1>2, <1>3, PipelineIsNat DEF PipelineLeft

LEMMA PipelineDecreases ==
  ASSUME PipelineInv, PipelineInv', PlaceInv, runtime = "phase1", UNCHANGED runtime,
         Phase1!PipelineProgress, outcome' = "running"
  PROVE  PipelineLeft' < PipelineLeft
<1> USE DEF Phase1!At, Phase1!Goto, Phase1!RunNode
<1>1. tool \in 0..38 /\ tool' \in 0..38
  BY PipelineNumbers, PipelineNumbersNext
<1>2. CASE Phase1!StartAnalysis
  <2>1. pc = "begin" /\ pc' = "node"
    BY <1>2 DEF Phase1!StartAnalysis
  <2>2. InPipeline("node", runStatus', tool') <= 2 * Len(Registry) + 8
    BY <1>1, RegistryLength DEF InPipeline
  <2> QED
    BY <1>1, <2>1, <2>2, PipelineIsNat, PipelineAt, RegistryLength DEF PipelineLeft
<1>3. CASE Phase1!Understand
  <2>1. /\ pc = "node" /\ pc' = "node"
        /\ runStatus = "created" /\ runStatus' = "understanding"
    BY <1>3 DEF Phase1!Understand, Phase1!NodeStatuses
  <2>2. InPipeline(pc, runStatus, tool) = 2 * Len(Registry) + 8
    BY <2>1, PipelineAt
  <2>3. InPipeline(pc', runStatus', tool') = 2 * Len(Registry) + 7
    BY <2>1, PipelineAt
  <2> QED
    BY <1>1, <2>2, <2>3, RegistryLength DEF PipelineLeft
<1>4. CASE Phase1!BuildContext
  <2>1. /\ pc = "node" /\ pc' = "node"
        /\ runStatus = "understanding" /\ runStatus' = "context_building"
    BY <1>4 DEF Phase1!BuildContext, Phase1!NodeStatuses
  <2>2. InPipeline(pc, runStatus, tool) = 2 * Len(Registry) + 7
    BY <2>1, PipelineAt
  <2>3. InPipeline(pc', runStatus', tool') = 2 * Len(Registry) + 6
    BY <2>1, PipelineAt
  <2> QED
    BY <1>1, <2>2, <2>3, RegistryLength DEF PipelineLeft
<1>5. CASE Phase1!Plan
  <2>1. /\ pc = "node" /\ pc' = "tools"
        /\ runStatus = "context_building"
    BY <1>5 DEF Phase1!Plan, Phase1!NodeStatuses
  <2> QED
    BY <1>1, <2>1, PipelineAt, RegistryLength DEF PipelineLeft
<1>6. CASE Phase1!StartTool
  <2>1. /\ pc = "tools" /\ pc' = "tool"
        /\ tool' > tool
    BY <1>6 DEF Phase1!StartTool, Phase1!Remaining
  <2> QED
    BY <1>1, <2>1, PipelineAt, RegistryLength DEF PipelineLeft
<1>7. CASE Phase1!CompleteTool
  <2>1. /\ pc = "tool" /\ pc' = "tools"
        /\ tool' = tool
    BY <1>7 DEF Phase1!CompleteTool
  <2> QED
    BY <1>1, <2>1, PipelineAt, RegistryLength DEF PipelineLeft
<1>8. CASE Phase1!FailTool
  <2>1. /\ pc = "tool" /\ pc' = "toolFailed"
    BY <1>8 DEF Phase1!FailTool
  <2> QED
    BY <1>1, <2>1, PipelineAt, RegistryLength DEF PipelineLeft
<1>9. CASE Phase1!RunFailed
  <2>1. /\ pc = "toolFailed" /\ pc' = "end"
    BY <1>9 DEF Phase1!RunFailed
  <2> QED
    BY <1>1, <2>1, PipelineAt, RegistryLength DEF PipelineLeft
<1>10. CASE Phase1!Retrieve
  <2>1. /\ pc = "tools" /\ pc' = "node"
        /\ runStatus = "planning" /\ runStatus' = "planning"
    BY <1>10 DEF Phase1!Retrieve, PlaceInv
  <2>2. InPipeline(pc, runStatus, tool) = 2 * (Len(Registry) - tool) + 5
    BY <2>1, PipelineAt
  <2>3. InPipeline(pc', runStatus', tool') = 4
    BY <2>1, PipelineAt
  <2> QED
    BY <1>1, <2>2, <2>3, RegistryLength DEF PipelineLeft
<1>11. CASE Phase1!Reason
  <2>1. /\ pc = "node" /\ pc' = "reasoned"
        /\ runStatus = "planning"
    BY <1>11 DEF Phase1!Reason, Phase1!NodeStatuses
  <2> QED
    BY <1>1, <2>1, PipelineAt, RegistryLength DEF PipelineLeft
<1>12. CASE Phase1!Recommend
  <2>1. /\ pc = "reasoned" /\ pc' = "node"
        /\ runStatus = "reasoning" /\ runStatus' = "reasoning"
    BY <1>12 DEF Phase1!Recommend, PlaceInv
  <2> QED
    BY <1>1, <2>1, PipelineAt, RegistryLength DEF PipelineLeft
<1>13. CASE Phase1!AwaitUser
  <2>1. /\ pc = "node" /\ pc' = "end"
        /\ runStatus = "reasoning"
    BY <1>13 DEF Phase1!AwaitUser, Phase1!NodeStatuses
  <2> QED
    BY <1>1, <2>1, PipelineAt, RegistryLength DEF PipelineLeft
<1>14. CASE Phase1!Returned \/ Phase1!Raise
  BY <1>14 DEF Phase1!Returned, Phase1!Raise
<1> QED
  BY <1>2, <1>3, <1>4, <1>5, <1>6, <1>7, <1>8, <1>9, <1>10, <1>11, <1>12, <1>13, <1>14
     DEF Phase1!PipelineProgress

LEMMA LeftIsNat ==
  ASSUME ReactInv, PipelineInv, PlaceInv
  PROVE  /\ StepsLeft \in Nat
         /\ outcome = "running" =>
               StepsLeft = 2 + IF runtime = "react" THEN ReactLeft ELSE PipelineLeft
         /\ outcome = "running" => StepsLeft > 2
<1>1. runtime = "react" => ReactLeft \in Nat /\ ReactLeft > 0
  BY ReactNumbers
<1>2. runtime = "phase1" => PipelineLeft \in Nat /\ PipelineLeft > 0
  BY PipelineNumbers
<1> QED
  BY <1>1, <1>2 DEF PlaceInv, StepsLeft

LEMMA StepCounts ==
  ASSUME ReactInv, PipelineInv, PlaceInv, ReactInv', PipelineInv', PlaceInv', Next, ~CancelRun
  PROVE  StepsLeft' < StepsLeft
<1>1. CASE Iterate
  <2>1. outcome = "running" /\ handler = "iterating" /\ UNCHANGED handlerVars
    <3>1. outcome = "running"
      BY <1>1, RunsOn DEF Iterate
    <3> QED
      BY <1>1, <3>1 DEF Iterate, PlaceInv
  <2>2. CASE outcome' = "running"
    <3>1. CASE runtime = "react"
      <4>1. ReactLeft' < ReactLeft
        BY <1>1, <2>1, <2>2, <3>1, ReactDecreases DEF Iterate, handlerVars
      <4>2. ReactLeft' \in Nat /\ ReactLeft \in Nat
        BY <2>1, <3>1, ReactNumbers, ReactNumbersNext DEF handlerVars
      <4>3. StepsLeft = 2 + ReactLeft /\ StepsLeft' = 2 + ReactLeft'
        BY <2>1, <2>2, <3>1 DEF StepsLeft, handlerVars
      <4>4. \A a, b \in Nat : a < b => 2 + a < 2 + b
        OBVIOUS
      <4>5. 2 + ReactLeft' < 2 + ReactLeft
        BY <4>1, <4>2, <4>4
      <4> QED
        BY <4>3, <4>5
    <3>2. CASE runtime = "phase1"
      <4>1. PipelineLeft' < PipelineLeft
        BY <1>1, <2>1, <2>2, <3>2, PipelineDecreases DEF Iterate, handlerVars
      <4>2. PipelineLeft' \in Nat /\ PipelineLeft \in Nat
        BY <2>1, <3>2, PipelineNumbers, PipelineNumbersNext DEF handlerVars
      <4>3. StepsLeft = 2 + PipelineLeft /\ StepsLeft' = 2 + PipelineLeft'
        BY <2>1, <2>2, <3>2 DEF StepsLeft, handlerVars
      <4>4. \A a, b \in Nat : a < b => 2 + a < 2 + b
        OBVIOUS
      <4>5. 2 + PipelineLeft' < 2 + PipelineLeft
        BY <4>1, <4>2, <4>4
      <4> QED
        BY <4>3, <4>5
    <3> QED
      BY <3>1, <3>2 DEF PlaceInv
  <2>3. CASE outcome' # "running"
    <3>1. StepsLeft > 2 /\ StepsLeft \in Nat
      BY <2>1, LeftIsNat
    <3>2. StepsLeft' = 2
      BY <2>1, <2>3 DEF StepsLeft, handlerVars
    <3> QED
      BY <3>1, <3>2
  <2> QED
    BY <2>2, <2>3
<1>2. CASE StopListening
  <2>1. /\ outcome = "running" /\ outcome' = "abandoned" /\ handler' = "iterating"
    BY <1>2 DEF StopListening, React!Abandon, Phase1!Abandon, PlaceInv, handlerVars
  <2>2. StepsLeft > 2 /\ StepsLeft \in Nat
    BY <2>1, LeftIsNat
  <2>3. StepsLeft' = 2
    BY <2>1 DEF StepsLeft
  <2> QED
    BY <2>2, <2>3
<1>3. CASE Settle \/ SettleFailed \/ SettleCancelled
  BY <1>3 DEF Settle, SettleFailed, SettleCancelled, StepsLeft
<1>4. CASE MakeExport
  BY <1>4 DEF MakeExport, StepsLeft
<1> QED
  BY <1>1, <1>2, <1>3, <1>4 DEF Next

\* Whatever the model answers, every step of either runtime and of the handler
\* behind it brings the end of the run nearer: no cycle is free of cost.  A
\* request to cancel changes the status alone.
EveryStepCounts == [][StepsLeft' < StepsLeft]_<<runtimeVars, handler>>

\* A run takes no more steps than StepsLeft says at its start, whatever the model and
\* the tools answer (MaxChunks bounds a stream): the number stays natural and every
\* step lowers it.
THEOREM RunsAreBounded == Spec => [](StepsLeft \in Nat) /\ EveryStepCounts
<1> DEFINE I == ReactInv /\ PipelineInv /\ PlaceInv
<1>1. Spec => []I
  BY ReactInvInit, ReactInvStep, PipelineInvInit, PipelineInvStep, PlaceInvInit, PlaceInvStep,
     PTL DEF Spec
<1>2. I => StepsLeft \in Nat
  BY LeftIsNat
<1>3. I /\ I' /\ [Next]_vars => [StepsLeft' < StepsLeft]_<<runtimeVars, handler>>
  BY StepCounts DEF CancelRun, vars, handlerVars
<1> HIDE DEF I
<1>4. Spec => [][StepsLeft' < StepsLeft]_<<runtimeVars, handler>>
  BY <1>1, <1>3, PTL DEF Spec
<1> QED
  BY <1>1, <1>2, <1>4, PTL DEF EveryStepCounts
===============================================================================
