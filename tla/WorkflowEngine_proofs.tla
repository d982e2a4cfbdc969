----------------------- MODULE WorkflowEngine_proofs -----------------------
(* Theorems about WorkflowEngine, for every workflow, every number of calls, *)
(* servers and faults.                                                        *)
EXTENDS WorkflowEngine, TLAPS

(* The sets of labels a call's program counter and a member's take. *)
LEMMA Labels ==
    /\ {"idle", "done"} \subseteq Pc
    /\ {"load", "loadSteps", "markRunning", "setCurrent", "batch", "complete", "failExec",
        "rbMark", "rbLoad", "compensate", "markCompensated", "rtLoad", "rtLoadSteps",
        "rtResume", "rtResetFailed", "rtResetAll", "rtRestart", "cnLoad", "cnMark"} \subseteq Pc
    /\ {"none", "mark", "run", "save", "fail", "ok", "err", "blank",
        "threw"} \subseteq MemberPc
  BY DEF Pc, RetryPc, CancelPc, LoopPc, RollbackPc, MemberPc, MemberBusy, Answers

(* Moving one member of one call to a label keeps mem well typed. *)
LEMMA MemberMove ==
    ASSUME mem \in [Calls -> [Step -> MemberPc]], NEW c \in Calls, NEW s \in Step,
           NEW l \in MemberPc, MemberGoto(c, s, l)
    PROVE  mem' \in [Calls -> [Step -> MemberPc]]
  BY DEF MemberGoto

-----------------------------------------------------------------------------
(* Typing *)

(* The engine starts well typed. *)
LEMMA TypeInit == Init => TypeOK
  BY DEF Init, TypeOK, AllPending, NoMembers, StepStatus, Failed, WorkflowStatus, MemberPc, Pc

(* The steps of the loop keep the types. *)
LEMMA TypeLoop ==
    ASSUME TypeOK, NEW c \in Calls, LoopStep(c) PROVE TypeOK'
  <1> USE DEF TypeOK, Goto, Finish, WorkflowStatus
  <1>1. CASE LoadExecution(c)
    BY <1>1, Labels DEF LoadExecution, dbVars, engineVars, historyVars
  <1>2. CASE LoadSteps(c)
    BY <1>2, Labels, ZenonT(60) DEF LoadSteps, NextMove, dbVars, historyVars
  <1>3. CASE MarkRunning(c)
    BY <1>3, Labels DEF MarkRunning, NextMove, engineVars, historyVars
  <1>4. CASE StartBatch(c)
    BY <1>4, Labels DEF StartBatch, PendingIn, engineVars, historyVars
  <1>5. CASE JoinBatch(c)
    BY <1>5, Labels, ZenonT(60) DEF JoinBatch, NoMembers, dbVars, engineVars, historyVars
  <1>6. CASE RejectBatch(c)
    BY <1>6, Labels DEF RejectBatch, dbVars, historyVars
  <1>7. CASE Complete(c)
    BY <1>7, Labels DEF Complete, EmitTerminal, historyVars
  <1>8. CASE FailExecution(c)
    BY <1>8, Labels DEF FailExecution, EmitTerminal, historyVars
  <1> QED BY <1>1, <1>2, <1>3, <1>4, <1>5, <1>6, <1>7, <1>8, LoopStep(c) DEF LoopStep

(* The steps of a rollback keep the types. *)
LEMMA TypeRollback ==
    ASSUME TypeOK, NEW c \in Calls, RollbackStep(c) PROVE TypeOK'
  <1> USE DEF TypeOK, Goto, Finish, WorkflowStatus, StepStatus, Failed
  <1>1. CASE BeginRollback(c)
    BY <1>1, Labels DEF BeginRollback, engineVars, historyVars
  <1>2. CASE LoadCompleted(c)
    BY <1>2, Labels, WorkflowAssumption DEF LoadCompleted, dbVars, engineVars, historyVars
  <1>3. CASE Compensate(c)
    BY <1>3, Labels DEF Compensate, dbVars, engineVars
  <1>4. CASE MarkCompensated(c)
    BY <1>4, Labels DEF MarkCompensated, engineVars, historyVars
  <1>5. CASE EndRollback(c)
    BY <1>5, Labels DEF EndRollback, historyVars
  <1> QED BY <1>1, <1>2, <1>3, <1>4, <1>5, RollbackStep(c) DEF RollbackStep

(* The steps of retry() and cancel() keep the types. *)
LEMMA TypeRetryCancel ==
    ASSUME TypeOK, NEW c \in Calls, RetryStep(c) \/ CancelStep(c) PROVE TypeOK'
  <1> USE DEF TypeOK, Goto, WorkflowStatus, StepStatus, Failed
  <1>1. CASE RetryLoad(c)
    BY <1>1, Labels DEF RetryLoad, dbVars, engineVars, historyVars
  <1>2. CASE RetryAdmit(c)
    <2>1. Home[c] \in Servers
      BY CallsAssumption
    <2>2. /\ rows' \in [Calls -> [Step -> StepStatus]]
          /\ pc' \in [Calls -> Pc]
      BY <1>2, Labels, ZenonT(60) DEF RetryAdmit
    <2>3. processing' \subseteq Servers
      BY <1>2, <2>1 DEF RetryAdmit
    <2> QED BY <1>2, <2>2, <2>3 DEF RetryAdmit, dbVars, historyVars
  <1>3. CASE Resume(c)
    BY <1>3, Labels DEF Resume, engineVars, historyVars
  <1>4. CASE ResetFailedStep(c)
    BY <1>4, Labels DEF ResetFailedStep, engineVars, historyVars
  <1>5. CASE ResetAllSteps(c)
    BY <1>5, Labels DEF ResetAllSteps, AllPending, engineVars, historyVars
  <1>6. CASE Restart(c)
    BY <1>6, Labels DEF Restart, engineVars, historyVars
  <1>7. CASE CancelLoad(c)
    BY <1>7, Labels DEF CancelLoad, dbVars, engineVars, historyVars
  <1>8. CASE CancelMark(c)
    BY <1>8, Labels DEF CancelMark, EmitTerminal, historyVars
  <1> QED BY <1>1, <1>2, <1>3, <1>4, <1>5, <1>6, <1>7, <1>8, RetryStep(c) \/ CancelStep(c)
          DEF RetryStep, CancelStep

(* The steps of one executeStep() keep the types. *)
LEMMA TypeMember ==
    ASSUME TypeOK, NEW c \in Calls, NEW s \in Step, MemberStep(c, s) PROVE TypeOK'
  <1> USE DEF TypeOK, StepStatus, Failed
  <1>1. CASE MarkStep(c, s)
    BY <1>1, Labels, MemberMove DEF MarkStep, engineVars, historyVars
  <1>2. CASE RunJob(c, s)
    <2>1. mem' \in [Calls -> [Step -> MemberPc]]
      <3>1. \E l \in MemberPc : MemberGoto(c, s, l)
        BY <1>2, Labels DEF RunJob
      <3> QED BY <3>1, MemberMove
    <2>2. effects' \in [Step -> Int]
      BY <1>2 DEF RunJob
    <2> QED BY <1>2, <2>1, <2>2 DEF RunJob, dbVars, engineVars
  <1>3. CASE SaveOutput(c, s)
    BY <1>3, Labels, MemberMove DEF SaveOutput, engineVars, historyVars
  <1>4. CASE RecordFailure(c, s)
    <2>1. mem' \in [Calls -> [Step -> MemberPc]]
      <3>1. \E l \in MemberPc : MemberGoto(c, s, l)
        BY <1>4, Labels DEF RecordFailure
      <3> QED BY <3>1, MemberMove
    <2>2. step' \in [Step -> StepStatus]
      BY <1>4 DEF RecordFailure
    <2> QED BY <1>4, <2>1, <2>2 DEF RecordFailure, engineVars, historyVars
  <1> QED BY <1>1, <1>2, <1>3, <1>4, MemberStep(c, s) DEF MemberStep

(* The faults of the environment keep the types. *)
LEMMA TypeEnvironment ==
    ASSUME TypeOK, Environment PROVE TypeOK'
  <1> USE DEF TypeOK, Goto, Finish
  <1>0. ASSUME NEW k, Inject(k) PROVE faulted' \subseteq FaultKinds
    BY <1>0, WorkflowAssumption DEF Inject
  <1>1. ASSUME NEW c \in Calls, StatementFails(c) PROVE TypeOK'
    BY <1>0, <1>1, Labels DEF StatementFails, dbVars
  <1>2. ASSUME NEW c \in Calls, CompensateFails(c) PROVE TypeOK'
    BY <1>0, <1>2 DEF CompensateFails, dbVars, engineVars
  <1>3. ASSUME NEW c \in Calls, MarkCompensatedFails(c) PROVE TypeOK'
    BY <1>0, <1>3, Labels DEF MarkCompensatedFails, dbVars, engineVars
  <1>4. ASSUME NEW c \in Calls, NEW s \in Step, StepStatementFails(c, s) PROVE TypeOK'
    <2>1. mem' \in [Calls -> [Step -> MemberPc]]
      <3>1. \E l \in MemberPc : MemberGoto(c, s, l)
        BY <1>4, Labels DEF StepStatementFails
      <3> QED BY <3>1, MemberMove
    <2> QED BY <1>0, <1>4, <2>1 DEF StepStatementFails, dbVars, engineVars
  <1>5. ASSUME NEW c \in Calls, NEW s \in Step, StoreFails(c, s) PROVE TypeOK'
    BY <1>0, <1>5, Labels, MemberMove DEF StoreFails, dbVars, engineVars
  <1>6. ASSUME NEW sv \in Servers, Crash(sv) PROVE TypeOK'
    BY <1>0, <1>6, Labels DEF Crash, NoMembers, dbVars
  <1> QED BY <1>1, <1>2, <1>3, <1>4, <1>5, <1>6, Environment DEF Environment

(* Every step keeps the types. *)
LEMMA TypeStep == TypeOK /\ [Next]_vars => TypeOK'
  <1> SUFFICES ASSUME TypeOK, [Next]_vars PROVE TypeOK'
    OBVIOUS
  <1>1. CASE Start
    BY <1>1, Labels, CallsAssumption DEF Start, TypeOK, Goto, AllPending, WorkflowStatus,
       StepStatus, Failed, engineVars, historyVars
  <1>2. ASSUME NEW r \in Retries, Retry(r) PROVE TypeOK'
    BY <1>2, Labels DEF Retry, TypeOK, Goto, dbVars, engineVars, historyVars
  <1>3. ASSUME NEW x \in Cancels, Cancel(x) PROVE TypeOK'
    BY <1>3, Labels DEF Cancel, TypeOK, Goto, dbVars, engineVars, historyVars
  <1>4. ASSUME NEW sv \in Watched, Subscribe(sv) \/ Unsubscribe(sv) PROVE TypeOK'
    BY <1>4 DEF Subscribe, Unsubscribe, TypeOK, dbVars, historyVars, callVars
  <1>5. ASSUME NEW c \in Calls, CallStep(c) PROVE TypeOK'
    BY <1>5, TypeLoop, TypeRollback, TypeRetryCancel DEF CallStep
  <1>6. ASSUME NEW c \in Calls, NEW s \in Step, MemberStep(c, s) PROVE TypeOK'
    BY <1>6, TypeMember
  <1>7. CASE Environment
    BY <1>7, TypeEnvironment
  <1>8. CASE UNCHANGED vars
    BY <1>8 DEF TypeOK, vars, dbVars, engineVars, historyVars, callVars
  <1> QED BY <1>1, <1>2, <1>3, <1>4, <1>5, <1>6, <1>7, <1>8 DEF Next

(* Type correctness of the engine, whatever the workflow, the calls and the  *)
(* faults: the labels and statuses of the code are the only ones reached.    *)
THEOREM TypeCorrect == Spec => []TypeOK
  <1>1. Init => TypeOK
    BY TypeInit
  <1>2. TypeOK /\ [Next]_vars => TypeOK'
    BY TypeStep
  <1> QED BY <1>1, <1>2, PTL DEF Spec

-----------------------------------------------------------------------------
(* The retry guard *)

(* A call that moves on keeps GuardReleased if, leaving the guarded part of   *)
(* retry(), it has taken its server out of processing.                        *)
LEMMA GuardMove ==
    ASSUME TypeOK, GuardReleased, NEW c \in Calls, NEW l, Goto(c, l),
           processing' \subseteq processing,
           c \in Retries /\ pc[c] \in GuardPc =>
               l \in GuardPc \/ Home[c] \notin processing'
    PROVE  GuardReleased'
  <1> SUFFICES ASSUME NEW sv \in processing'
               PROVE  \E r \in Retries : Home[r] = sv /\ pc'[r] \in GuardPc
    BY DEF GuardReleased
  <1>1. PICK r \in Retries : Home[r] = sv /\ pc[r] \in GuardPc
    BY DEF GuardReleased
  <1>2. r \in Calls
    BY DEF Calls
  <1>3. CASE r = c
    BY <1>1, <1>3 DEF Goto, TypeOK
  <1>4. CASE r # c
    BY <1>1, <1>2, <1>4 DEF Goto, TypeOK
  <1> QED BY <1>3, <1>4

(* A call whose promise settles leaves no guard behind. *)
LEMMA GuardFinish ==
    ASSUME TypeOK, GuardReleased, NEW c \in Calls, Finish(c) PROVE GuardReleased'
  BY GuardMove DEF Finish

(* A step that moves no call and adds no id keeps GuardReleased. *)
LEMMA GuardFrame ==
    ASSUME GuardReleased, pc' = pc, processing' \subseteq processing PROVE GuardReleased'
  BY DEF GuardReleased

(* Every step of a call keeps GuardReleased. *)
LEMMA GuardCallStep ==
    ASSUME TypeOK, GuardReleased, NEW c \in Calls, CallStep(c) PROVE GuardReleased'
  <1>1. CASE LoopStep(c)
    <2>1. CASE LoadExecution(c) \/ MarkRunning(c) \/ StartBatch(c) \/ JoinBatch(c)
      <3>1. \E l \in GuardPc : Goto(c, l)
        BY <2>1 DEF LoadExecution, MarkRunning, StartBatch, JoinBatch, NextMove, GuardPc, LoopPc
      <3>2. processing' = processing
        BY <2>1 DEF LoadExecution, MarkRunning, StartBatch, JoinBatch, engineVars
      <3> QED BY <3>1, <3>2, GuardMove
    <2>2. CASE LoadSteps(c)
      <3>1. Finish(c) \/ (processing' = processing /\ \E l \in GuardPc : Goto(c, l))
        BY <2>2 DEF LoadSteps, NextMove, GuardPc, LoopPc
      <3> QED BY <3>1, GuardMove, GuardFinish
    <2>3. CASE RejectBatch(c) \/ Complete(c)
      BY <2>3, GuardFinish DEF RejectBatch, Complete
    <2>4. CASE FailExecution(c)
      <3>1. Finish(c) \/ (processing' = processing /\ Goto(c, "rbMark"))
        BY <2>4 DEF FailExecution
      <3> QED BY <3>1, GuardMove, GuardFinish DEF GuardPc, RollbackPc
    <2> QED BY <1>1, <2>1, <2>2, <2>3, <2>4 DEF LoopStep
  <1>2. CASE RollbackStep(c)
    <2>1. CASE EndRollback(c)
      BY <2>1, GuardFinish DEF EndRollback
    <2>2. CASE ~EndRollback(c)
      <3>1. \E l \in GuardPc : Goto(c, l)
        BY <1>2, <2>2 DEF RollbackStep, BeginRollback, LoadCompleted, Compensate,
           MarkCompensated, GuardPc, RollbackPc
      <3>2. processing' = processing
        BY <1>2, <2>2 DEF RollbackStep, BeginRollback, LoadCompleted, Compensate,
           MarkCompensated, engineVars
      <3> QED BY <3>1, <3>2, GuardMove
    <2> QED BY <2>1, <2>2
  <1>3. CASE RetryStep(c)
    <2>1. CASE RetryLoad(c)
      <3>1. Goto(c, "rtLoadSteps") /\ pc[c] = "rtLoad" /\ processing' = processing
        BY <2>1 DEF RetryLoad, engineVars
      <3> QED BY <3>1, GuardMove DEF GuardPc, LoopPc, RollbackPc
    <2>2. CASE RetryAdmit(c) /\ processing' = processing /\ Goto(c, "done")
      <3>1. pc[c] = "rtLoadSteps"
        BY <2>2 DEF RetryAdmit
      <3> QED BY <2>2, <3>1, GuardMove DEF GuardPc, LoopPc, RollbackPc
    <2>3. CASE /\ processing' = processing \cup {Home[c]}
               /\ \E l \in GuardPc : Goto(c, l)
               /\ pc[c] = "rtLoadSteps"
               /\ c \in Retries
      <3> SUFFICES ASSUME NEW sv \in processing'
                   PROVE  \E r \in Retries : Home[r] = sv /\ pc'[r] \in GuardPc
        BY DEF GuardReleased
      <3>1. pc'[c] \in GuardPc
        BY <2>3 DEF Goto, TypeOK
      <3>2. CASE sv = Home[c]
        BY <2>3, <3>1, <3>2
      <3>3. CASE sv \in processing
        <4>1. PICK r \in Retries : Home[r] = sv /\ pc[r] \in GuardPc
          BY <3>3 DEF GuardReleased
        <4>2. r # c /\ r \in Calls
          BY <2>3, <4>1 DEF GuardPc, LoopPc, RollbackPc, Calls
        <4> QED BY <2>3, <4>1, <4>2 DEF Goto, TypeOK
      <3> QED BY <2>3, <3>2, <3>3
    <2>4. CASE Resume(c) \/ ResetFailedStep(c) \/ ResetAllSteps(c) \/ Restart(c)
      <3>1. \E l \in GuardPc : Goto(c, l)
        BY <2>4 DEF Resume, ResetFailedStep, ResetAllSteps, Restart, GuardPc, LoopPc
      <3>2. processing' = processing
        BY <2>4 DEF Resume, ResetFailedStep, ResetAllSteps, Restart, engineVars
      <3> QED BY <3>1, <3>2, GuardMove
    <2>5. CASE RetryAdmit(c)
      <3>1. \/ processing' = processing /\ Goto(c, "done")
            \/ /\ processing' = processing \cup {Home[c]}
               /\ \E l \in GuardPc : Goto(c, l)
        BY <2>5 DEF RetryAdmit, GuardPc
      <3>2. c \in Retries /\ pc[c] = "rtLoadSteps"
        BY <1>3, <2>5 DEF RetryStep, RetryAdmit
      <3> QED BY <2>2, <2>3, <2>5, <3>1, <3>2
    <2> QED BY <1>3, <2>1, <2>4, <2>5 DEF RetryStep
  <1>4. CASE CancelStep(c)
    <2>1. pc[c] \in {"cnLoad", "cnMark"} /\ processing' = processing /\ \E l : Goto(c, l)
      BY <1>4 DEF CancelStep, CancelLoad, CancelMark, engineVars
    <2> QED BY <2>1, GuardMove DEF GuardPc, LoopPc, RollbackPc
  <1> QED BY <1>1, <1>2, <1>3, <1>4 DEF CallStep

(* Every step keeps GuardReleased. *)
LEMMA GuardStep == TypeOK /\ GuardReleased /\ [Next]_vars => GuardReleased'
  <1> SUFFICES ASSUME TypeOK, GuardReleased, [Next]_vars PROVE GuardReleased'
    OBVIOUS
  <1>1. CASE Start
    BY <1>1, CallsAssumption, GuardMove DEF Start, Calls, engineVars
  <1>2. ASSUME NEW r \in Retries, Retry(r) PROVE GuardReleased'
    <2>1. pc[r] = "idle" /\ processing' = processing /\ \E l : Goto(r, l)
      BY <1>2 DEF Retry, engineVars
    <2> QED BY <2>1, GuardMove DEF Calls, GuardPc, LoopPc, RollbackPc
  <1>3. ASSUME NEW x \in Cancels, Cancel(x) PROVE GuardReleased'
    BY <1>3, CallsAssumption, GuardMove DEF Cancel, Calls, engineVars
  <1>4. ASSUME NEW sv \in Watched, Subscribe(sv) \/ Unsubscribe(sv) PROVE GuardReleased'
    BY <1>4, GuardFrame DEF Subscribe, Unsubscribe, callVars
  <1>5. ASSUME NEW c \in Calls, CallStep(c) PROVE GuardReleased'
    BY <1>5, GuardCallStep
  <1>6. ASSUME NEW c \in Calls, NEW s \in Step, MemberStep(c, s) PROVE GuardReleased'
    BY <1>6, GuardFrame DEF MemberStep, MarkStep, RunJob, SaveOutput, RecordFailure, engineVars
  <1>7. ASSUME NEW c \in Calls, StatementFails(c) PROVE GuardReleased'
    <2>1. CASE pc[c] \in GuardPc
      BY <1>7, <2>1, GuardFinish DEF StatementFails
    <2>2. CASE pc[c] \notin GuardPc
      BY <1>7, <2>2, GuardMove DEF StatementFails
    <2> QED BY <2>1, <2>2
  <1>8. ASSUME NEW c \in Calls, CompensateFails(c) PROVE GuardReleased'
    BY <1>8, GuardFrame DEF CompensateFails, engineVars
  <1>9. ASSUME NEW c \in Calls, MarkCompensatedFails(c) PROVE GuardReleased'
    BY <1>9, GuardMove DEF MarkCompensatedFails, engineVars, GuardPc, RollbackPc
  <1>10. ASSUME NEW c \in Calls, NEW s \in Step, StepStatementFails(c, s) \/ StoreFails(c, s)
         PROVE  GuardReleased'
    BY <1>10, GuardFrame DEF StepStatementFails, StoreFails, engineVars
  <1>11. ASSUME NEW sv \in Servers, Crash(sv) PROVE GuardReleased'
    <2> SUFFICES ASSUME NEW sw \in processing'
                 PROVE  \E r \in Retries : Home[r] = sw /\ pc'[r] \in GuardPc
      BY DEF GuardReleased
    <2>1. sw \in processing /\ sw # sv
      BY <1>11 DEF Crash
    <2>2. PICK r \in Retries : Home[r] = sw /\ pc[r] \in GuardPc
      BY <2>1 DEF GuardReleased
    <2> QED BY <1>11, <2>1, <2>2 DEF Crash, Calls
  <1>12. CASE UNCHANGED vars
    BY <1>12, GuardFrame DEF vars, engineVars, callVars
  <1> QED BY <1>1, <1>2, <1>3, <1>4, <1>5, <1>6, <1>7, <1>8, <1>9, <1>10, <1>11, <1>12
          DEF Next, Environment

(* processingExecutions holds the id only while a retry() of that server is   *)
(* past its guard: no exception, crash or interleaving leaks it.              *)
THEOREM GuardAlwaysReleased == Spec => []GuardReleased
  <1>1. Init => TypeOK /\ GuardReleased
    BY TypeInit DEF Init, GuardReleased
  <1>2. TypeOK /\ GuardReleased /\ [Next]_vars => (TypeOK /\ GuardReleased)'
    BY TypeStep, GuardStep
  <1> QED BY <1>1, <1>2, PTL DEF Spec

-----------------------------------------------------------------------------
(* Ownership of an unsettled status *)

LEMMA FaultsGrow == [Next]_vars => faulted \subseteq faulted'
  BY DEF Next, Start, Retry, Cancel, Subscribe, Unsubscribe, CallStep, LoopStep, RollbackStep,
     RetryStep, CancelStep, MemberStep, Environment, LoadExecution, LoadSteps, MarkRunning,
     StartBatch, JoinBatch, RejectBatch, Complete, FailExecution, BeginRollback, LoadCompleted,
     Compensate, MarkCompensated, EndRollback, RetryLoad, RetryAdmit, Resume, ResetFailedStep,
     ResetAllSteps, Restart, CancelLoad, CancelMark, MarkStep, RunJob, SaveOutput, RecordFailure,
     StatementFails, CompensateFails, MarkCompensatedFails, StepStatementFails, StoreFails, Crash,
     Inject, vars, historyVars

(* A step of the batch ends in "threw" only by a failed statement. *)
LEMMA ThrownStep == TypeOK /\ ThrownMeansFault /\ [Next]_vars => ThrownMeansFault'
  <1> SUFFICES ASSUME TypeOK, ThrownMeansFault, [Next]_vars,
                      NEW d \in Calls, NEW u \in Step, mem'[d][u] = "threw"
               PROVE  "db" \in faulted'
    BY DEF ThrownMeansFault
  <1>0. CASE mem[d][u] = "threw"
    BY <1>0, FaultsGrow DEF ThrownMeansFault
  <1>1. CASE mem[d][u] # "threw"
    <2>1. \E c \in Calls : \E s \in Step : StepStatementFails(c, s)
      <3>1. mem' # mem
        BY <1>1
      <3>2. ASSUME NEW c \in Calls, StartBatch(c) PROVE FALSE
        BY <1>1, <3>2 DEF StartBatch, TypeOK
      <3>3. ASSUME NEW c \in Calls, JoinBatch(c) PROVE FALSE
        BY <1>1, <3>3 DEF JoinBatch, NoMembers, TypeOK
      <3>4. ASSUME NEW c \in Calls, NEW s \in Step, NEW l \in MemberPc \ {"threw"},
                   MemberGoto(c, s, l)
            PROVE FALSE
        BY <1>1, <3>4 DEF MemberGoto, TypeOK
      <3>5. ASSUME NEW c \in Calls, NEW s \in Step, MemberStep(c, s) \/ StoreFails(c, s)
            PROVE FALSE
        <4>1. \E l \in MemberPc \ {"threw"} : MemberGoto(c, s, l)
          BY <3>5 DEF MemberStep, MarkStep, RunJob, SaveOutput, RecordFailure, StoreFails,
             MemberPc, MemberBusy, Answers
        <4> QED BY <4>1, <3>4
      <3>6. ASSUME NEW sv \in Servers, Crash(sv) PROVE FALSE
        BY <1>1, <3>6 DEF Crash, NoMembers
      <3>7. ASSUME NEW c \in Calls, CallStep(c) PROVE FALSE
        BY <3>1, <3>2, <3>3, <3>7 DEF CallStep, LoopStep, RollbackStep, RetryStep, CancelStep,
           LoadExecution, LoadSteps, MarkRunning, RejectBatch, Complete, FailExecution,
           BeginRollback, LoadCompleted, Compensate, MarkCompensated, EndRollback, RetryLoad,
           RetryAdmit, Resume, ResetFailedStep, ResetAllSteps, Restart, CancelLoad, CancelMark
      <3>8. ~Start
        BY <3>1 DEF Start
      <3>9. /\ \A r \in Retries : ~Retry(r)
            /\ \A x \in Cancels : ~Cancel(x)
            /\ \A sv \in Watched : ~Subscribe(sv) /\ ~Unsubscribe(sv)
            /\ \A c \in Calls : /\ ~StatementFails(c)
                                /\ ~CompensateFails(c)
                                /\ ~MarkCompensatedFails(c)
        BY <3>1 DEF Retry, Cancel, Subscribe, Unsubscribe, callVars, StatementFails,
           CompensateFails, MarkCompensatedFails
      <3>10. ~UNCHANGED vars
        BY <3>1 DEF vars, callVars
      <3> QED BY <3>5, <3>6, <3>7, <3>8, <3>9, <3>10 DEF Next, Environment
    <2> QED BY <2>1 DEF StepStatementFails, Inject
  <1> QED BY <1>0, <1>1

(* A step that leaves the status alone keeps UnsettledHasOwner if the call it *)
(* moves was not the owner, or still is.                                      *)
LEMMA OwnerMove ==
    ASSUME TypeOK, UnsettledHasOwner, faulted \subseteq faulted', status' = status,
           NEW c \in Calls, NEW l, Goto(c, l),
           \A d \in Calls \ {c} : seen'[d] = seen[d],
           status \in Active /\ Drives(c) => Drives(c)',
           status = "compensating" /\ RollingBack(c) /\ pc[c] # "rbMark" =>
               RollingBack(c)' /\ pc'[c] # "rbMark",
           status = "failed" => pc[c] # "rbMark"
    PROVE  UnsettledHasOwner'
  <1> SUFFICES ASSUME faulted' \cap {"crash", "db"} = {}
               PROVE  /\ status \in Active => \E d \in Calls : Drives(d)'
                      /\ status = "compensating" =>
                            \E d \in Calls : RollingBack(d)' /\ pc'[d] # "rbMark"
                      /\ status = "failed" /\ RollbackEnabled => \E d \in Calls : pc'[d] = "rbMark"
    BY DEF UnsettledHasOwner
  <1>1. /\ status \in Active => \E d \in Calls : Drives(d)
        /\ status = "compensating" => \E d \in Calls : RollingBack(d) /\ pc[d] # "rbMark"
        /\ status = "failed" /\ RollbackEnabled => \E d \in Calls : pc[d] = "rbMark"
    BY DEF UnsettledHasOwner
  <1>2. \A d \in Calls \ {c} : pc'[d] = pc[d] /\ seen'[d] = seen[d]
    BY DEF Goto, TypeOK
  <1>3. \A d \in Calls \ {c} : Drives(d)' = Drives(d) /\ RollingBack(d)' = RollingBack(d)
    BY <1>2 DEF Drives, RollingBack
  <1> QED BY <1>1, <1>2, <1>3

(* A step that sets the status keeps UnsettledHasOwner if the call that takes *)
(* it owns the new status.                                                    *)
LEMMA OwnerSet ==
    ASSUME NEW c \in Calls,
           status' \in Active => Drives(c)',
           status' = "compensating" => RollingBack(c)' /\ pc'[c] # "rbMark",
           status' = "failed" /\ RollbackEnabled => pc'[c] = "rbMark"
    PROVE  UnsettledHasOwner'
  BY DEF UnsettledHasOwner

(* A step that moves no call and leaves the status alone keeps it as well. *)
LEMMA OwnerFrame ==
    ASSUME UnsettledHasOwner, faulted \subseteq faulted',
           status' = status, pc' = pc, seen' = seen
    PROVE  UnsettledHasOwner'
  BY DEF UnsettledHasOwner, Drives, RollingBack

(* After a crash or a failed statement it promises nothing. *)
LEMMA OwnerLost ==
    ASSUME faulted' \cap {"crash", "db"} # {} PROVE UnsettledHasOwner'
  BY DEF UnsettledHasOwner

(* The steps of the loop keep UnsettledHasOwner. *)
LEMMA OwnerLoop ==
    ASSUME TypeOK, ThrownMeansFault, UnsettledHasOwner, faulted \subseteq faulted',
           NEW c \in Calls, LoopStep(c)
    PROVE  UnsettledHasOwner'
  <1>0. \A l : Goto(c, l) => pc'[c] = l
    BY DEF Goto, TypeOK
  <1>1. CASE LoadExecution(c)
    <2>1. /\ pc[c] = "load" /\ Goto(c, "loadSteps")
          /\ seen'[c] = status /\ status' = status
          /\ \A d \in Calls \ {c} : seen'[d] = seen[d]
      BY <1>1 DEF LoadExecution, dbVars, TypeOK
    <2> QED BY <1>0, <2>1, OwnerMove DEF Drives, RollingBack, RollbackPc
  <1>2. CASE LoadSteps(c)
    <2>1. pc[c] = "loadSteps" /\ status' = status /\ seen' = seen
      BY <1>2 DEF LoadSteps, dbVars
    <2>2. CASE seen[c] \in Active
      <3>1. \E l \in {"markRunning", "complete", "setCurrent"} : Goto(c, l)
        BY <1>2, <2>2 DEF LoadSteps, NextMove
      <3> QED BY <1>0, <2>1, <3>1, OwnerMove DEF Drives, RollingBack, RollbackPc
    <2>3. CASE seen[c] \notin Active
      <3>1. Goto(c, "done")
        BY <1>2, <2>3 DEF LoadSteps, Finish, Active
      <3> QED BY <2>1, <2>3, <3>1, OwnerMove DEF Drives, RollingBack, RollbackPc
    <2> QED BY <2>2, <2>3
  <1>3. CASE MarkRunning(c)
    <2>1. status' = "running" /\ pc'[c] \in {"complete", "setCurrent"}
      BY <1>0, <1>3 DEF MarkRunning, NextMove
    <2> QED BY <2>1, OwnerSet DEF Drives
  <1>4. CASE StartBatch(c)
    <2>1. pc[c] = "setCurrent" /\ Goto(c, "batch") /\ status' = status /\ seen' = seen
      BY <1>4 DEF StartBatch
    <2> QED BY <1>0, <2>1, OwnerMove DEF Drives, RollingBack, RollbackPc
  <1>5. CASE JoinBatch(c)
    <2>1. pc[c] = "batch" /\ status' = status /\ seen' = seen
      BY <1>5 DEF JoinBatch, dbVars
    <2>2. \E l \in {"failExec", "load"} : Goto(c, l)
      BY <1>5 DEF JoinBatch
    <2> QED BY <1>0, <2>1, <2>2, OwnerMove DEF Drives, RollingBack, RollbackPc
  <1>6. CASE RejectBatch(c)
    BY <1>6, OwnerLost DEF RejectBatch, ThrownMeansFault
  <1>7. CASE Complete(c)
    BY <1>7, OwnerSet DEF Complete, Active
  <1>8. CASE FailExecution(c)
    BY <1>0, <1>8, OwnerSet DEF FailExecution, Active
  <1> QED BY <1>1, <1>2, <1>3, <1>4, <1>5, <1>6, <1>7, <1>8 DEF LoopStep

(* The steps of a rollback keep it. *)
LEMMA OwnerRollback ==
    ASSUME TypeOK, UnsettledHasOwner, faulted \subseteq faulted',
           NEW c \in Calls, RollbackStep(c)
    PROVE  UnsettledHasOwner'
  <1>0. \A l : Goto(c, l) => pc'[c] = l
    BY DEF Goto, TypeOK
  <1>1. CASE BeginRollback(c)
    <2>1. status' = "compensating" /\ pc'[c] = "rbLoad"
      BY <1>0, <1>1 DEF BeginRollback
    <2> QED BY <2>1, OwnerSet DEF Active, RollingBack, RollbackPc
  <1>2. CASE LoadCompleted(c) \/ Compensate(c) \/ MarkCompensated(c)
    <2>1. /\ pc[c] \in {"rbLoad", "compensate", "markCompensated"}
          /\ status' = status /\ seen' = seen
      BY <1>2 DEF LoadCompleted, Compensate, MarkCompensated, dbVars
    <2>2. \E l \in {"compensate", "markCompensated"} : Goto(c, l)
      BY <1>2 DEF LoadCompleted, Compensate, MarkCompensated
    <2> QED BY <1>0, <2>1, <2>2, OwnerMove DEF Drives, RollingBack, RollbackPc
  <1>3. CASE EndRollback(c)
    BY <1>3, OwnerSet DEF EndRollback, Active
  <1> QED BY <1>1, <1>2, <1>3 DEF RollbackStep

(* The steps of retry() and cancel() keep it. *)
LEMMA OwnerRetryCancel ==
    ASSUME TypeOK, UnsettledHasOwner, faulted \subseteq faulted',
           NEW c \in Calls, RetryStep(c) \/ CancelStep(c)
    PROVE  UnsettledHasOwner'
  <1>0. \A l : Goto(c, l) => pc'[c] = l
    BY DEF Goto, TypeOK
  <1>1. CASE RetryLoad(c) \/ RetryAdmit(c) \/ ResetAllSteps(c) \/ CancelLoad(c)
    <2>1. /\ pc[c] \in {"rtLoad", "rtLoadSteps", "rtResetAll", "cnLoad"}
          /\ status' = status
          /\ \A d \in Calls \ {c} : seen'[d] = seen[d]
          /\ \E l : Goto(c, l)
      BY <1>1 DEF RetryLoad, RetryAdmit, ResetAllSteps, CancelLoad, dbVars, TypeOK
    <2> QED BY <2>1, OwnerMove DEF Drives, RollingBack, RollbackPc
  <1>2. CASE ResetFailedStep(c)
    <2>1. /\ pc[c] = "rtResetFailed" /\ status' = status /\ seen' = seen
          /\ \E l \in {"load", "rtResetFailed"} : Goto(c, l)
      BY <1>2 DEF ResetFailedStep
    <2> QED BY <1>0, <2>1, OwnerMove DEF Drives, RollingBack, RollbackPc
  <1>3. CASE Resume(c)
    <2>1. status' = "running" /\ pc'[c] \in {"load", "rtResetFailed"}
      BY <1>0, <1>3 DEF Resume
    <2> QED BY <2>1, OwnerSet DEF Drives
  <1>4. CASE Restart(c)
    <2>1. status' = "pending" /\ pc'[c] = "load"
      BY <1>0, <1>4 DEF Restart
    <2> QED BY <2>1, OwnerSet DEF Drives
  <1>5. CASE CancelMark(c)
    BY <1>5, OwnerSet DEF CancelMark, Active
  <1> QED BY <1>1, <1>2, <1>3, <1>4, <1>5 DEF RetryStep, CancelStep

(* Every step keeps UnsettledHasOwner. *)
LEMMA OwnerStep ==
    TypeOK /\ ThrownMeansFault /\ UnsettledHasOwner /\ [Next]_vars => UnsettledHasOwner'
  <1> SUFFICES ASSUME TypeOK, ThrownMeansFault, UnsettledHasOwner, [Next]_vars
               PROVE  UnsettledHasOwner'
    OBVIOUS
  <1>0. faulted \subseteq faulted'
    BY FaultsGrow
  <1>1. CASE Start
    <2>1. Starter \in Calls /\ status' = "pending" /\ pc'[Starter] = "load"
      BY <1>1 DEF Start, Goto, TypeOK, Calls
    <2> QED BY <2>1, OwnerSet DEF Drives
  <1>2. ASSUME NEW c \in Calls, Retry(c) \/ Cancel(c) PROVE UnsettledHasOwner'
    <2>1. pc[c] = "idle" /\ status' = status /\ seen' = seen /\ \E l : Goto(c, l)
      BY <1>2 DEF Retry, Cancel, dbVars
    <2> QED BY <1>0, <2>1, OwnerMove DEF Drives, RollingBack, RollbackPc
  <1>3. ASSUME NEW sv \in Watched, Subscribe(sv) \/ Unsubscribe(sv) PROVE UnsettledHasOwner'
    BY <1>0, <1>3, OwnerFrame DEF Subscribe, Unsubscribe, callVars, dbVars
  <1>4. ASSUME NEW c \in Calls, CallStep(c) PROVE UnsettledHasOwner'
    BY <1>0, <1>4, OwnerLoop, OwnerRollback, OwnerRetryCancel DEF CallStep
  <1>5. ASSUME NEW c \in Calls, NEW s \in Step, MemberStep(c, s) \/ StoreFails(c, s)
        PROVE  UnsettledHasOwner'
    BY <1>0, <1>5, OwnerFrame DEF MemberStep, MarkStep, RunJob, SaveOutput, RecordFailure,
       StoreFails, dbVars
  <1>6. ASSUME NEW c \in Calls, CompensateFails(c) PROVE UnsettledHasOwner'
    BY <1>0, <1>6, OwnerFrame DEF CompensateFails, dbVars
  <1>7. CASE \/ \E c \in Calls : StatementFails(c) \/ MarkCompensatedFails(c)
             \/ \E c \in Calls, s \in Step : StepStatementFails(c, s)
             \/ \E sv \in Servers : Crash(sv)
    <2>1. "db" \in faulted' \/ "crash" \in faulted'
      BY <1>7 DEF StatementFails, MarkCompensatedFails, StepStatementFails, Crash, Inject
    <2> QED BY <2>1, OwnerLost
  <1>8. CASE UNCHANGED vars
    BY <1>0, <1>8, OwnerFrame DEF vars, dbVars, callVars
  <1> QED BY <1>1, <1>2, <1>3, <1>4, <1>5, <1>6, <1>7, <1>8 DEF Next, Environment, Calls

(* No call ever leaves an execution pending, running, compensating or waiting *)
(* for its rollback with nobody at work on it, unless a server crashed or a   *)
(* statement failed: for every number of racing start, retry and cancel calls.*)
THEOREM UnsettledAlwaysHasOwner == Spec => []UnsettledHasOwner
  <1> DEFINE IInv == TypeOK /\ ThrownMeansFault /\ UnsettledHasOwner
  <1>1. Init => IInv
    BY TypeInit DEF Init, ThrownMeansFault, UnsettledHasOwner, NoMembers, Active
  <1>2. IInv /\ [Next]_vars => IInv'
    BY TypeStep, ThrownStep, OwnerStep
  <1>3. IInv => UnsettledHasOwner
    OBVIOUS
  <1> QED BY <1>1, <1>2, <1>3, PTL DEF Spec

-----------------------------------------------------------------------------
(* Patient clients: one call at work at a time                                *)

(* A call at work: between two awaits, or a job it launched still in flight. *)
AtWork(c) ==
    \/ pc[c] \notin {"idle", "done"}
    \/ \E s \in Step : mem[c][s] \in MemberBusy

(* Patient clients: one call at work at a time, and none before start(). *)
Alone == \A c, d \in Calls : AtWork(c) /\ AtWork(d) => c = d

NotStarted ==
    /\ pc[Starter] = "idle" => status = "none"
    /\ status = "none" =>
          /\ \A c \in Calls : pc[c] = "idle" /\ mem[c] = NoMembers
          /\ step = AllPending
          /\ effects = [s \in Step |-> 0]

(* The members of a batch exist while their call waits for them, or after it  *)
(* was rejected.                                                              *)
Placed == \A c \in Calls : \A s \in Step : mem[c][s] # "none" => pc[c] \in {"batch", "done"}

(* What the execution row says, by where the call at work is. *)
StatusOf(c) ==
    /\ pc[c] \in {"loadSteps", "rtLoadSteps"} => seen[c] = status
    /\ pc[c] \in {"load", "loadSteps", "cnMark"} => status \in Active
    /\ pc[c] = "markRunning" => status = "pending"
    /\ pc[c] \in {"rtResetFailed", "setCurrent", "batch", "complete", "failExec"} =>
          status = "running"
    /\ (\E s \in Step : mem[c][s] \in MemberBusy) => status = "running"
    /\ pc[c] \in {"rtResume", "rtResetAll", "rtRestart"} => status \in Retryable
    /\ pc[c] \in {"rtResume", "rtResetFailed"} => Resumable
    /\ pc[c] \in {"rtResetAll", "rtRestart"} => ~Resumable
    /\ pc[c] = "rbMark" => status = "cancelled" \/ (status = "failed" /\ RollbackEnabled)
    /\ pc[c] \in {"rbLoad", "compensate", "markCompensated"} => status = "compensating"

(* The step rows a call knows are the rows there are. *)
RowsOf(c) ==
    /\ pc[c] \in {"markRunning", "setCurrent", "rtResume"} => rows[c] = step
    /\ pc[c] = "rtResetFailed" => \A s \in todo[c] : step[s] \in Failed
    /\ pc[c] \in {"compensate", "markCompensated"} => \A s \in todo[c] : step[s] = "completed"
    /\ pc[c] = "rtRestart" => step = AllPending
    /\ \A s \in Step : mem[c][s] = "mark" => step[s] = "pending"
    /\ \A s \in Step : mem[c][s] \in {"run", "save", "fail"} => step[s] = "running"

Solo == Alone /\ NotStarted /\ Placed /\ \A c \in Calls : StatusOf(c) /\ RowsOf(c)

(* A step of the call at work leaves the calls that are not alone with it. *)
LEMMA Bystanders ==
    ASSUME Alone, NEW c \in Calls, AtWork(c),
           \A d \in Calls \ {c} : pc'[d] = pc[d] /\ mem'[d] = mem[d]
    PROVE  /\ Alone'
           /\ \A d \in Calls \ {c} : ~AtWork(d) /\ ~AtWork(d)'
  <1>1. \A d \in Calls \ {c} : ~AtWork(d)
    BY DEF Alone
  <1>2. \A d \in Calls \ {c} : ~AtWork(d)'
    BY <1>1 DEF AtWork
  <1> QED BY <1>1, <1>2 DEF Alone

(* What is said of a call at work holds of any other. *)
LEMMA OffWork ==
    ASSUME NEW d \in Calls, ~AtWork(d) PROVE StatusOf(d) /\ RowsOf(d)
  BY DEF AtWork, StatusOf, RowsOf, MemberBusy

(* The same after a step. *)
LEMMA OffWorkNext ==
    ASSUME NEW d \in Calls, ~AtWork(d)' PROVE StatusOf(d)' /\ RowsOf(d)'
  BY DEF AtWork, StatusOf, RowsOf, MemberBusy

(* An execution a call is at work on has been started. *)
LEMMA Started ==
    ASSUME NotStarted, NEW c \in Calls, AtWork(c) PROVE status # "none" /\ pc[Starter] # "idle"
  BY DEF NotStarted, AtWork, NoMembers, MemberBusy

(* The step of the call at work keeps Solo if it keeps what Solo says of it. *)
LEMMA SoloMove ==
    ASSUME Solo, NEW c \in Calls, AtWork(c),
           \A d \in Calls \ {c} : pc'[d] = pc[d] /\ mem'[d] = mem[d],
           pc'[c] # "idle", status' # "none",
           \A s \in Step : mem'[c][s] # "none" => pc'[c] \in {"batch", "done"},
           StatusOf(c)', RowsOf(c)'
    PROVE  Solo'
  <1>1. Alone' /\ \A d \in Calls \ {c} : ~AtWork(d)'
    BY Bystanders DEF Solo
  <1>2. NotStarted'
    <2>1. Starter \in Calls
      BY DEF Calls
    <2>2. pc[Starter] # "idle"
      BY Started DEF Solo
    <2>3. pc'[Starter] # "idle"
      BY <2>1, <2>2
    <2> QED BY <2>3 DEF NotStarted
  <1>3. Placed'
    BY DEF Solo, Placed
  <1>4. ASSUME NEW d \in Calls PROVE StatusOf(d)' /\ RowsOf(d)'
    <2>1. CASE d = c
      BY <2>1
    <2>2. CASE d # c
      BY <1>1, <2>2, OffWorkNext
    <2> QED BY <2>1, <2>2
  <1> QED BY <1>1, <1>2, <1>3, <1>4 DEF Solo

(* The same for a call that is not waiting for a batch, and so has no member. *)
LEMMA SoloGoto ==
    ASSUME TypeOK, Solo, NEW c \in Calls, NEW l, Goto(c, l), mem' = mem,
           pc[c] \notin {"idle", "done", "batch"}, l \notin {"idle", "batch"},
           status' # "none",
           l \in {"markRunning", "setCurrent", "rtResume"} => rows'[c] = step',
           l = "rtResetFailed" => \A s \in todo'[c] : step'[s] \in Failed,
           l \in {"compensate", "markCompensated"} => \A s \in todo'[c] : step'[s] = "completed",
           l = "rtRestart" => step' = AllPending,
           /\ l \in {"loadSteps", "rtLoadSteps"} => seen'[c] = status'
           /\ l \in {"load", "loadSteps", "cnMark"} => status' \in Active
           /\ l = "markRunning" => status' = "pending"
           /\ l \in {"rtResetFailed", "setCurrent", "complete", "failExec"} =>
                 status' = "running"
           /\ l \in {"rtResume", "rtResetAll", "rtRestart"} => status' \in Retryable
           /\ l \in {"rtResume", "rtResetFailed"} => Resumable
           /\ l \in {"rtResetAll", "rtRestart"} => ~Resumable
           /\ l = "rbMark" => status' = "cancelled" \/ (status' = "failed" /\ RollbackEnabled)
           /\ l \in {"rbLoad", "compensate", "markCompensated"} => status' = "compensating"
    PROVE  Solo'
  <1>1. AtWork(c)
    BY DEF AtWork
  <1>2. pc'[c] = l /\ \A d \in Calls \ {c} : pc'[d] = pc[d] /\ mem'[d] = mem[d]
    BY DEF Goto, TypeOK
  <1>3. \A s \in Step : mem'[c][s] = "none"
    BY DEF Solo, Placed
  <1>4. StatusOf(c)'
    BY <1>2, <1>3 DEF StatusOf, MemberBusy
  <1>5. RowsOf(c)'
    BY <1>2, <1>3 DEF RowsOf
  <1> QED BY <1>1, <1>2, <1>3, <1>4, <1>5, SoloMove

(* Ending a call that is not waiting for a batch. *)
LEMMA SoloDone ==
    ASSUME TypeOK, Solo, NEW c \in Calls, Goto(c, "done"), mem' = mem,
           pc[c] \notin {"idle", "done", "batch"}, status' # "none"
    PROVE  Solo'
  BY SoloGoto

(* The steps of the loop keep Solo. *)
LEMMA SoloLoop ==
    ASSUME TypeOK, Solo, NEW c \in Calls, LoopStep(c) PROVE Solo'
  <1>0. AtWork(c) /\ status # "none" /\ StatusOf(c) /\ RowsOf(c)
    <2>1. pc[c] \in {"load", "loadSteps", "markRunning", "setCurrent", "batch", "complete",
                     "failExec"}
      BY DEF LoopStep, LoadExecution, LoadSteps, MarkRunning, StartBatch, JoinBatch,
         RejectBatch, Complete, FailExecution
    <2>2. AtWork(c)
      BY <2>1 DEF AtWork
    <2> QED BY <2>2, Started DEF Solo
  <1>1. CASE LoadExecution(c)
    <2>1. /\ pc[c] = "load" /\ Goto(c, "loadSteps") /\ mem' = mem
          /\ status' = status /\ seen'[c] = status
      BY <1>1 DEF LoadExecution, dbVars, TypeOK
    <2>2. status \in Active
      BY <1>0, <2>1 DEF StatusOf
    <2> QED BY <1>0, <2>1, <2>2, SoloGoto
  <1>2. CASE LoadSteps(c)
    <2>1. /\ pc[c] = "loadSteps" /\ seen[c] = status /\ status' = status /\ mem' = mem
          /\ rows'[c] = step /\ step' = step
      BY <1>0, <1>2 DEF LoadSteps, StatusOf, dbVars, TypeOK
    <2>2. \/ Goto(c, "done")
          \/ status = "pending" /\ Goto(c, "markRunning")
          \/ status = "running" /\ (Goto(c, "complete") \/ Goto(c, "setCurrent"))
      BY <1>2, <2>1 DEF LoadSteps, Finish, NextMove
    <2> QED BY <1>0, <2>1, <2>2, SoloGoto, SoloDone
  <1>3. CASE MarkRunning(c)
    <2>1. /\ pc[c] = "markRunning" /\ status' = "running" /\ mem' = mem
          /\ rows' = rows /\ step' = step /\ rows[c] = step
      BY <1>0, <1>3 DEF MarkRunning, RowsOf
    <2>2. Goto(c, "complete") \/ Goto(c, "setCurrent")
      BY <1>3 DEF MarkRunning, NextMove
    <2> QED BY <2>1, <2>2, SoloGoto
  <1>4. CASE StartBatch(c)
    <2>1. /\ pc[c] = "setCurrent" /\ status' = status /\ status = "running"
          /\ rows[c] = step /\ step' = step
      BY <1>0, <1>4 DEF StartBatch, StatusOf, RowsOf
    <2>2. /\ pc'[c] = "batch" /\ \A d \in Calls \ {c} : pc'[d] = pc[d]
      BY <1>4 DEF StartBatch, Goto, TypeOK
    <2>3. /\ \A d \in Calls \ {c} : mem'[d] = mem[d]
          /\ \A t \in Step : /\ mem'[c][t] \in {"none", "mark", "ok"}
                             /\ mem'[c][t] = "mark" => rows[c][t] = "pending"
      BY <1>4 DEF StartBatch, TypeOK
    <2>4. StatusOf(c)'
      BY <2>1, <2>2 DEF StatusOf
    <2>5. RowsOf(c)'
      BY <2>1, <2>2, <2>3 DEF RowsOf
    <2> QED BY <1>0, <2>1, <2>2, <2>3, <2>4, <2>5, SoloMove
  <1>5. CASE JoinBatch(c)
    <2>1. /\ pc[c] = "batch" /\ status' = status /\ status = "running"
      BY <1>0, <1>5 DEF JoinBatch, StatusOf, dbVars
    <2>2. /\ pc'[c] \in {"failExec", "load"} /\ \A d \in Calls \ {c} : pc'[d] = pc[d]
      BY <1>5 DEF JoinBatch, Goto, TypeOK
    <2>3. /\ \A d \in Calls \ {c} : mem'[d] = mem[d]
          /\ \A t \in Step : mem'[c][t] = "none"
      BY <1>5 DEF JoinBatch, NoMembers, TypeOK
    <2>4. StatusOf(c)'
      BY <2>1, <2>2, <2>3 DEF StatusOf, MemberBusy, Active
    <2>5. RowsOf(c)'
      BY <2>2, <2>3 DEF RowsOf
    <2> QED BY <1>0, <2>1, <2>2, <2>3, <2>4, <2>5, SoloMove
  <1>6. CASE RejectBatch(c)
    <2>1. /\ pc[c] = "batch" /\ status' = status /\ status = "running"
          /\ step' = step /\ mem' = mem
      BY <1>0, <1>6 DEF RejectBatch, StatusOf, dbVars
    <2>2. /\ pc'[c] = "done" /\ \A d \in Calls \ {c} : pc'[d] = pc[d]
      BY <1>6 DEF RejectBatch, Finish, Goto, TypeOK
    <2>3. StatusOf(c)'
      BY <2>1, <2>2 DEF StatusOf
    <2>4. RowsOf(c)'
      BY <1>0, <2>1, <2>2 DEF RowsOf
    <2> QED BY <1>0, <2>1, <2>2, <2>3, <2>4, SoloMove
  <1>7. CASE Complete(c)
    BY <1>7, SoloDone DEF Complete, Finish
  <1>8. CASE FailExecution(c)
    <2>1. pc[c] = "failExec" /\ status' = "failed" /\ mem' = mem
      BY <1>8 DEF FailExecution
    <2>2. Goto(c, "done") \/ (RollbackEnabled /\ Goto(c, "rbMark"))
      BY <1>8 DEF FailExecution, Finish
    <2> QED BY <2>1, <2>2, SoloGoto, SoloDone
  <1> QED BY <1>1, <1>2, <1>3, <1>4, <1>5, <1>6, <1>7, <1>8 DEF LoopStep

(* The steps of a rollback keep Solo. *)
LEMMA SoloRollback ==
    ASSUME TypeOK, Solo, NEW c \in Calls, RollbackStep(c) PROVE Solo'
  <1>0. pc[c] \in RollbackPc /\ mem' = mem /\ StatusOf(c) /\ RowsOf(c)
    BY DEF RollbackStep, BeginRollback, LoadCompleted, Compensate, MarkCompensated,
       EndRollback, RollbackPc, Solo
  <1>1. CASE BeginRollback(c)
    BY <1>0, <1>1, SoloGoto DEF BeginRollback, RollbackPc
  <1>2. CASE EndRollback(c)
    BY <1>0, <1>2, SoloDone DEF EndRollback, Finish, RollbackPc
  <1>3. CASE LoadCompleted(c) \/ Compensate(c) \/ MarkCompensated(c)
    <2>1. /\ pc[c] \in {"rbLoad", "compensate", "markCompensated"} /\ status' = status
          /\ Goto(c, "compensate") \/ Goto(c, "markCompensated")
      BY <1>3 DEF LoadCompleted, Compensate, MarkCompensated, dbVars
    <2>2. status = "compensating"
      BY <1>0, <2>1 DEF StatusOf
    <2>3. \A s \in todo'[c] : step'[s] = "completed"
      <3>1. CASE LoadCompleted(c)
        BY <3>1 DEF LoadCompleted, TypeOK, dbVars
      <3>2. CASE Compensate(c)
        BY <1>0, <3>2 DEF Compensate, RowsOf, dbVars
      <3>3. CASE MarkCompensated(c)
        BY <1>0, <3>3 DEF MarkCompensated, RowsOf, TypeOK
      <3> QED BY <1>3, <3>1, <3>2, <3>3
    <2> QED BY <1>0, <2>1, <2>2, <2>3, SoloGoto
  <1> QED BY <1>1, <1>2, <1>3 DEF RollbackStep

(* The steps of retry() and cancel() keep Solo. *)
LEMMA SoloRetryCancel ==
    ASSUME TypeOK, Solo, NEW c \in Calls, RetryStep(c) \/ CancelStep(c) PROVE Solo'
  <1>0. /\ pc[c] \in RetryPc \cup CancelPc /\ mem' = mem /\ status # "none"
        /\ StatusOf(c) /\ RowsOf(c)
        /\ pc[c] \notin {"idle", "done", "batch"}
    <2>1. pc[c] \in RetryPc \cup CancelPc
      BY DEF RetryStep, CancelStep, RetryLoad, RetryAdmit, Resume, ResetFailedStep,
         ResetAllSteps, Restart, CancelLoad, CancelMark, RetryPc, CancelPc
    <2>2. AtWork(c) /\ pc[c] \notin {"idle", "done", "batch"}
      BY <2>1 DEF AtWork, RetryPc, CancelPc
    <2>3. mem' = mem
      BY DEF RetryStep, CancelStep, RetryLoad, RetryAdmit, Resume, ResetFailedStep,
         ResetAllSteps, Restart, CancelLoad, CancelMark
    <2> QED BY <2>1, <2>2, <2>3, Started DEF Solo
  <1>1. CASE RetryLoad(c)
    <2>1. Goto(c, "rtLoadSteps") /\ status' = status /\ seen'[c] = status
      BY <1>1 DEF RetryLoad, dbVars, TypeOK
    <2> QED BY <1>0, <2>1, SoloGoto
  <1>2. CASE RetryAdmit(c)
    <2>1. /\ pc[c] = "rtLoadSteps" /\ status' = status /\ seen[c] = status
          /\ rows'[c] = step /\ step' = step
      BY <1>0, <1>2 DEF RetryAdmit, StatusOf, dbVars, TypeOK
    <2>2. \/ Goto(c, "done")
          \/ /\ status \in Retryable
             /\ (Resumable /\ Goto(c, "rtResume")) \/ (~Resumable /\ Goto(c, "rtResetAll"))
      BY <1>2, <2>1 DEF RetryAdmit
    <2> QED BY <1>0, <2>1, <2>2, SoloGoto, SoloDone
  <1>3. CASE Resume(c)
    <2>1. /\ pc[c] = "rtResume" /\ status' = "running" /\ Resumable /\ step' = step
          /\ \A s \in todo'[c] : step[s] \in Failed
      BY <1>0, <1>3 DEF Resume, StatusOf, RowsOf, TypeOK
    <2>2. Goto(c, "load") \/ Goto(c, "rtResetFailed")
      BY <1>3 DEF Resume
    <2> QED BY <1>0, <2>1, <2>2, SoloGoto DEF Active
  <1>4. CASE ResetFailedStep(c)
    <2>1. /\ pc[c] = "rtResetFailed" /\ status' = status /\ status = "running" /\ Resumable
          /\ \A s \in todo'[c] : step'[s] \in Failed
      BY <1>0, <1>4 DEF ResetFailedStep, StatusOf, RowsOf, TypeOK
    <2>2. Goto(c, "load") \/ Goto(c, "rtResetFailed")
      BY <1>4 DEF ResetFailedStep
    <2> QED BY <1>0, <2>1, <2>2, SoloGoto DEF Active
  <1>5. CASE ResetAllSteps(c)
    <2>1. pc[c] = "rtResetAll" /\ status' = status /\ status \in Retryable /\ ~Resumable
      BY <1>0, <1>5 DEF ResetAllSteps, StatusOf
    <2> QED BY <1>0, <1>5, <2>1, SoloGoto DEF ResetAllSteps
  <1>6. CASE Restart(c)
    BY <1>0, <1>6, SoloGoto DEF Restart, Active
  <1>7. CASE CancelLoad(c)
    <2>1. /\ pc[c] = "cnLoad" /\ status' = status
          /\ Goto(c, "done") \/ (status \in Active /\ Goto(c, "cnMark"))
      BY <1>7 DEF CancelLoad, dbVars
    <2> QED BY <1>0, <2>1, SoloGoto, SoloDone
  <1>8. CASE CancelMark(c)
    <2>1. status' = "cancelled" /\ (Goto(c, "done") \/ Goto(c, "rbMark"))
      BY <1>8 DEF CancelMark
    <2> QED BY <1>0, <1>8, <2>1, SoloGoto, SoloDone DEF CancelMark
  <1> QED BY <1>1, <1>2, <1>3, <1>4, <1>5, <1>6, <1>7, <1>8 DEF RetryStep, CancelStep

(* A member of a batch that moves on keeps Solo. *)
LEMMA SoloMember ==
    ASSUME TypeOK, Solo, NEW c \in Calls, NEW s \in Step, mem[c][s] \in MemberBusy,
           NEW l, MemberGoto(c, s, l), l # "mark",
           pc' = pc, status' = status,
           \A t \in Step \ {s} : step'[t] = step[t],
           l \in {"run", "save", "fail"} => step'[s] = "running"
    PROVE  Solo'
  <1>1. AtWork(c) /\ StatusOf(c) /\ RowsOf(c) /\ status = "running"
    BY DEF AtWork, Solo, StatusOf
  <1>2. pc[c] \in {"batch", "done"}
    BY DEF Solo, Placed, MemberBusy
  <1>3. /\ \A d \in Calls \ {c} : mem'[d] = mem[d]
        /\ mem'[c] = [mem[c] EXCEPT ![s] = l]
    BY DEF MemberGoto, TypeOK
  <1>4. mem'[c][s] = l /\ \A t \in Step \ {s} : mem'[c][t] = mem[c][t]
    BY <1>3 DEF TypeOK
  <1>5. StatusOf(c)'
    BY <1>1, <1>2 DEF StatusOf
  <1>6. RowsOf(c)'
    BY <1>1, <1>2, <1>4 DEF RowsOf
  <1> QED BY <1>1, <1>2, <1>3, <1>5, <1>6, SoloMove

(* Every step of a member, and every fault of one, keeps Solo. *)
LEMMA SoloMembers ==
    ASSUME TypeOK, Solo, NEW c \in Calls, NEW s \in Step,
           MemberStep(c, s) \/ StepStatementFails(c, s) \/ StoreFails(c, s)
    PROVE  Solo'
  <1>0. RowsOf(c)
    BY DEF Solo
  <1>1. CASE MarkStep(c, s)
    BY <1>1, SoloMember DEF MarkStep, TypeOK, MemberBusy
  <1>2. CASE SaveOutput(c, s)
    BY <1>2, SoloMember DEF SaveOutput, TypeOK, MemberBusy
  <1>3. CASE RecordFailure(c, s)
    <2>1. MemberGoto(c, s, "err") \/ MemberGoto(c, s, "blank")
      BY <1>3 DEF RecordFailure
    <2>2. /\ mem[c][s] \in MemberBusy /\ pc' = pc /\ status' = status
          /\ \A t \in Step \ {s} : step'[t] = step[t]
      BY <1>3 DEF RecordFailure, TypeOK, MemberBusy
    <2> QED BY <2>1, <2>2, SoloMember
  <1>4. CASE RunJob(c, s) \/ StepStatementFails(c, s) \/ StoreFails(c, s)
    <2>1. /\ mem[c][s] \in MemberBusy /\ pc' = pc /\ status' = status /\ step' = step
          /\ \/ MemberGoto(c, s, "threw")
             \/ /\ mem[c][s] \in {"run", "save"}
                /\ MemberGoto(c, s, "save") \/ MemberGoto(c, s, "fail")
      BY <1>4 DEF RunJob, StepStatementFails, StoreFails, dbVars, MemberBusy
    <2> QED BY <1>0, <2>1, SoloMember DEF RowsOf
  <1> QED BY <1>1, <1>2, <1>3, <1>4 DEF MemberStep

(* A crash ends the call at work or leaves it as it is. *)
LEMMA SoloCrash ==
    ASSUME TypeOK, Solo, NEW sv \in Servers, Crash(sv) PROVE Solo'
  <1>1. /\ status' = status /\ step' = step /\ seen' = seen /\ rows' = rows
        /\ todo' = todo /\ effects' = effects
    BY DEF Crash, dbVars
  <1>2. \A d \in Calls : Home[d] # sv => pc'[d] = pc[d] /\ mem'[d] = mem[d]
    BY DEF Crash
  <1>3. \A d \in Calls : Home[d] = sv =>
            pc'[d] \in {"idle", "done"} /\ \A s \in Step : mem'[d][s] = "none"
    BY DEF Crash, NoMembers
  <1>4. \A d \in Calls : Home[d] = sv => ~AtWork(d)'
    BY <1>3 DEF AtWork, MemberBusy
  <1>5. \A d \in Calls : Home[d] # sv => AtWork(d)' = AtWork(d)
    BY <1>2 DEF AtWork
  <1>6. Alone'
    BY <1>4, <1>5 DEF Solo, Alone
  <1>7. ASSUME NEW d \in Calls PROVE StatusOf(d)' /\ RowsOf(d)'
    <2>1. CASE Home[d] = sv
      BY <1>4, <2>1, OffWorkNext
    <2>2. CASE Home[d] # sv
      BY <1>1, <1>2, <2>2 DEF Solo, StatusOf, RowsOf
    <2> QED BY <2>1, <2>2
  <1>8. Placed'
    BY <1>2, <1>3 DEF Solo, Placed
  <1>9. NotStarted'
    <2>1. pc[Starter] # "idle" => pc'[Starter] # "idle"
      BY DEF Crash, Calls
    <2>2. status # "none"
      <3>1. PICK c \in Calls : AtWork(c)
        BY DEF Crash, AtWork
      <3> QED BY <3>1, Started DEF Solo
    <2> QED BY <1>1, <2>1, <2>2 DEF Solo, NotStarted
  <1> QED BY <1>6, <1>7, <1>8, <1>9 DEF Solo

(* A patient client calls when nothing is at work. *)
LEMMA SoloAccept ==
    ASSUME TypeOK, Solo, NEW c \in Calls, Quiet, pc[c] = "idle", status' # "none",
           mem' = mem, NEW l \in {"load", "rtLoad", "cnLoad", "done"}, Goto(c, l),
           l = "load" => status' \in Active,
           pc'[Starter] # "idle"
    PROVE  Solo'
  <1>1. pc'[c] = l /\ \A d \in Calls \ {c} : pc'[d] = pc[d]
    BY DEF Goto, TypeOK
  <1>2. \A d \in Calls \ {c} : ~AtWork(d)'
    BY <1>1 DEF Quiet, AtWork
  <1>3. \A s \in Step : mem[c][s] = "none"
    BY DEF Solo, Placed
  <1>4. StatusOf(c)' /\ RowsOf(c)'
    BY <1>1, <1>3 DEF StatusOf, RowsOf, MemberBusy
  <1>5. Alone'
    BY <1>2 DEF Alone
  <1>6. Placed'
    BY <1>1, <1>3 DEF Solo, Placed
  <1>7. NotStarted'
    BY DEF NotStarted
  <1>8. \A d \in Calls : StatusOf(d)' /\ RowsOf(d)'
    BY <1>2, <1>4, OffWorkNext
  <1> QED BY <1>5, <1>6, <1>7, <1>8 DEF Solo

(* Every step of patient clients keeps Solo. *)
LEMMA SoloStep ==
    ASSUME Patient PROVE TypeOK /\ Solo /\ [Next]_vars => Solo'
  <1> SUFFICES ASSUME TypeOK, Solo, [Next]_vars PROVE Solo'
    OBVIOUS
  <1>1. CASE Start
    <2>1. status = "none"
      BY <1>1 DEF Start, Solo, NotStarted
    <2>2. Quiet
      BY <2>1 DEF Solo, NotStarted, Quiet, NoMembers, MemberBusy
    <2>3. Starter \in Calls /\ pc'[Starter] = "load"
      BY <1>1 DEF Start, Goto, TypeOK, Calls
    <2> QED BY <1>1, <2>2, <2>3, SoloAccept DEF Start, Active
  <1>2. ASSUME NEW c \in Calls, Retry(c) \/ Cancel(c) PROVE Solo'
    <2>1. /\ Quiet /\ pc[c] = "idle" /\ status # "none" /\ status' = status /\ mem' = mem
          /\ Goto(c, "rtLoad") \/ Goto(c, "cnLoad") \/ Goto(c, "done")
      BY <1>2 DEF Retry, Cancel, ClientMayCall, dbVars
    <2>2. pc'[Starter] # "idle"
      BY <2>1 DEF Solo, NotStarted, Goto, TypeOK, Calls
    <2> QED BY <2>1, <2>2, SoloAccept
  <1>3. ASSUME NEW c \in Calls, CallStep(c) PROVE Solo'
    BY <1>3, SoloLoop, SoloRollback, SoloRetryCancel DEF CallStep
  <1>4. ASSUME NEW c \in Calls, NEW s \in Step,
               MemberStep(c, s) \/ StepStatementFails(c, s) \/ StoreFails(c, s)
        PROVE  Solo'
    BY <1>4, SoloMembers
  <1>5. ASSUME NEW c \in Calls,
               StatementFails(c) \/ CompensateFails(c) \/ MarkCompensatedFails(c)
        PROVE  Solo'
    <2>1. /\ pc[c] \notin {"idle", "done", "batch"} /\ status' = status /\ mem' = mem
      BY <1>5 DEF StatementFails, CompensateFails, MarkCompensatedFails, dbVars, RetryPc,
         CancelPc, LoopPc
    <2>2. status # "none" /\ StatusOf(c)
      BY <2>1, Started DEF AtWork, Solo
    <2>3. CASE StatementFails(c)
      <3>1. Goto(c, "done")
        BY <2>3 DEF StatementFails, Finish
      <3> QED BY <2>1, <2>2, <3>1, SoloDone
    <2>4. CASE CompensateFails(c) \/ MarkCompensatedFails(c)
      <3>1. pc[c] \in {"compensate", "markCompensated"} /\ Goto(c, "compensate")
        BY <2>4 DEF CompensateFails, MarkCompensatedFails, Goto, TypeOK
      <3>2. RowsOf(c) /\ step' = step /\ todo'[c] \subseteq todo[c]
        BY <2>4 DEF CompensateFails, MarkCompensatedFails, Solo, TypeOK, dbVars
      <3>3. \A s \in todo'[c] : step'[s] = "completed"
        BY <3>1, <3>2 DEF RowsOf
      <3> QED BY <2>1, <2>2, <3>1, <3>3, SoloGoto DEF StatusOf
    <2> QED BY <1>5, <2>3, <2>4
  <1>6. ASSUME NEW sv \in Servers, Crash(sv) PROVE Solo'
    BY <1>6, SoloCrash
  <1>7. CASE UNCHANGED vars \/ \E sv \in Watched : Subscribe(sv) \/ Unsubscribe(sv)
    BY <1>7 DEF vars, dbVars, historyVars, callVars, Subscribe, Unsubscribe, Solo, Alone,
       NotStarted, Placed, StatusOf, RowsOf, AtWork
  <1> QED BY <1>1, <1>2, <1>3, <1>4, <1>5, <1>6, <1>7 DEF Next, Environment, Calls

(* It holds before start(). *)
LEMMA SoloInit == Init => Solo
  BY DEF Init, Solo, Alone, NotStarted, Placed, StatusOf, RowsOf, AtWork, NoMembers,
     AllPending, MemberBusy, Calls

(* Patient clients keep to one call at work, its labels matching the rows.   *)
LEMMA SoloAlways == ASSUME Patient PROVE Spec => [](TypeOK /\ Solo)
  <1>1. Init => TypeOK /\ Solo
    BY TypeInit, SoloInit
  <1>2. TypeOK /\ Solo /\ [Next]_vars => (TypeOK /\ Solo)'
    BY TypeStep, SoloStep
  <1> QED BY <1>1, <1>2, PTL DEF Spec

(* A rollback never races with a job of the execution, its own batch's or     *)
(* another's: for every workflow, resumable or not, whatever fails.           *)
THEOREM RollbackAlwaysAlone == ASSUME Patient PROVE Spec => []RollbackBarrier
  <1>1. Solo => RollbackBarrier
    <2> SUFFICES ASSUME Solo, NEW c \in Calls, NEW d \in Calls, NEW s \in Step,
                        RollingBack(c), mem[d][s] \in MemberBusy
                 PROVE  FALSE
      BY DEF RollbackBarrier
    <2>1. AtWork(c) /\ AtWork(d)
      BY DEF AtWork, RollingBack, RollbackPc
    <2>2. c = d
      BY <2>1 DEF Solo, Alone
    <2> QED BY <2>2 DEF Solo, Placed, RollingBack, RollbackPc, MemberBusy
  <1> QED BY <1>1, SoloAlways, PTL

-----------------------------------------------------------------------------
(* Compensation, when nothing fails: the work a step has done is its row,    *)
(* or the member about to write it, or the row a rollback is about to write. *)

CompletedNow == {s \in Compensable : step[s] = "completed"}
UndoneBy(c, s) == pc[c] = "markCompensated" /\ s \in todo[c] /\ IsLast(s, todo[c])

Account(s) ==
    effects[s] = IF \/ step[s] = "completed" /\ \A c \in Calls : ~UndoneBy(c, s)
                    \/ \E c \in Calls : mem[c][s] = "save"
                 THEN 1 ELSE 0

Balance ==
    /\ \A s \in Compensable : Account(s)
    /\ \A c \in Calls : pc[c] \in {"compensate", "markCompensated"} => todo[c] = CompletedNow
    /\ status = "compensated" => CompletedNow = {}

(* What a step of the call at work leaves to prove: its own part. *)
LEMMA BalanceMove ==
    ASSUME TypeOK, Solo, NEW c \in Calls, AtWork(c),
           \A d \in Calls \ {c} : pc'[d] = pc[d] /\ mem'[d] = mem[d],
           \A s \in Compensable :
               effects'[s] = IF \/ step'[s] = "completed" /\ ~UndoneBy(c, s)'
                                \/ mem'[c][s] = "save"
                             THEN 1 ELSE 0,
           pc'[c] \in {"compensate", "markCompensated"} => todo'[c] = CompletedNow',
           status' = "compensated" => CompletedNow' = {}
    PROVE  Balance'
  <1>1. \A d \in Calls \ {c} : ~AtWork(d)'
    BY Bystanders DEF Solo
  <1>2. \A d \in Calls \ {c} : /\ pc'[d] \notin {"compensate", "markCompensated"}
                               /\ \A s \in Step : mem'[d][s] # "save"
    BY <1>1 DEF AtWork, MemberBusy
  <1>3. \A s \in Compensable : Account(s)'
    BY <1>2, WorkflowAssumption DEF Account, UndoneBy
  <1>4. \A d \in Calls : pc'[d] \in {"compensate", "markCompensated"} => todo'[d] = CompletedNow'
    BY <1>2
  <1> QED BY <1>3, <1>4 DEF Balance

(* What the account says of the step of the call at work. *)
LEMMA BalanceNow ==
    ASSUME TypeOK, Solo, Balance, NEW c \in Calls, AtWork(c), NEW s \in Compensable
    PROVE  effects[s] = IF \/ step[s] = "completed" /\ ~UndoneBy(c, s)
                           \/ mem[c][s] = "save"
                        THEN 1 ELSE 0
  <1>1. \A d \in Calls \ {c} : pc[d] # "markCompensated" /\ mem[d][s] # "save"
    BY WorkflowAssumption DEF Solo, Alone, AtWork, MemberBusy
  <1> QED BY <1>1 DEF Balance, Account, UndoneBy

(* A call that moves on without touching the rows and the effects. *)
LEMMA BalanceGoto ==
    ASSUME TypeOK, Solo, Balance, NEW c \in Calls, NEW l, Goto(c, l), mem' = mem,
           pc[c] \notin {"idle", "done", "markCompensated"}, l # "markCompensated",
           step' = step, effects' = effects,
           l = "compensate" => todo'[c] = CompletedNow,
           status' = "compensated" => status = "compensated" \/ CompletedNow = {}
    PROVE  Balance'
  <1>1. AtWork(c)
    BY DEF AtWork
  <1>2. pc'[c] = l /\ \A d \in Calls \ {c} : pc'[d] = pc[d] /\ mem'[d] = mem[d]
    BY DEF Goto, TypeOK
  <1>3. \A s \in Compensable :
            effects'[s] = IF \/ step'[s] = "completed" /\ ~UndoneBy(c, s)'
                             \/ mem'[c][s] = "save"
                          THEN 1 ELSE 0
    BY <1>1, <1>2, BalanceNow DEF UndoneBy
  <1>4. CompletedNow' = CompletedNow
    BY DEF CompletedNow
  <1> QED BY <1>1, <1>2, <1>3, <1>4, BalanceMove DEF Balance

(* The steps of the loop keep the balance. *)
LEMMA BalanceLoop ==
    ASSUME TypeOK, Solo, Balance, NEW c \in Calls, LoopStep(c) PROVE Balance'
  <1>0. /\ pc[c] \in LoopPc /\ AtWork(c) /\ pc[c] \notin {"idle", "done", "markCompensated"}
        /\ StatusOf(c)
    BY DEF LoopStep, LoadExecution, LoadSteps, MarkRunning, StartBatch, JoinBatch,
       RejectBatch, Complete, FailExecution, LoopPc, AtWork, Solo
  <1>1. CASE LoadExecution(c) \/ LoadSteps(c) \/ MarkRunning(c) \/ RejectBatch(c)
             \/ Complete(c) \/ FailExecution(c)
    <2>1. /\ mem' = mem /\ step' = step /\ effects' = effects
          /\ status' = status \/ status' \in {"running", "completed", "failed"}
      BY <1>1 DEF LoadExecution, LoadSteps, MarkRunning, RejectBatch, Complete, FailExecution,
         dbVars, historyVars
    <2>2. \E l \in {"loadSteps", "markRunning", "complete", "setCurrent", "done", "rbMark"} :
             Goto(c, l)
      BY <1>1 DEF LoadExecution, LoadSteps, MarkRunning, RejectBatch, Complete, FailExecution,
         Finish, NextMove
    <2> QED BY <1>0, <2>1, <2>2, BalanceGoto
  <1>2. CASE StartBatch(c) \/ JoinBatch(c)
    <2>1. /\ step' = step /\ effects' = effects /\ status' = status
          /\ pc'[c] \in {"batch", "failExec", "load"}
          /\ \A d \in Calls \ {c} : pc'[d] = pc[d] /\ mem'[d] = mem[d]
      BY <1>2 DEF StartBatch, JoinBatch, Goto, TypeOK, dbVars, historyVars
    <2>2. \A s \in Step : mem[c][s] # "save" /\ mem'[c][s] # "save"
      <3>1. CASE StartBatch(c)
        BY <3>1, SMTT(60) DEF StartBatch, Solo, Placed, TypeOK
      <3>2. CASE JoinBatch(c)
        BY <3>2 DEF JoinBatch, NoMembers, TypeOK, Answers
      <3> QED BY <1>2, <3>1, <3>2
    <2>3. \A s \in Compensable :
            effects'[s] = IF \/ step'[s] = "completed" /\ ~UndoneBy(c, s)'
                             \/ mem'[c][s] = "save"
                          THEN 1 ELSE 0
      BY <1>0, <2>1, <2>2, BalanceNow, WorkflowAssumption DEF UndoneBy
    <2>4. CompletedNow' = CompletedNow
      BY <2>1 DEF CompletedNow
    <2> QED BY <1>0, <2>1, <2>3, <2>4, BalanceMove DEF Balance
  <1> QED BY <1>1, <1>2 DEF LoopStep

(* The steps of a rollback keep the balance. *)
LEMMA BalanceRollback ==
    ASSUME TypeOK, Solo, Balance, NEW c \in Calls, RollbackStep(c) PROVE Balance'
  <1>0. /\ pc[c] \in RollbackPc /\ pc[c] \notin {"idle", "done", "batch"} /\ AtWork(c)
        /\ mem' = mem /\ StatusOf(c) /\ \A s \in Step : mem[c][s] = "none"
    BY DEF RollbackStep, BeginRollback, LoadCompleted, Compensate, MarkCompensated,
       EndRollback, RollbackPc, AtWork, Solo, Placed
  <1>1. CASE BeginRollback(c)
    BY <1>0, <1>1, BalanceGoto DEF BeginRollback, historyVars
  <1>2. CASE LoadCompleted(c)
    <2>1. todo'[c] = CompletedNow
      BY <1>2 DEF LoadCompleted, CompletedNow, TypeOK
    <2> QED BY <1>0, <1>2, <2>1, BalanceGoto DEF LoadCompleted, dbVars, historyVars
  <1>3. CASE EndRollback(c)
    <2>1. CompletedNow = {}
      BY <1>3 DEF EndRollback, Balance
    <2> QED BY <1>0, <1>3, <2>1, BalanceGoto DEF EndRollback, Finish, historyVars
  <1>4. CASE Compensate(c)
    <2>1. PICK s \in todo[c] : /\ IsLast(s, todo[c])
                               /\ effects' = [effects EXCEPT ![s] = @ - 1]
      BY <1>4 DEF Compensate
    <2>2. /\ pc[c] = "compensate" /\ pc'[c] = "markCompensated"
          /\ \A d \in Calls \ {c} : pc'[d] = pc[d] /\ mem'[d] = mem[d]
          /\ step' = step /\ status' = status /\ todo' = todo
      BY <1>4 DEF Compensate, Goto, TypeOK, dbVars
    <2>3. todo[c] = CompletedNow /\ CompletedNow' = CompletedNow
      BY <2>2 DEF Balance, CompletedNow
    <2>4. ASSUME NEW t \in Compensable
          PROVE  effects'[t] = IF \/ step'[t] = "completed" /\ ~UndoneBy(c, t)'
                                  \/ mem'[c][t] = "save"
                               THEN 1 ELSE 0
      <3>1. t \in Step /\ s \in Step /\ s \in Compensable
        BY <2>3, WorkflowAssumption DEF CompletedNow
      <3>2. effects[t] = IF step[t] = "completed" THEN 1 ELSE 0
        BY <1>0, <2>2, <3>1, BalanceNow DEF UndoneBy
      <3>3. CASE t = s
        <4>1. step[s] = "completed" /\ UndoneBy(c, s)'
          BY <2>1, <2>2, <2>3 DEF CompletedNow, UndoneBy
        <4>2. effects'[s] = effects[s] - 1
          BY <2>1, <3>1 DEF TypeOK
        <4> QED BY <1>0, <3>1, <3>2, <3>3, <4>1, <4>2
      <3>4. CASE t # s
        <4>1. ~IsLast(t, todo[c]) \/ t \notin todo[c]
          BY <2>1, <2>3, <3>1, <3>4 DEF IsLast, Step, CompletedNow
        <4>2. effects'[t] = effects[t] /\ ~UndoneBy(c, t)'
          BY <2>1, <2>2, <3>1, <3>4, <4>1 DEF TypeOK, UndoneBy
        <4> QED BY <1>0, <2>2, <3>1, <3>2, <4>2
      <3> QED BY <3>3, <3>4
    <2> QED BY <1>0, <2>2, <2>3, <2>4, BalanceMove DEF Balance
  <1>5. CASE MarkCompensated(c)
    <2>1. PICK s \in todo[c] : /\ IsLast(s, todo[c])
                               /\ step' = [step EXCEPT ![s] = "compensated"]
                               /\ todo' = [todo EXCEPT ![c] = @ \ {s}]
      BY <1>5 DEF MarkCompensated
    <2>2. /\ pc[c] = "markCompensated" /\ pc'[c] = "compensate"
          /\ \A d \in Calls \ {c} : pc'[d] = pc[d] /\ mem'[d] = mem[d]
          /\ effects' = effects /\ status' = status
      BY <1>0, <1>5 DEF MarkCompensated, Goto, TypeOK, historyVars
    <2>3. todo[c] = CompletedNow /\ s \in Step
      BY <2>1, <2>2, WorkflowAssumption DEF Balance, CompletedNow
    <2>4. todo'[c] = CompletedNow'
      <3>1. step'[s] = "compensated" /\ \A t \in Step \ {s} : step'[t] = step[t]
        BY <2>1, <2>3 DEF TypeOK
      <3>2. CompletedNow' = CompletedNow \ {s}
        BY <3>1, WorkflowAssumption DEF CompletedNow
      <3> QED BY <2>1, <2>3, <3>2 DEF TypeOK
    <2>5. ASSUME NEW t \in Compensable
          PROVE  effects'[t] = IF \/ step'[t] = "completed" /\ ~UndoneBy(c, t)'
                                  \/ mem'[c][t] = "save"
                               THEN 1 ELSE 0
      <3>1. t \in Step
        BY WorkflowAssumption
      <3>2. effects[t] = IF step[t] = "completed" /\ ~UndoneBy(c, t) THEN 1 ELSE 0
        BY <1>0, <3>1, BalanceNow
      <3>3. ~UndoneBy(c, t)' /\ mem'[c][t] = "none"
        BY <1>0, <2>2, <3>1 DEF UndoneBy
      <3>4. CASE t = s
        <4>1. UndoneBy(c, s) /\ step'[s] = "compensated"
          BY <2>1, <2>2, <2>3 DEF UndoneBy, TypeOK
        <4> QED BY <2>2, <3>2, <3>3, <3>4, <4>1
      <3>5. CASE t # s
        <4>1. ~UndoneBy(c, t) /\ step'[t] = step[t]
          BY <2>1, <2>3, <3>1, <3>5 DEF UndoneBy, TypeOK, IsLast, Step
        <4> QED BY <2>2, <3>2, <3>3, <4>1
      <3> QED BY <3>4, <3>5
    <2>6. status' # "compensated"
      BY <1>0, <2>2 DEF StatusOf
    <2> QED BY <1>0, <2>2, <2>4, <2>5, <2>6, BalanceMove
  <1> QED BY <1>1, <1>2, <1>3, <1>4, <1>5 DEF RollbackStep

(* The rows a retry resets are not completed ones: those of a failure are     *)
(* compensated before anyone may retry, or stay when the workflow resumes.    *)
LEMMA BalanceReset ==
    ASSUME TypeOK, Solo, Balance, NEW c \in Calls, mem' = mem,
           pc[c] \in {"rtResetFailed", "rtResetAll"},
           NEW l \in {"load", "rtResetFailed", "rtRestart"}, Goto(c, l),
           effects' = effects, status' = status,
           \A s \in Compensable : \/ step[s] # "completed" /\ step'[s] # "completed"
                                  \/ step'[s] = step[s]
    PROVE  Balance'
  <1>1. AtWork(c) /\ pc[c] \notin {"markCompensated", "compensate"}
    BY DEF AtWork
  <1>2. /\ pc'[c] = l /\ pc'[c] \notin {"markCompensated", "compensate"}
        /\ \A d \in Calls \ {c} : pc'[d] = pc[d] /\ mem'[d] = mem[d]
    BY DEF Goto, TypeOK
  <1>3. \A s \in Compensable :
            effects'[s] = IF \/ step'[s] = "completed" /\ ~UndoneBy(c, s)'
                             \/ mem'[c][s] = "save"
                          THEN 1 ELSE 0
    BY <1>1, <1>2, BalanceNow DEF UndoneBy
  <1>4. CompletedNow' = CompletedNow
    BY DEF CompletedNow
  <1> QED BY <1>1, <1>2, <1>3, <1>4, BalanceMove DEF Balance

(* The steps of retry() and cancel() keep the balance. *)
LEMMA BalanceRetryCancel ==
    ASSUME TypeOK, Solo, Balance, UnsettledHasOwner, faulted = {}, RollbackEnabled,
           NEW c \in Calls, RetryStep(c) \/ CancelStep(c)
    PROVE  Balance'
  <1>0. StatusOf(c) /\ RowsOf(c)
    BY DEF Solo
  <1>1. CASE RetryLoad(c) \/ RetryAdmit(c) \/ Resume(c) \/ Restart(c) \/ CancelLoad(c)
             \/ CancelMark(c)
    <2>1. /\ mem' = mem /\ step' = step /\ effects' = effects
          /\ status' = status \/ status' \in {"running", "pending", "cancelled"}
          /\ pc[c] \notin {"idle", "done", "markCompensated"}
      BY <1>1 DEF RetryLoad, RetryAdmit, Resume, Restart, CancelLoad, CancelMark, dbVars,
         historyVars
    <2>2. \E l \in {"rtLoadSteps", "done", "rtResume", "rtResetAll", "load", "rtResetFailed",
                    "cnMark", "rbMark"} : Goto(c, l)
      BY <1>1 DEF RetryLoad, RetryAdmit, Resume, Restart, CancelLoad, CancelMark
    <2> QED BY <2>1, <2>2, BalanceGoto
  <1>2. CASE ResetFailedStep(c)
    <2>1. PICK s \in todo[c] : step' = [step EXCEPT ![s] = "pending"]
      BY <1>2 DEF ResetFailedStep
    <2>2. /\ pc[c] = "rtResetFailed" /\ mem' = mem /\ effects' = effects /\ status' = status
          /\ Goto(c, "load") \/ Goto(c, "rtResetFailed")
      BY <1>2 DEF ResetFailedStep, historyVars
    <2>3. step[s] \in Failed
      BY <1>0, <2>2 DEF RowsOf
    <2>4. \A t \in Compensable : \/ step[t] # "completed" /\ step'[t] # "completed"
                                 \/ step'[t] = step[t]
      BY <2>1, <2>3, WorkflowAssumption DEF TypeOK, Failed
    <2> QED BY <2>2, <2>4, BalanceReset
  <1>3. CASE ResetAllSteps(c)
    <2>1. /\ pc[c] = "rtResetAll" /\ mem' = mem /\ effects' = effects /\ status' = status
          /\ Goto(c, "rtRestart") /\ step' = AllPending
      BY <1>3 DEF ResetAllSteps, historyVars
    <2>2. status \in {"failed", "compensated"} /\ RollbackEnabled
      BY <1>0, <2>1 DEF StatusOf, Retryable
    <2>3. status # "failed"
      <3>1. SUFFICES ASSUME status = "failed" PROVE FALSE
        OBVIOUS
      <3>2. PICK d \in Calls : pc[d] = "rbMark"
        BY <2>2, <3>1 DEF UnsettledHasOwner
      <3>3. AtWork(c) /\ AtWork(d)
        BY <2>1, <3>2 DEF AtWork
      <3> QED BY <2>1, <3>2, <3>3 DEF Solo, Alone
    <2>4. CompletedNow = {}
      BY <2>2, <2>3 DEF Balance
    <2>5. \A t \in Compensable : step[t] # "completed" /\ step'[t] # "completed"
      BY <2>1, <2>4, WorkflowAssumption DEF CompletedNow, AllPending
    <2> QED BY <2>1, <2>5, BalanceReset
  <1> QED BY <1>1, <1>2, <1>3 DEF RetryStep, CancelStep

(* A member that runs adds an effect, one that saves turns it into its row. *)
LEMMA BalanceMember ==
    ASSUME TypeOK, Solo, Balance, NEW c \in Calls, NEW s \in Step, MemberStep(c, s)
    PROVE  Balance'
  <1>1. /\ mem[c][s] \in MemberBusy /\ pc' = pc /\ status' = status
        /\ \A t \in Step \ {s} : step'[t] = step[t] /\ effects'[t] = effects[t]
    BY DEF MemberStep, MarkStep, RunJob, SaveOutput, RecordFailure, MemberBusy, TypeOK, dbVars,
       historyVars
  <1>2. AtWork(c) /\ status = "running" /\ RowsOf(c) /\ pc[c] \in {"batch", "done"}
    BY <1>1 DEF AtWork, Solo, StatusOf, Placed, MemberBusy
  <1>3. PICK l \in MemberPc : MemberGoto(c, s, l)
    BY Labels DEF MemberStep, MarkStep, RunJob, SaveOutput, RecordFailure
  <1>4. \A d \in Calls \ {c} : mem'[d] = mem[d]
    BY <1>3 DEF MemberGoto, TypeOK
  <1>5. mem'[c][s] = l /\ \A t \in Step \ {s} : mem'[c][t] = mem[c][t]
    <2>1. mem'[c] = [mem[c] EXCEPT ![s] = l]
      BY <1>3 DEF MemberGoto, TypeOK
    <2> QED BY <2>1 DEF TypeOK
  <1>6. \A t \in Compensable : t \in Step /\ ~UndoneBy(c, t) /\ ~UndoneBy(c, t)'
    BY <1>1, <1>2, WorkflowAssumption DEF UndoneBy
  <1>7. ASSUME s \in Compensable
        PROVE  effects'[s] = IF step'[s] = "completed" \/ mem'[c][s] = "save" THEN 1 ELSE 0
    <2>1. effects[s] = IF step[s] = "completed" \/ mem[c][s] = "save" THEN 1 ELSE 0
      BY <1>2, <1>6, <1>7, BalanceNow
    <2>2. CASE MarkStep(c, s)
      <3>1. /\ mem[c][s] = "mark" /\ mem'[c][s] = "run" /\ effects' = effects
            /\ step'[s] = "running"
        BY <1>5, <2>2 DEF MarkStep, MemberGoto, TypeOK, historyVars
      <3> QED BY <1>2, <2>1, <3>1 DEF RowsOf
    <2>3. CASE RunJob(c, s)
      <3>1. mem[c][s] = "run" /\ step[s] = "running" /\ step' = step
        BY <1>2, <2>3 DEF RunJob, RowsOf, dbVars
      <3>2. \/ effects'[s] = effects[s] + 1 /\ mem'[c][s] = "save"
            \/ effects'[s] = effects[s] /\ mem'[c][s] = "fail"
        BY <2>3 DEF RunJob, MemberGoto, TypeOK
      <3> QED BY <2>1, <3>1, <3>2
    <2>4. CASE SaveOutput(c, s)
      BY <2>1, <2>4 DEF SaveOutput, TypeOK, historyVars
    <2>5. CASE RecordFailure(c, s)
      <3>1. /\ mem[c][s] = "fail" /\ step[s] = "running" /\ effects' = effects
            /\ step'[s] \in {"failed", "blank"} /\ mem'[c][s] \in {"err", "blank"}
        BY <1>2, <2>5 DEF RecordFailure, RowsOf, MemberGoto, TypeOK, historyVars
      <3> QED BY <2>1, <3>1
    <2> QED BY <2>2, <2>3, <2>4, <2>5 DEF MemberStep
  <1>8. \A t \in Compensable :
            effects'[t] = IF \/ step'[t] = "completed" /\ ~UndoneBy(c, t)'
                             \/ mem'[c][t] = "save"
                          THEN 1 ELSE 0
    <2> SUFFICES ASSUME NEW t \in Compensable, t # s
                 PROVE  effects'[t] = IF step'[t] = "completed" \/ mem'[c][t] = "save"
                                      THEN 1 ELSE 0
      BY <1>6, <1>7
    <2>1. effects[t] = IF step[t] = "completed" \/ mem[c][t] = "save" THEN 1 ELSE 0
      BY <1>2, <1>6, BalanceNow
    <2> QED BY <1>1, <1>5, <1>6, <2>1
  <1> QED BY <1>1, <1>2, <1>4, <1>8, BalanceMove

(* Every step of patient clients that meets no fault keeps the balance. *)
LEMMA BalanceStep ==
    ASSUME Patient, RollbackEnabled, TypeOK, Solo, UnsettledHasOwner,
           faulted = {} => Balance, [Next]_vars
    PROVE  faulted' = {} => Balance'
  <1> SUFFICES ASSUME faulted' = {} PROVE Balance'
    OBVIOUS
  <1>0. faulted = {} /\ Balance
    BY FaultsGrow
  <1>1. CASE Start
    <2>1. /\ status = "none" /\ step' = step /\ status' = "pending" /\ mem' = mem
          /\ effects' = effects
      BY <1>1 DEF Start, Solo, NotStarted, historyVars
    <2>2. /\ effects = [s \in Step |-> 0] /\ step = AllPending
          /\ \A d \in Calls : mem[d] = NoMembers /\ pc[d] = "idle"
      BY <2>1 DEF Solo, NotStarted
    <2>3. \A d \in Calls : pc'[d] \in {"idle", "load"}
      BY <1>1, <2>2 DEF Start, Goto, TypeOK
    <2>4. \A s \in Compensable : Account(s)'
      BY <2>1, <2>2, WorkflowAssumption DEF Account, AllPending, NoMembers
    <2> QED BY <2>1, <2>3, <2>4 DEF Balance
  <1>2. ASSUME NEW c \in Calls, Retry(c) \/ Cancel(c) PROVE Balance'
    <2>1. /\ step' = step /\ status' = status /\ mem' = mem /\ effects' = effects
          /\ todo' = todo /\ \A d \in Calls : pc[d] \in {"idle", "done"}
          /\ \E l \in {"done", "rtLoad", "cnLoad"} : Goto(c, l)
      BY <1>2 DEF Retry, Cancel, ClientMayCall, Quiet, dbVars, historyVars
    <2>2. \A d \in Calls : pc'[d] \in {"idle", "done", "rtLoad", "cnLoad"}
      BY <2>1 DEF Goto, TypeOK
    <2>3. \A s \in Compensable : Account(s)'
      BY <1>0, <2>1, <2>2 DEF Balance, Account, UndoneBy
    <2> QED BY <1>0, <2>1, <2>2, <2>3 DEF Balance, CompletedNow
  <1>3. ASSUME NEW c \in Calls, CallStep(c) PROVE Balance'
    BY <1>0, <1>3, BalanceLoop, BalanceRollback, BalanceRetryCancel DEF CallStep
  <1>4. ASSUME NEW c \in Calls, NEW s \in Step, MemberStep(c, s) PROVE Balance'
    BY <1>0, <1>4, BalanceMember
  <1>5. CASE Environment
    BY <1>5 DEF Environment, StatementFails, CompensateFails, MarkCompensatedFails,
       StepStatementFails, StoreFails, Crash, Inject
  <1>6. CASE UNCHANGED vars \/ \E sv \in Watched : Subscribe(sv) \/ Unsubscribe(sv)
    BY <1>0, <1>6 DEF vars, dbVars, historyVars, callVars, Subscribe, Unsubscribe, Balance,
       Account, UndoneBy, CompletedNow
  <1> QED BY <1>1, <1>2, <1>3, <1>4, <1>5, <1>6 DEF Next, Calls

(* Where no failure is rolled back, nothing is: a patient client's cancel()   *)
(* comes after the execution has settled.                                     *)
Dormant ==
    /\ \A c \in Calls : pc[c] \notin RollbackPc \cup {"cnMark"}
    /\ status # "compensated"

(* Every step that meets no fault keeps it so. *)
LEMMA DormantStep ==
    ASSUME Patient, ~RollbackEnabled, TypeOK, Solo, UnsettledHasOwner,
           faulted = {} => Dormant, [Next]_vars
    PROVE  faulted' = {} => Dormant'
  <1> SUFFICES ASSUME faulted' = {} PROVE Dormant'
    OBVIOUS
  <1>0. faulted = {} /\ Dormant
    BY FaultsGrow
  <1>1. ASSUME NEW c \in Calls, NEW l, Goto(c, l), l \notin RollbackPc \cup {"cnMark"},
               status' # "compensated"
        PROVE  Dormant'
    BY <1>0, <1>1 DEF Dormant, Goto, TypeOK
  <1>2. CASE Start
    BY <1>1, <1>2 DEF Start, Calls, RollbackPc
  <1>3. ASSUME NEW c \in Calls, Retry(c) \/ Cancel(c) PROVE Dormant'
    <2>1. \E l \in {"done", "rtLoad", "cnLoad"} : Goto(c, l)
      BY <1>3 DEF Retry, Cancel
    <2> QED BY <1>0, <1>1, <1>3, <2>1 DEF Retry, Cancel, RollbackPc, Dormant, dbVars
  <1>4. ASSUME NEW c \in Calls, LoopStep(c) PROVE Dormant'
    <2>1. \E l \in {"loadSteps", "markRunning", "complete", "setCurrent", "batch", "load",
                    "failExec", "done"} : Goto(c, l)
      BY <1>4 DEF LoopStep, LoadExecution, LoadSteps, MarkRunning, StartBatch, JoinBatch,
         RejectBatch, Complete, FailExecution, Finish, NextMove
    <2>2. status' = status \/ status' \in {"running", "completed", "failed"}
      BY <1>4 DEF LoopStep, LoadExecution, LoadSteps, MarkRunning, StartBatch, JoinBatch,
         RejectBatch, Complete, FailExecution, dbVars
    <2> QED BY <1>0, <1>1, <2>1, <2>2 DEF RollbackPc, Dormant
  <1>5. ASSUME NEW c \in Calls, RollbackStep(c) PROVE FALSE
    BY <1>0, <1>5 DEF RollbackStep, BeginRollback, LoadCompleted, Compensate, MarkCompensated,
       EndRollback, Dormant, RollbackPc
  <1>6. ASSUME NEW c \in Calls, RetryStep(c) PROVE Dormant'
    <2>1. \E l \in {"rtLoadSteps", "done", "rtResume", "rtResetAll", "load", "rtResetFailed",
                    "rtRestart"} : Goto(c, l)
      BY <1>6 DEF RetryStep, RetryLoad, RetryAdmit, Resume, ResetFailedStep, ResetAllSteps,
         Restart
    <2>2. status' = status \/ status' \in {"running", "pending"}
      BY <1>6 DEF RetryStep, RetryLoad, RetryAdmit, Resume, ResetFailedStep, ResetAllSteps,
         Restart, dbVars
    <2> QED BY <1>0, <1>1, <2>1, <2>2 DEF RollbackPc, Dormant
  <1>7. ASSUME NEW c \in Calls, CancelStep(c) PROVE Dormant'
    <2>1. CancelLoad(c)
      BY <1>0, <1>7 DEF CancelStep, CancelMark, Dormant
    <2>2. status \notin Active
      <3>1. SUFFICES ASSUME status \in Active PROVE FALSE
        OBVIOUS
      <3>2. PICK d \in Calls : Drives(d)
        BY <1>0, <3>1 DEF UnsettledHasOwner
      <3>3. AtWork(c) /\ AtWork(d)
        BY <2>1, <3>2 DEF CancelLoad, Drives, AtWork
      <3> QED BY <2>1, <3>2, <3>3 DEF Solo, Alone, CancelLoad, Drives
    <2>3. Goto(c, "done") /\ status' = status
      BY <2>1, <2>2 DEF CancelLoad, dbVars
    <2> QED BY <1>0, <1>1, <2>3 DEF RollbackPc, Dormant
  <1>8. ASSUME NEW c \in Calls, NEW s \in Step, MemberStep(c, s) PROVE Dormant'
    BY <1>0, <1>8 DEF MemberStep, MarkStep, RunJob, SaveOutput, RecordFailure, Dormant, dbVars
  <1>9. CASE Environment
    BY <1>9 DEF Environment, StatementFails, CompensateFails, MarkCompensatedFails,
       StepStatementFails, StoreFails, Crash, Inject
  <1>10. CASE UNCHANGED vars \/ \E sv \in Watched : Subscribe(sv) \/ Unsubscribe(sv)
    BY <1>0, <1>10 DEF vars, dbVars, callVars, Subscribe, Unsubscribe, Dormant
  <1> QED BY <1>2, <1>3, <1>4, <1>5, <1>6, <1>7, <1>8, <1>9, <1>10 DEF Next, CallStep, Calls

(* Without faults a compensated execution owes nothing: what every job that   *)
(* can be compensated did was undone once for each time it was done.          *)
THEOREM RollbackAlwaysUndoes == ASSUME Patient PROVE Spec => []RollbackUndoes
  <1>1. CASE ~RollbackEnabled
    <2>1. Init => (faulted = {} => Dormant)
      BY DEF Init, Dormant, RollbackPc
    <2>2. TypeOK /\ Solo /\ UnsettledHasOwner /\ (faulted = {} => Dormant) /\ [Next]_vars
              => (faulted = {} => Dormant)'
      BY <1>1, DormantStep
    <2>3. (faulted = {} => Dormant) => RollbackUndoes
      BY DEF Dormant, RollbackUndoes
    <2> QED BY <2>1, <2>2, <2>3, SoloAlways, UnsettledAlwaysHasOwner, PTL DEF Spec
  <1>2. CASE RollbackEnabled
    <2>1. Init => (faulted = {} => Balance)
      BY WorkflowAssumption DEF Init, Balance, Account, CompletedNow, AllPending, NoMembers
    <2>2. TypeOK /\ Solo /\ UnsettledHasOwner /\ (faulted = {} => Balance) /\ [Next]_vars
              => (faulted = {} => Balance)'
      BY <1>2, BalanceStep
    <2>3. TypeOK /\ Solo /\ (faulted = {} => Balance) => RollbackUndoes
      <3> SUFFICES ASSUME TypeOK, Solo, Balance, status = "compensated", NEW s \in Compensable
                   PROVE  effects[s] = 0
        BY DEF RollbackUndoes
      <3>1. s \in Step /\ step[s] # "completed"
        BY WorkflowAssumption DEF Balance, CompletedNow
      <3>2. \A c \in Calls : mem[c][s] # "save"
        BY <3>1 DEF Solo, StatusOf, MemberBusy
      <3> QED BY <3>1, <3>2 DEF Balance, Account
    <2> QED BY <2>1, <2>2, <2>3, SoloAlways, UnsettledAlwaysHasOwner, PTL DEF Spec
  <1> QED BY <1>1, <1>2

-----------------------------------------------------------------------------
(* The order of compensation *)

(* A rollback works on all the rows that are completed. *)
Remaining ==
    \A c \in Calls : pc[c] \in {"compensate", "markCompensated"} => todo[c] = CompletedNow

(* Nothing but a rollback itself moves it, or the rows it works on. *)
LEMMA RollbackOnly ==
    ASSUME Patient, TypeOK, Solo, [Next]_vars, faulted' = {},
           NEW c \in Calls, pc'[c] \in {"compensate", "markCompensated"}
    PROVE  RollbackStep(c) \/ (pc' = pc /\ todo' = todo /\ step' = step)
  <1>1. CASE Start
    <2>1. \A d \in Calls : pc[d] = "idle"
      BY <1>1 DEF Start, Solo, NotStarted
    <2> QED BY <1>1, <2>1 DEF Start, Goto, TypeOK
  <1>2. ASSUME NEW d \in Calls, Retry(d) \/ Cancel(d)
        PROVE  RollbackStep(c) \/ (pc' = pc /\ todo' = todo /\ step' = step)
    <2>1. /\ \A e \in Calls : pc[e] \in {"idle", "done"}
          /\ \E l \in {"done", "rtLoad", "cnLoad"} : Goto(d, l)
      BY <1>2 DEF Retry, Cancel, ClientMayCall, Quiet
    <2> QED BY <2>1 DEF Goto, TypeOK
  <1>3. ASSUME NEW d \in Calls, CallStep(d)
        PROVE  RollbackStep(c) \/ (pc' = pc /\ todo' = todo /\ step' = step)
    <2>1. AtWork(d) /\ \E l : Goto(d, l)
      BY <1>3 DEF CallStep, LoopStep, RollbackStep, RetryStep, CancelStep, LoadExecution,
         LoadSteps, MarkRunning, StartBatch, JoinBatch, RejectBatch, Complete, FailExecution,
         BeginRollback, LoadCompleted, Compensate, MarkCompensated, EndRollback, RetryLoad,
         RetryAdmit, Resume, ResetFailedStep, ResetAllSteps, Restart, CancelLoad, CancelMark,
         Finish, AtWork
    <2>2. d = c
      <3>1. SUFFICES ASSUME d # c PROVE FALSE
        OBVIOUS
      <3>2. pc'[c] = pc[c]
        BY <2>1, <3>1 DEF Goto, TypeOK
      <3>3. AtWork(c)
        BY <3>2 DEF AtWork
      <3> QED BY <2>1, <3>1, <3>3 DEF Solo, Alone
    <2>3. ~LoopStep(c) /\ ~RetryStep(c) /\ ~CancelStep(c)
      <3>1. ASSUME LoopStep(c) \/ RetryStep(c) \/ CancelStep(c)
            PROVE  \E l : Goto(c, l) /\ l \notin {"compensate", "markCompensated"}
        BY <3>1 DEF LoopStep, RetryStep, CancelStep, LoadExecution, LoadSteps, MarkRunning,
           StartBatch, JoinBatch, RejectBatch, Complete, FailExecution, RetryLoad, RetryAdmit,
           Resume, ResetFailedStep, ResetAllSteps, Restart, CancelLoad, CancelMark, Finish,
           NextMove
      <3> QED BY <3>1 DEF Goto, TypeOK
    <2> QED BY <1>3, <2>2, <2>3 DEF CallStep
  <1>4. ASSUME NEW d \in Calls, NEW s \in Step, MemberStep(d, s)
        PROVE  FALSE
    <2>1. mem[d][s] \in MemberBusy /\ pc' = pc
      BY <1>4 DEF MemberStep, MarkStep, RunJob, SaveOutput, RecordFailure, MemberBusy
    <2>2. AtWork(d) /\ AtWork(c)
      BY <2>1 DEF AtWork
    <2>3. d = c
      BY <2>2 DEF Solo, Alone
    <2> QED BY <2>1, <2>3 DEF Solo, Placed, MemberBusy
  <1>5. CASE Environment
    BY <1>5 DEF Environment, StatementFails, CompensateFails, MarkCompensatedFails,
       StepStatementFails, StoreFails, Crash, Inject
  <1>6. CASE UNCHANGED vars \/ \E sv \in Watched : Subscribe(sv) \/ Unsubscribe(sv)
    BY <1>6 DEF vars, dbVars, callVars, Subscribe, Unsubscribe
  <1> QED BY <1>1, <1>2, <1>3, <1>4, <1>5, <1>6 DEF Next, Calls

(* Every step that meets no fault keeps what a rollback has left to do. *)
LEMMA RemainingStep ==
    ASSUME Patient, TypeOK, Solo, faulted = {} => Remaining, [Next]_vars
    PROVE  faulted' = {} => Remaining'
  <1> SUFFICES ASSUME faulted' = {}, NEW c \in Calls,
                      pc'[c] \in {"compensate", "markCompensated"}
               PROVE  todo'[c] = CompletedNow'
    BY DEF Remaining
  <1>0. Remaining
    BY FaultsGrow
  <1>1. CASE pc' = pc /\ todo' = todo /\ step' = step
    BY <1>0, <1>1 DEF Remaining, CompletedNow
  <1>2. CASE LoadCompleted(c)
    BY <1>2 DEF LoadCompleted, CompletedNow, TypeOK, dbVars
  <1>3. CASE Compensate(c)
    BY <1>0, <1>3 DEF Compensate, Remaining, CompletedNow, dbVars
  <1>4. CASE MarkCompensated(c)
    <2>1. PICK s \in todo[c] : /\ step' = [step EXCEPT ![s] = "compensated"]
                               /\ todo' = [todo EXCEPT ![c] = @ \ {s}]
      BY <1>4 DEF MarkCompensated
    <2>2. todo[c] = CompletedNow /\ s \in Step
      BY <1>0, <1>4, <2>1, WorkflowAssumption DEF MarkCompensated, Remaining, CompletedNow
    <2>3. step'[s] = "compensated" /\ \A t \in Step \ {s} : step'[t] = step[t]
      BY <2>1, <2>2 DEF TypeOK
    <2>4. CompletedNow' = CompletedNow \ {s}
      BY <2>3, WorkflowAssumption DEF CompletedNow
    <2> QED BY <2>1, <2>2, <2>4 DEF TypeOK
  <1>5. CASE BeginRollback(c) \/ EndRollback(c)
    BY <1>5 DEF BeginRollback, EndRollback, Finish, Goto, TypeOK
  <1> QED BY <1>1, <1>2, <1>3, <1>4, <1>5, RollbackOnly DEF RollbackStep

(* Only a rollback turns a row into a compensated one. *)
LEMMA CompensatedBy ==
    ASSUME TypeOK, [Next]_vars, NEW s \in Step,
           step[s] = "completed", step'[s] = "compensated"
    PROVE  \E c \in Calls : MarkCompensated(c) /\ s \in todo[c] /\ IsLast(s, todo[c])
  <1>1. step' # step
    OBVIOUS
  <1>2. ASSUME NEW c \in Calls, MarkCompensated(c)
        PROVE  s \in todo[c] /\ IsLast(s, todo[c])
    BY <1>2 DEF MarkCompensated, TypeOK
  <1>3. ASSUME NEW c \in Calls, CallStep(c) PROVE MarkCompensated(c)
    BY <1>1, <1>3 DEF CallStep, LoopStep, RollbackStep, RetryStep, CancelStep, LoadExecution,
       LoadSteps, MarkRunning, StartBatch, JoinBatch, RejectBatch, Complete, FailExecution,
       BeginRollback, LoadCompleted, Compensate, EndRollback, RetryLoad, RetryAdmit, Resume,
       ResetFailedStep, ResetAllSteps, Restart, CancelLoad, CancelMark, AllPending, TypeOK,
       dbVars
  <1>4. ~Start
    BY DEF Start, AllPending
  <1>5. ASSUME NEW c \in Calls, NEW t \in Step, MemberStep(c, t) PROVE FALSE
    BY <1>1, <1>5 DEF MemberStep, MarkStep, RunJob, SaveOutput, RecordFailure, TypeOK, dbVars
  <1>6. /\ \A c \in Calls : ~Retry(c) /\ ~Cancel(c)
        /\ \A sv \in Watched : ~Subscribe(sv) /\ ~Unsubscribe(sv)
        /\ ~UNCHANGED vars
        /\ ~Environment
    BY <1>1 DEF Retry, Cancel, Subscribe, Unsubscribe, vars, dbVars, Environment,
       StatementFails, CompensateFails, MarkCompensatedFails, StepStatementFails, StoreFails,
       Crash
  <1>7. \E c \in Calls : MarkCompensated(c)
    BY <1>3, <1>4, <1>5, <1>6 DEF Next, Calls
  <1> QED BY <1>2, <1>7

(* Compensations run backwards: no row becomes compensated while a later one  *)
(* still is to be, unless something failed.                                   *)
THEOREM AlwaysCompensatedInReverse == ASSUME Patient PROVE Spec => CompensatedInReverse
  <1>1. Init => (faulted = {} => Remaining)
    BY DEF Init, Remaining
  <1>2. TypeOK /\ Solo /\ (faulted = {} => Remaining) /\ [Next]_vars
            => (faulted = {} => Remaining)'
    BY RemainingStep
  <1>3. TypeOK /\ (faulted = {} => Remaining) /\ [Next]_vars =>
          [\A s, t \in Step :
              /\ step[s] = "completed" /\ step'[s] = "compensated"
              /\ s < t /\ t \in Compensable
              /\ faulted = {}
              => step[t] # "completed"]_vars
    <2> SUFFICES ASSUME TypeOK, faulted = {} => Remaining, [Next]_vars,
                        NEW s \in Step, NEW t \in Step,
                        step[s] = "completed", step'[s] = "compensated",
                        s < t, t \in Compensable, faulted = {}, step[t] = "completed"
                 PROVE  FALSE
      OBVIOUS
    <2>1. PICK c \in Calls : MarkCompensated(c) /\ s \in todo[c] /\ IsLast(s, todo[c])
      BY CompensatedBy
    <2>2. t \in todo[c]
      BY <2>1 DEF MarkCompensated, Remaining, CompletedNow
    <2> QED BY <2>1, <2>2 DEF IsLast, Step
  <1> QED BY <1>1, <1>2, <1>3, SoloAlways, PTL DEF Spec, CompensatedInReverse

-----------------------------------------------------------------------------
(* Compensation, when anything may fail: every undo has a run to undo. *)

Counted(s) == step[s] = "completed" => effects[s] >= 1

(* Where the call at work is, which rows stand for a run of their job. *)
CreditOf(c) ==
    /\ \A s \in Step : mem[c][s] = "save" => effects[s] >= 1
    /\ pc[c] = "rbLoad" => \A s \in Step : Counted(s)
    /\ pc[c] = "compensate" => \A s \in todo[c] : effects[s] >= 1
    /\ pc[c] = "markCompensated" => \A s \in todo[c] : IsLast(s, todo[c]) \/ effects[s] >= 1
    /\ pc[c] \in {"compensate", "markCompensated"} /\ Resumable =>
          \A s \in Step \ todo[c] : Counted(s)

Credit ==
    /\ \A s \in Step : effects[s] >= 0
    /\ status # "compensating" /\ (status = "compensated" => Resumable) =>
          \A s \in Step : Counted(s)
    /\ \A c \in Calls : CreditOf(c)

(* It holds unless a retry may resume a rollback whose update of a row failed. *)
CreditAssumed == Patient /\ (Resumable => "db" \notin Faults)

(* Nothing is said of a call that is not at work. *)
LEMMA CreditOffWork ==
    ASSUME NEW d \in Calls, ~AtWork(d)' PROVE CreditOf(d)'
  BY DEF AtWork, CreditOf, MemberBusy

(* What a step of the call at work leaves to prove: its own part. *)
LEMMA CreditMove ==
    ASSUME Solo, NEW c \in Calls, AtWork(c),
           \A d \in Calls \ {c} : pc'[d] = pc[d] /\ mem'[d] = mem[d],
           \A s \in Step : effects'[s] >= 0,
           status' # "compensating" /\ (status' = "compensated" => Resumable) =>
               \A s \in Step : Counted(s)',
           CreditOf(c)'
    PROVE  Credit'
  <1>1. \A d \in Calls \ {c} : ~AtWork(d)'
    BY Bystanders DEF Solo
  <1>2. \A d \in Calls : CreditOf(d)'
    BY <1>1, CreditOffWork
  <1> QED BY <1>2 DEF Credit

(* A call that moves on outside a rollback without touching effects; a row it *)
(* writes is not a completed one.                                             *)
LEMMA CreditGoto ==
    ASSUME TypeOK, Solo, Credit, NEW c \in Calls, AtWork(c), NEW l, Goto(c, l),
           l \notin {"rbLoad", "compensate", "markCompensated"},
           \A d \in Calls \ {c} : mem'[d] = mem[d],
           \A s \in Step : mem'[c][s] = "save" => mem[c][s] = "save",
           effects' = effects,
           \A s \in Step : step'[s] = step[s] \/ step'[s] # "completed",
           \/ status' = status
           \/ status \notin {"compensating", "compensated"}
           \/ \A s \in Step : Counted(s)
           \/ step' = AllPending
    PROVE  Credit'
  <1>1. pc'[c] = l /\ \A d \in Calls \ {c} : pc'[d] = pc[d]
    BY DEF Goto, TypeOK
  <1>2. CreditOf(c)'
    BY <1>1 DEF Credit, CreditOf
  <1>3. status' # "compensating" /\ (status' = "compensated" => Resumable) =>
               \A s \in Step : Counted(s)'
    BY DEF Credit, Counted, AllPending
  <1> QED BY <1>1, <1>2, <1>3, CreditMove DEF Credit

(* The steps of the loop keep the credit. *)
LEMMA CreditLoop ==
    ASSUME TypeOK, Solo, Credit, NEW c \in Calls, LoopStep(c) PROVE Credit'
  <1>0. /\ AtWork(c) /\ StatusOf(c) /\ step' = step /\ effects' = effects
        /\ \E l : Goto(c, l) /\ l \notin {"rbLoad", "compensate", "markCompensated"}
    BY DEF LoopStep, LoadExecution, LoadSteps, MarkRunning, StartBatch, JoinBatch,
       RejectBatch, Complete, FailExecution, Finish, NextMove, AtWork, Solo, dbVars, historyVars
  <1>1. /\ \A d \in Calls \ {c} : mem'[d] = mem[d]
        /\ \A s \in Step : mem'[c][s] = "save" => mem[c][s] = "save"
    <2>1. CASE StartBatch(c)
      BY <2>1 DEF StartBatch, TypeOK
    <2>2. CASE JoinBatch(c)
      BY <2>2 DEF JoinBatch, NoMembers, TypeOK
    <2> QED BY <2>1, <2>2 DEF LoopStep, LoadExecution, LoadSteps, MarkRunning, RejectBatch,
            Complete, FailExecution
  <1>2. status' = status \/ status \in {"pending", "running"}
    BY <1>0 DEF LoopStep, LoadExecution, LoadSteps, MarkRunning, StartBatch, JoinBatch,
       RejectBatch, Complete, FailExecution, StatusOf, dbVars
  <1> QED BY <1>0, <1>1, <1>2, CreditGoto

(* The steps of retry() and cancel() keep the credit. *)
LEMMA CreditRetryCancel ==
    ASSUME CreditAssumed, TypeOK, Solo, Credit, NEW c \in Calls,
           RetryStep(c) \/ CancelStep(c)
    PROVE  Credit'
  <1>0. /\ AtWork(c) /\ StatusOf(c) /\ RowsOf(c) /\ mem' = mem /\ effects' = effects
        /\ \E l : Goto(c, l) /\ l \notin {"rbLoad", "compensate", "markCompensated"}
    BY DEF RetryStep, CancelStep, RetryLoad, RetryAdmit, Resume, ResetFailedStep,
       ResetAllSteps, Restart, CancelLoad, CancelMark, AtWork, Solo, historyVars
  <1>1. \A s \in Step : step'[s] = step[s] \/ step'[s] # "completed"
    BY DEF RetryStep, CancelStep, RetryLoad, RetryAdmit, Resume, ResetFailedStep,
       ResetAllSteps, Restart, CancelLoad, CancelMark, AllPending, TypeOK, dbVars
  <1>2. \/ status' = status
        \/ status \notin {"compensating", "compensated"}
        \/ \A s \in Step : Counted(s)
        \/ step' = AllPending
    <2>1. CASE Resume(c)
      <3>1. pc[c] = "rtResume" /\ status \in Retryable /\ Resumable
        BY <1>0, <2>1 DEF Resume, StatusOf
      <3> QED BY <3>1 DEF Credit, Retryable
    <2>2. CASE Restart(c)
      BY <1>0, <2>2 DEF Restart, RowsOf
    <2>3. CASE CancelMark(c)
      BY <1>0, <2>3 DEF CancelMark, StatusOf, Active
    <2> QED BY <2>1, <2>2, <2>3 DEF RetryStep, CancelStep, RetryLoad, RetryAdmit,
            ResetFailedStep, ResetAllSteps, CancelLoad, dbVars
  <1> QED BY <1>0, <1>1, <1>2, CreditGoto

(* A step that changes no call and neither rows nor effects. *)
LEMMA CreditFrame ==
    ASSUME Credit, UNCHANGED <<status, step, effects, pc, mem, todo>> PROVE Credit'
  BY DEF Credit, CreditOf, Counted

(* A rollback spends it, whichever of its compensations and updates fail.    *)
LEMMA CreditRollback ==
    ASSUME CreditAssumed, TypeOK, Solo, Credit, NEW c \in Calls,
           RollbackStep(c) \/ CompensateFails(c) \/ MarkCompensatedFails(c)
    PROVE  Credit'
  <1>0. /\ pc[c] \in RollbackPc /\ AtWork(c) /\ StatusOf(c) /\ CreditOf(c) /\ mem' = mem
        /\ \A s \in Step : mem[c][s] = "none"
    BY DEF RollbackStep, BeginRollback, LoadCompleted, Compensate, MarkCompensated,
       EndRollback, CompensateFails, MarkCompensatedFails, RollbackPc, AtWork, Solo, Placed,
       Credit
  <1>1. todo[c] \subseteq Step /\ \A s \in Step : effects[s] \in Int
    BY DEF TypeOK
  <1>2. ASSUME NEW l, Goto(c, l)
        PROVE  pc'[c] = l /\ \A d \in Calls \ {c} : pc'[d] = pc[d] /\ mem'[d] = mem[d]
    BY <1>0, <1>2 DEF Goto, TypeOK
  <1>3. CASE BeginRollback(c)
    <2>1. /\ pc'[c] = "rbLoad" /\ \A d \in Calls \ {c} : pc'[d] = pc[d] /\ mem'[d] = mem[d]
      BY <1>2, <1>3 DEF BeginRollback
    <2>2. /\ status' = "compensating" /\ step' = step /\ effects' = effects
          /\ status \in {"cancelled", "failed"}
      BY <1>0, <1>3 DEF BeginRollback, StatusOf, historyVars
    <2>3. CreditOf(c)'
      BY <1>0, <2>1, <2>2 DEF CreditOf, Credit, Counted
    <2> QED BY <1>0, <2>1, <2>2, <2>3, CreditMove DEF Credit
  <1>4. CASE LoadCompleted(c)
    <2>1. /\ pc'[c] = "compensate" /\ \A d \in Calls \ {c} : pc'[d] = pc[d] /\ mem'[d] = mem[d]
          /\ pc[c] = "rbLoad"
      BY <1>2, <1>4 DEF LoadCompleted
    <2>2. /\ status' = status /\ status = "compensating" /\ step' = step /\ effects' = effects
          /\ todo'[c] = {s \in Compensable : step[s] = "completed"}
      BY <1>0, <1>4 DEF LoadCompleted, StatusOf, dbVars, historyVars, TypeOK
    <2>3. CreditOf(c)'
      BY <1>0, <2>1, <2>2, WorkflowAssumption DEF CreditOf, Counted
    <2> QED BY <1>0, <2>1, <2>2, <2>3, CreditMove DEF Credit
  <1>5. CASE EndRollback(c)
    <2>1. /\ pc'[c] = "done" /\ \A d \in Calls \ {c} : pc'[d] = pc[d] /\ mem'[d] = mem[d]
          /\ pc[c] = "compensate" /\ todo[c] = {}
      BY <1>2, <1>5 DEF EndRollback, Finish
    <2>2. /\ status' = "compensated" /\ step' = step /\ effects' = effects
      BY <1>5 DEF EndRollback, historyVars
    <2>3. CreditOf(c)'
      BY <1>0, <2>1 DEF CreditOf
    <2>4. Resumable => \A s \in Step : Counted(s)'
      BY <1>0, <2>1, <2>2 DEF CreditOf, Counted
    <2> QED BY <1>0, <2>1, <2>2, <2>3, <2>4, CreditMove DEF Credit
  <1>6. CASE Compensate(c)
    <2>1. /\ pc'[c] = "markCompensated"
          /\ \A d \in Calls \ {c} : pc'[d] = pc[d] /\ mem'[d] = mem[d]
          /\ pc[c] = "compensate"
      BY <1>2, <1>6 DEF Compensate
    <2>2. PICK s \in todo[c] : IsLast(s, todo[c]) /\ effects' = [effects EXCEPT ![s] = @ - 1]
      BY <1>6 DEF Compensate
    <2>3. /\ status' = status /\ status = "compensating" /\ step' = step /\ todo' = todo
      BY <1>0, <1>6 DEF Compensate, StatusOf, dbVars
    <2>4. /\ effects'[s] = effects[s] - 1 /\ effects[s] >= 1
          /\ \A t \in Step \ {s} : effects'[t] = effects[t]
      BY <1>0, <1>1, <2>1, <2>2 DEF CreditOf, TypeOK
    <2>5. \A t \in Step : effects'[t] >= 0
      BY <1>1, <2>2, <2>4 DEF Credit
    <2>6. CreditOf(c)'
      BY <1>0, <1>1, <2>1, <2>2, <2>3, <2>4 DEF CreditOf, Counted
    <2> QED BY <1>0, <2>1, <2>3, <2>5, <2>6, CreditMove
  <1>7. CASE MarkCompensated(c)
    <2>1. /\ pc'[c] = "compensate" /\ \A d \in Calls \ {c} : pc'[d] = pc[d] /\ mem'[d] = mem[d]
          /\ pc[c] = "markCompensated"
      BY <1>2, <1>7 DEF MarkCompensated
    <2>2. PICK s \in todo[c] : /\ IsLast(s, todo[c])
                               /\ step' = [step EXCEPT ![s] = "compensated"]
                               /\ todo' = [todo EXCEPT ![c] = @ \ {s}]
      BY <1>7 DEF MarkCompensated
    <2>3. /\ status' = status /\ status = "compensating" /\ effects' = effects
          /\ todo'[c] = todo[c] \ {s}
          /\ step'[s] = "compensated" /\ \A t \in Step \ {s} : step'[t] = step[t]
      BY <1>0, <1>1, <1>7, <2>2 DEF MarkCompensated, StatusOf, historyVars, TypeOK
    <2>4. \A t \in todo[c] \ {s} : ~IsLast(t, todo[c])
      BY <1>1, <2>2 DEF IsLast, Step
    <2>5. CreditOf(c)'
      BY <1>0, <2>1, <2>3, <2>4 DEF CreditOf, Counted
    <2> QED BY <1>0, <2>1, <2>3, <2>5, CreditMove DEF Credit
  <1>8. CASE CompensateFails(c)
    <2>1. PICK s \in todo[c] : IsLast(s, todo[c]) /\ todo' = [todo EXCEPT ![c] = @ \ {s}]
      BY <1>8 DEF CompensateFails
    <2>2. /\ pc[c] = "compensate" /\ pc' = pc /\ status' = status /\ effects' = effects
          /\ step' = step /\ todo'[c] = todo[c] \ {s} /\ status = "compensating"
      BY <1>0, <1>8, <2>1 DEF CompensateFails, StatusOf, dbVars, TypeOK
    <2>3. CreditOf(c)'
      BY <1>0, <2>1, <2>2 DEF CreditOf, Counted
    <2> QED BY <1>0, <2>2, <2>3, CreditMove DEF Credit
  <1>9. CASE MarkCompensatedFails(c)
    <2>1. /\ pc'[c] = "compensate" /\ \A d \in Calls \ {c} : pc'[d] = pc[d] /\ mem'[d] = mem[d]
          /\ pc[c] = "markCompensated" /\ ~Resumable
      BY <1>2, <1>9 DEF MarkCompensatedFails, Inject, CreditAssumed
    <2>2. PICK s \in todo[c] : IsLast(s, todo[c]) /\ todo' = [todo EXCEPT ![c] = @ \ {s}]
      BY <1>9 DEF MarkCompensatedFails
    <2>3. /\ status' = status /\ status = "compensating" /\ effects' = effects
          /\ step' = step /\ todo'[c] = todo[c] \ {s}
      BY <1>0, <1>9, <2>2 DEF MarkCompensatedFails, StatusOf, dbVars, TypeOK
    <2>4. \A t \in todo[c] \ {s} : ~IsLast(t, todo[c])
      BY <1>1, <2>2 DEF IsLast, Step
    <2>5. CreditOf(c)'
      BY <1>0, <2>1, <2>3, <2>4 DEF CreditOf, Counted
    <2> QED BY <1>0, <2>1, <2>3, <2>5, CreditMove DEF Credit
  <1> QED BY <1>3, <1>4, <1>5, <1>6, <1>7, <1>8, <1>9 DEF RollbackStep

(* A member earns it by running, and turns it into a completed row.          *)
LEMMA CreditMember ==
    ASSUME TypeOK, Solo, Credit, NEW c \in Calls, NEW s \in Step,
           MemberStep(c, s) \/ StepStatementFails(c, s) \/ StoreFails(c, s)
    PROVE  Credit'
  <1>1. /\ mem[c][s] \in MemberBusy /\ pc' = pc /\ status' = status /\ todo' = todo
        /\ \A t \in Step \ {s} : step'[t] = step[t] /\ effects'[t] = effects[t]
    BY DEF MemberStep, MarkStep, RunJob, SaveOutput, RecordFailure, StepStatementFails,
       StoreFails, MemberBusy, TypeOK, dbVars, historyVars
  <1>2. AtWork(c) /\ status = "running" /\ pc[c] \in {"batch", "done"}
    BY <1>1 DEF AtWork, Solo, StatusOf, Placed, MemberBusy
  <1>3. PICK l \in MemberPc : MemberGoto(c, s, l)
    BY Labels DEF MemberStep, MarkStep, RunJob, SaveOutput, RecordFailure, StepStatementFails,
       StoreFails
  <1>4. /\ \A d \in Calls \ {c} : mem'[d] = mem[d]
        /\ mem'[c] = [mem[c] EXCEPT ![s] = l]
    BY <1>3 DEF MemberGoto, TypeOK
  <1>5. mem'[c][s] = l /\ \A t \in Step \ {s} : mem'[c][t] = mem[c][t]
    BY <1>4 DEF TypeOK
  <1>6. /\ effects[s] \in Int /\ effects'[s] \in {effects[s], effects[s] + 1}
        /\ mem'[c][s] = "save" => effects'[s] = effects[s] + 1
        /\ step'[s] # "completed" \/ (mem[c][s] = "save" /\ effects'[s] = effects[s])
                \/ (step'[s] = step[s])
    <2>1. CASE RunJob(c, s)
      BY <1>5, <2>1 DEF RunJob, MemberGoto, TypeOK, dbVars
    <2>2. CASE MarkStep(c, s)
      BY <2>2 DEF MarkStep, MemberGoto, TypeOK, historyVars
    <2>3. CASE SaveOutput(c, s)
      BY <2>3 DEF SaveOutput, MemberGoto, TypeOK, historyVars
    <2>4. CASE RecordFailure(c, s)
      BY <2>4 DEF RecordFailure, MemberGoto, TypeOK, historyVars
    <2>5. CASE StepStatementFails(c, s) \/ StoreFails(c, s)
      BY <2>5 DEF StepStatementFails, StoreFails, MemberGoto, TypeOK, dbVars
    <2> QED BY <2>1, <2>2, <2>3, <2>4, <2>5 DEF MemberStep
  <1>7. /\ effects[s] >= 0 /\ (mem[c][s] = "save" => effects[s] >= 1) /\ Counted(s)
        /\ \A t \in Step : Counted(t)
    BY <1>2 DEF Credit, CreditOf
  <1>8. \A t \in Step : Counted(t)' /\ effects'[t] >= 0
    BY <1>1, <1>6, <1>7 DEF Counted, Credit
  <1>9. CreditOf(c)'
    <2>1. \A t \in Step : mem'[c][t] = "save" => effects'[t] >= 1
      BY <1>1, <1>5, <1>6, <1>7 DEF Credit, CreditOf
    <2> QED BY <1>1, <1>2, <2>1 DEF CreditOf
  <1> QED BY <1>1, <1>2, <1>4, <1>8, <1>9, CreditMove

(* Every step of patient clients keeps the credit. *)
LEMMA CreditStep ==
    ASSUME CreditAssumed, TypeOK, Solo, Credit, [Next]_vars PROVE Credit'
  <1>1. CASE Start
    <2>1. /\ effects = [s \in Step |-> 0] /\ \A d \in Calls : mem[d] = NoMembers
          /\ \A d \in Calls : pc[d] = "idle"
      BY <1>1 DEF Start, Solo, NotStarted
    <2>2. /\ effects' = effects /\ mem' = mem /\ step' = AllPending
          /\ \A d \in Calls : pc'[d] \in {"idle", "load"}
      BY <1>1, <2>1 DEF Start, Goto, TypeOK, historyVars
    <2> QED BY <2>1, <2>2 DEF Credit, CreditOf, Counted, AllPending, NoMembers
  <1>2. ASSUME NEW c \in Calls, Retry(c) \/ Cancel(c) PROVE Credit'
    <2>1. /\ step' = step /\ status' = status /\ mem' = mem /\ effects' = effects
          /\ \A d \in Calls : pc[d] \in {"idle", "done"}
          /\ \E l \in {"done", "rtLoad", "cnLoad"} : Goto(c, l)
      BY <1>2 DEF Retry, Cancel, ClientMayCall, Quiet, dbVars, historyVars, CreditAssumed
    <2>2. \A d \in Calls : pc'[d] \in {"idle", "done", "rtLoad", "cnLoad"}
      BY <2>1 DEF Goto, TypeOK
    <2> QED BY <2>1, <2>2 DEF Credit, CreditOf, Counted
  <1>3. ASSUME NEW c \in Calls, CallStep(c) \/ CompensateFails(c) \/ MarkCompensatedFails(c)
        PROVE  Credit'
    BY <1>3, CreditLoop, CreditRollback, CreditRetryCancel DEF CallStep
  <1>4. ASSUME NEW c \in Calls, NEW s \in Step,
               MemberStep(c, s) \/ StepStatementFails(c, s) \/ StoreFails(c, s)
        PROVE  Credit'
    BY <1>4, CreditMember
  <1>5. ASSUME NEW c \in Calls, StatementFails(c) PROVE Credit'
    <2>1. /\ AtWork(c) /\ Goto(c, "done") /\ mem' = mem /\ effects' = effects
          /\ status' = status /\ step' = step
      BY <1>5 DEF StatementFails, Finish, AtWork, RetryPc, CancelPc, LoopPc, dbVars
    <2> QED BY <2>1, CreditGoto
  <1>6. ASSUME NEW sv \in Servers, Crash(sv) PROVE Credit'
    <2>1. /\ status' = status /\ step' = step /\ effects' = effects /\ todo' = todo
          /\ \A d \in Calls : pc'[d] = pc[d] \/ pc'[d] = "done"
          /\ \A d \in Calls : mem'[d] = mem[d] \/ mem'[d] = NoMembers
      BY <1>6 DEF Crash, dbVars
    <2>2. ASSUME NEW d \in Calls PROVE CreditOf(d)'
      BY <2>1 DEF Credit, CreditOf, Counted, NoMembers
    <2> QED BY <2>1, <2>2 DEF Credit, Counted
  <1>7. CASE UNCHANGED vars \/ \E sv \in Watched : Subscribe(sv) \/ Unsubscribe(sv)
    BY <1>7, CreditFrame DEF vars, dbVars, historyVars, callVars, Subscribe, Unsubscribe
  <1> QED BY <1>1, <1>2, <1>3, <1>4, <1>5, <1>6, <1>7 DEF Next, Environment, Calls

(* No run of a job is undone twice, whatever fails and however often patient  *)
(* clients retry or cancel; a workflow that resumes needs its rows updated.   *)
THEOREM NeverCompensatedTwice ==
    ASSUME Patient, Resumable => "db" \notin Faults PROVE Spec => []NeverOverCompensated
  <1>1. Init => Credit
    BY DEF Init, Credit, CreditOf, Counted, AllPending, NoMembers
  <1>2. TypeOK /\ Solo /\ Credit /\ [Next]_vars => Credit'
    BY CreditStep DEF CreditAssumed
  <1>3. Credit => NeverOverCompensated
    BY DEF Credit, NeverOverCompensated
  <1> QED BY <1>1, <1>2, <1>3, SoloAlways, PTL DEF Spec

-----------------------------------------------------------------------------
(* A workflow that is not resumable runs its groups one after the other      *)

(* Between two batches every row is pending, or the loop is past it, and a    *)
(* group is pending as a whole ...                                            *)
Clean ==
    /\ \A s \in Step : step[s] = "pending" \/ Passed(step, s)
    /\ \A s, t \in Step : Group[s] = Group[t] /\ step[s] = "pending" => step[t] = "pending"

EarlierDone(s, r) == \A t \in Step : Group[t] < Group[s] => Passed(r, t)

(* ... the members of a batch are one whole group ... *)
OneGroup(m) ==
    \A s, t \in Step : m[s] # "none" => (m[t] # "none" <=> Group[t] = Group[s])

(* ... the rows of the other groups are as they were, a member's answer is    *)
(* its row ...                                                                *)
Rest(m) ==
    \A s \in Step :
        /\ m[s] = "none" => step[s] = "pending" \/ Passed(step, s)
        /\ m[s] = "ok" => step[s] = "completed"
        /\ m[s] = "err" => step[s] = "failed"
        /\ m[s] = "blank" => step[s] = "blank"
        /\ \A t \in Step : m[s] = "none" /\ Group[s] = Group[t] /\ step[s] = "pending" =>
                              step[t] = "pending"

(* ... and a member runs when the loop is past every earlier group, in the    *)
(* rows its call has read and in the database.                                *)
TidyOf(c) ==
    /\ pc[c] \in {"load", "loadSteps", "markRunning", "setCurrent"} => Clean
    /\ pc[c] = "complete" => \A s \in Step : Passed(step, s)
    /\ pc[c] = "failExec" => \E s \in Step : step[s] = "failed" /\ FirstFailed(step, s)
    /\ pc[c] = "batch" => Rest(mem[c])
    /\ OneGroup(mem[c])
    /\ \A s \in Step : mem[c][s] \in MemberBusy =>
          EarlierDone(s, rows[c]) /\ EarlierDone(s, step)

Tidy == \A c \in Calls : AtWork(c) => TidyOf(c)

(* Whether the loop is past a step is read off the rows of its group. *)
LEMMA PassedSame ==
    ASSUME NEW r, NEW q, NEW t \in Step, \A u \in Step : Group[u] = Group[t] => r[u] = q[u]
    PROVE  Passed(r, t) = Passed(q, t)
  BY DEF Passed, Overlooked, FirstFailed, Batch

(* What a step of the call at work leaves to prove: its own part. *)
LEMMA TidyMove ==
    ASSUME Solo, NEW c \in Calls, AtWork(c),
           \A d \in Calls \ {c} : pc'[d] = pc[d] /\ mem'[d] = mem[d],
           TidyOf(c)'
    PROVE  Tidy'
  BY Bystanders DEF Solo, Tidy

(* The same for a call that has no batch, before and after. *)
LEMMA TidyGoto ==
    ASSUME TypeOK, Solo, Tidy, NEW c \in Calls, NEW l, Goto(c, l), mem' = mem,
           pc[c] \notin {"idle", "done", "batch"}, l \notin {"batch", "failExec"},
           l \in {"load", "loadSteps", "markRunning", "setCurrent"} => Clean',
           l = "complete" => \A s \in Step : Passed(step, s)'
    PROVE  Tidy'
  <1>1. AtWork(c)
    BY DEF AtWork
  <1>2. pc'[c] = l /\ \A d \in Calls \ {c} : pc'[d] = pc[d] /\ mem'[d] = mem[d]
    BY DEF Goto, TypeOK
  <1>3. \A s \in Step : mem'[c][s] = "none"
    BY DEF Solo, Placed
  <1>4. OneGroup(mem[c])'
    BY <1>3 DEF OneGroup
  <1>5. TidyOf(c)'
    BY <1>2, <1>3, <1>4 DEF TidyOf, MemberBusy
  <1> QED BY <1>1, <1>2, <1>5, TidyMove

(* All rows passed, or the next batch: what the loop decides on a clean read. *)
LEMMA TidyNext ==
    ASSUME TypeOK, Clean, NEW c \in Calls, Goto(c, NextMove(step))
    PROVE  \/ Goto(c, "setCurrent")
           \/ Goto(c, "complete") /\ \A s \in Step : Passed(step, s)
  BY DEF NextMove, Clean, PendingIn

(* The rows do not move: nor does what is said of them alone. *)
LEMMA CleanFrame ==
    ASSUME step' = step
    PROVE  Clean' = Clean /\ \A s \in Step : Passed(step, s)' = Passed(step, s)
  BY DEF Clean, Passed, Overlooked, FirstFailed

(* A batch is the whole group of the first pending row, and all of it runs.   *)
LEMMA TidyStart ==
    ASSUME TypeOK, Solo, Tidy, NEW c \in Calls, StartBatch(c) PROVE Tidy'
  <1>0. /\ AtWork(c) /\ RowsOf(c) /\ TidyOf(c) /\ step' = step
    BY DEF StartBatch, AtWork, Solo, Tidy
  <1>1. pc[c] = "setCurrent" /\ rows[c] = step /\ rows' = rows /\ Clean
    BY <1>0 DEF StartBatch, TidyOf, RowsOf
  <1>2. PICK s \in PendingIn(step) :
           /\ IsFirst(s, PendingIn(step))
           /\ mem' = [mem EXCEPT ![c] =
                    [t \in Step |-> IF t \notin Batch(s) THEN "none"
                                    ELSE IF rows[c][t] = "pending" THEN "mark" ELSE "ok"]]
    BY <1>1 DEF StartBatch
  <1>3. pc'[c] = "batch" /\ \A d \in Calls \ {c} : pc'[d] = pc[d]
    BY DEF StartBatch, Goto, TypeOK
  <1>4. s \in Step /\ step[s] = "pending"
    BY DEF PendingIn
  <1>5. /\ \A d \in Calls \ {c} : mem'[d] = mem[d]
        /\ \A t \in Step : mem'[c][t] = IF Group[t] = Group[s] THEN "mark" ELSE "none"
    <2>1. \A t \in Step : Group[t] = Group[s] => step[t] = "pending"
      BY <1>1, <1>4 DEF Clean
    <2> QED BY <1>1, <1>2, <2>1 DEF TypeOK, Batch
  <1>6. ASSUME NEW u \in Step, mem'[c][u] \in MemberBusy PROVE EarlierDone(u, step)
    <2>1. Group[u] = Group[s]
      BY <1>5, <1>6 DEF MemberBusy
    <2> SUFFICES ASSUME NEW t \in Step, Group[t] < Group[s] PROVE Passed(step, t)
      BY <2>1 DEF EarlierDone
    <2>2. ~ s <= t
      <3>1. Group[s] \in Step /\ Group[t] \in Step
        BY <1>4, WorkflowAssumption
      <3> QED BY <1>4, <3>1, WorkflowAssumption DEF Step
    <2>3. t \notin PendingIn(step)
      BY <1>2, <2>2 DEF IsFirst
    <2> QED BY <1>1, <2>3 DEF PendingIn, Clean
  <1>7. OneGroup(mem[c])'
    BY <1>5 DEF OneGroup
  <1>8. Rest(mem[c])'
    <2>1. \A t \in Step : mem'[c][t] \in {"none", "mark"}
      BY <1>5
    <2>2. Rest(mem'[c])
      BY <1>1, <2>1 DEF Rest, Clean
    <2> QED BY <1>0, <2>2, CleanFrame DEF Rest
  <1>9. \A u \in Step : mem'[c][u] \in MemberBusy =>
           EarlierDone(u, rows[c])' /\ EarlierDone(u, step)'
    <2>1. \A u \in Step : EarlierDone(u, step)' = EarlierDone(u, step)
      BY <1>0, CleanFrame DEF EarlierDone
    <2>2. \A u \in Step : EarlierDone(u, rows[c])' = EarlierDone(u, rows[c])
      BY <1>1 DEF EarlierDone, Passed, Overlooked, FirstFailed
    <2> QED BY <1>1, <1>6, <2>1, <2>2
  <1>10. TidyOf(c)'
    BY <1>3, <1>7, <1>8, <1>9 DEF TidyOf
  <1> QED BY <1>0, <1>3, <1>5, <1>10, TidyMove

(* The group of a batch that has ended: past it, or stopped by its first      *)
(* failure, which has a message.                                              *)
LEMMA TidyJoin ==
    ASSUME TypeOK, Solo, Tidy, NEW c \in Calls, JoinBatch(c) PROVE Tidy'
  <1>0. /\ AtWork(c) /\ TidyOf(c) /\ step' = step
    BY DEF JoinBatch, AtWork, Tidy, dbVars
  <1> DEFINE m == mem[c]
  <1>1. /\ pc[c] = "batch" /\ \A d \in Calls \ {c} : pc'[d] = pc[d] /\ mem'[d] = mem[d]
        /\ \A s \in Step : mem'[c][s] = "none"
        /\ \A s \in Step : m[s] \in {"none", "ok", "err", "blank"}
    BY DEF JoinBatch, NoMembers, Goto, TypeOK, Answers
  <1>2. Rest(m) /\ OneGroup(m)
    BY <1>0, <1>1 DEF TidyOf
  <1>3. \/ pc'[c] = "load" /\ \A s \in Step : m[s] \notin Answers
        \/ \E s \in Step : /\ FirstError(m, s)
                           /\ pc'[c] = IF m[s] = "err" THEN "failExec" ELSE "load"
    BY DEF JoinBatch, Goto, TypeOK
  <1>4. ASSUME NEW s \in Step, FirstError(m, s) PROVE FirstFailed(step, s)
    <2>1. m[s] \in Answers /\ \A t \in Step : m[t] \in Answers => s <= t
      BY <1>4 DEF FirstError
    <2>2. \A t \in Step : Group[t] = Group[s] /\ step[t] \in Failed => m[t] \in Answers
      BY <1>1, <1>2, <2>1 DEF OneGroup, Rest, Answers, Failed
    <2> QED BY <1>2, <2>1, <2>2 DEF FirstFailed, Batch, Rest, Answers, Failed
  <1>5. ASSUME \A s \in Step : m[s] # "none" => Passed(step, s) PROVE Clean
    <2>1. \A s \in Step : step[s] = "pending" \/ Passed(step, s)
      BY <1>2, <1>5 DEF Rest
    <2>2. \A s \in Step : m[s] # "none" => step[s] # "pending"
      BY <1>5 DEF Passed, Overlooked, Failed
    <2>3. \A s, t \in Step : Group[s] = Group[t] /\ step[s] = "pending" => step[t] = "pending"
      BY <1>2, <2>2 DEF Rest
    <2> QED BY <2>1, <2>3 DEF Clean
  <1>6. ASSUME \A s \in Step : m[s] \notin Answers PROVE Clean
    BY <1>1, <1>2, <1>5, <1>6 DEF Rest, Answers, Passed
  <1>7. ASSUME NEW s \in Step, FirstError(m, s), m[s] # "err" PROVE Clean
    <2>1. m[s] = "blank" /\ step[s] = "blank"
      BY <1>2, <1>7 DEF FirstError, Answers, Rest
    <2>2. ASSUME NEW t \in Step, m[t] # "none" PROVE Passed(step, t)
      <3>1. Group[t] = Group[s]
        BY <1>2, <2>1, <2>2 DEF OneGroup
      <3>2. step[t] = "completed" \/ step[t] \in Failed
        BY <1>1, <1>2, <2>2 DEF Rest, Failed
      <3>3. s \in Batch(t)
        BY <3>1 DEF Batch
      <3> QED BY <1>4, <1>7, <2>1, <3>2, <3>3 DEF Passed, Overlooked
    <2> QED BY <1>5, <2>2
  <1>8. pc'[c] = "load" => Clean'
    BY <1>0, <1>3, <1>6, <1>7, CleanFrame
  <1>9. pc'[c] = "failExec" => \E s \in Step : (step[s] = "failed" /\ FirstFailed(step, s))'
    <2> SUFFICES ASSUME NEW s \in Step, FirstError(m, s), m[s] = "err"
                 PROVE  step'[s] = "failed" /\ FirstFailed(step, s)'
      BY <1>3
    <2>1. step[s] = "failed" /\ FirstFailed(step, s)
      BY <1>2, <1>4 DEF Rest
    <2> QED BY <1>0, <2>1 DEF FirstFailed
  <1>10. pc'[c] \in {"load", "failExec"}
    BY <1>3
  <1>11. OneGroup(mem[c])'
    BY <1>1 DEF OneGroup
  <1>12. TidyOf(c)'
    BY <1>1, <1>8, <1>9, <1>10, <1>11 DEF TidyOf, MemberBusy
  <1> QED BY <1>0, <1>1, <1>12, TidyMove

(* The steps of the loop keep it. *)
LEMMA TidyLoop ==
    ASSUME TypeOK, Solo, Tidy, NEW c \in Calls, LoopStep(c) PROVE Tidy'
  <1>0. /\ AtWork(c) /\ StatusOf(c) /\ RowsOf(c) /\ TidyOf(c) /\ step' = step
    BY DEF LoopStep, LoadExecution, LoadSteps, MarkRunning, StartBatch, JoinBatch,
       RejectBatch, Complete, FailExecution, AtWork, Solo, Tidy, dbVars
  <1>00. Clean' = Clean /\ \A s \in Step : Passed(step, s)' = Passed(step, s)
    BY <1>0, CleanFrame
  <1>1. CASE LoadExecution(c)
    BY <1>0, <1>00, <1>1, TidyGoto DEF LoadExecution, TidyOf
  <1>2. CASE LoadSteps(c)
    <2>1. pc[c] = "loadSteps" /\ mem' = mem /\ Clean
      BY <1>0, <1>2 DEF LoadSteps, TidyOf
    <2>2. Goto(c, "done") \/ Goto(c, "markRunning") \/ Goto(c, NextMove(step))
      BY <1>2 DEF LoadSteps, Finish
    <2> QED BY <1>00, <2>1, <2>2, TidyGoto, TidyNext
  <1>3. CASE MarkRunning(c)
    <2>1. pc[c] = "markRunning" /\ mem' = mem /\ Clean /\ Goto(c, NextMove(step))
      BY <1>0, <1>3 DEF MarkRunning, TidyOf, RowsOf
    <2> QED BY <1>00, <2>1, TidyGoto, TidyNext
  <1>4. CASE StartBatch(c)
    BY <1>4, TidyStart
  <1>5. CASE JoinBatch(c)
    BY <1>5, TidyJoin
  <1>6. CASE RejectBatch(c)
    <2>1. /\ pc'[c] = "done" /\ \A d \in Calls \ {c} : pc'[d] = pc[d]
          /\ mem' = mem /\ rows' = rows
      BY <1>6 DEF RejectBatch, Finish, Goto, TypeOK
    <2>2. OneGroup(mem[c])' = OneGroup(mem[c])
      BY <2>1 DEF OneGroup
    <2>3. \A s \in Step : /\ EarlierDone(s, step)' = EarlierDone(s, step)
                          /\ EarlierDone(s, rows[c])' = EarlierDone(s, rows[c])
      BY <1>0, <2>1 DEF EarlierDone, Passed, Overlooked, FirstFailed
    <2>4. TidyOf(c)'
      BY <1>0, <2>1, <2>2, <2>3 DEF TidyOf
    <2> QED BY <1>0, <2>1, <2>4, TidyMove
  <1>7. CASE Complete(c) \/ FailExecution(c)
    <2>1. /\ pc[c] \in {"complete", "failExec"} /\ mem' = mem
          /\ Goto(c, "done") \/ Goto(c, "rbMark")
      BY <1>7 DEF Complete, FailExecution, Finish
    <2> QED BY <2>1, TidyGoto
  <1> QED BY <1>1, <1>2, <1>3, <1>4, <1>5, <1>6, <1>7 DEF LoopStep

(* Outside the loop the rows matter to nobody but a restart. *)
LEMMA TidyOther ==
    ASSUME TypeOK, Solo, Tidy, ~Resumable, NEW c \in Calls,
           RollbackStep(c) \/ RetryStep(c) \/ CancelStep(c) \/ StatementFails(c)
             \/ CompensateFails(c) \/ MarkCompensatedFails(c)
    PROVE  Tidy'
  <1>1. pc[c] \notin {"idle", "done", "batch"} /\ mem' = mem /\ StatusOf(c) /\ RowsOf(c)
    BY DEF RollbackStep, RetryStep, CancelStep, StatementFails, CompensateFails,
       MarkCompensatedFails, BeginRollback, LoadCompleted, Compensate, MarkCompensated,
       EndRollback, RetryLoad, RetryAdmit, Resume, ResetFailedStep, ResetAllSteps, Restart,
       CancelLoad, CancelMark, Solo, RetryPc, CancelPc, LoopPc
  <1>2. CASE Restart(c)
    <2>1. Clean' /\ Goto(c, "load")
      BY <1>1, <1>2 DEF Restart, RowsOf, AllPending, Clean
    <2> QED BY <1>1, <2>1, TidyGoto
  <1>3. CASE ~Restart(c)
    <2>1. ~Resume(c) /\ ~ResetFailedStep(c)
      BY <1>1 DEF StatusOf, Resume, ResetFailedStep
    <2>2. ASSUME RollbackStep(c) \/ CancelStep(c) PROVE Tidy'
      <3>1. \E l \in {"rbLoad", "compensate", "markCompensated", "done", "cnMark", "rbMark"} :
               Goto(c, l)
        BY <2>2 DEF RollbackStep, CancelStep, BeginRollback, LoadCompleted, Compensate,
           MarkCompensated, EndRollback, CancelLoad, CancelMark, Finish
      <3> QED BY <1>1, <3>1, TidyGoto
    <2>3. ASSUME RetryStep(c) PROVE Tidy'
      <3>1. \E l \in {"rtLoadSteps", "rtResume", "rtResetAll", "rtRestart", "done"} : Goto(c, l)
        BY <1>3, <2>1, <2>3 DEF RetryStep, RetryLoad, RetryAdmit, ResetAllSteps
      <3> QED BY <1>1, <3>1, TidyGoto
    <2>4. ASSUME StatementFails(c) \/ CompensateFails(c) \/ MarkCompensatedFails(c)
          PROVE  Tidy'
      <3>1. Goto(c, "done") \/ Goto(c, "compensate")
        BY <2>4 DEF StatementFails, CompensateFails, MarkCompensatedFails, Finish, Goto, TypeOK
      <3> QED BY <1>1, <3>1, TidyGoto
    <2> QED BY <2>2, <2>3, <2>4
  <1> QED BY <1>2, <1>3

(* A member writes its own row, which no member of a later group runs on. *)
LEMMA TidyMember ==
    ASSUME TypeOK, Solo, Tidy, NEW c \in Calls, NEW s \in Step,
           MemberStep(c, s) \/ StepStatementFails(c, s) \/ StoreFails(c, s)
    PROVE  Tidy'
  <1>1. /\ mem[c][s] \in MemberBusy /\ pc' = pc /\ rows' = rows
        /\ \A t \in Step \ {s} : step'[t] = step[t]
    BY DEF MemberStep, MarkStep, RunJob, SaveOutput, RecordFailure, StepStatementFails,
       StoreFails, MemberBusy, TypeOK, dbVars
  <1>2. AtWork(c) /\ RowsOf(c) /\ TidyOf(c) /\ pc[c] \in {"batch", "done"}
    BY <1>1 DEF AtWork, Solo, Tidy, Placed, MemberBusy
  <1>3. PICK l \in MemberPc \ {"none"} : /\ MemberGoto(c, s, l)
                                         /\ l = "ok" => step'[s] = "completed"
                                         /\ l = "err" => step'[s] = "failed"
                                         /\ l = "blank" => step'[s] = "blank"
    <2>1. CASE SaveOutput(c, s)
      BY <2>1, Labels, SMTT(60) DEF SaveOutput, TypeOK
    <2>2. CASE RecordFailure(c, s)
      BY <2>2, Labels, SMTT(60) DEF RecordFailure, TypeOK
    <2>3. CASE ~SaveOutput(c, s) /\ ~RecordFailure(c, s)
      <3>1. \E k \in {"run", "save", "fail", "threw"} : MemberGoto(c, s, k)
        BY <2>3 DEF MemberStep, MarkStep, RunJob, StepStatementFails, StoreFails
      <3> QED BY <3>1, Labels
    <2> QED BY <2>1, <2>2, <2>3
  <1>4. /\ \A d \in Calls \ {c} : mem'[d] = mem[d]
        /\ mem'[c] = [mem[c] EXCEPT ![s] = l]
    BY <1>3 DEF MemberGoto, TypeOK
  <1>5. mem'[c][s] = l /\ \A t \in Step \ {s} : mem'[c][t] = mem[c][t]
    BY <1>4 DEF TypeOK
  <1>6. \A t \in Step : mem'[c][t] = "none" <=> mem[c][t] = "none"
    BY <1>1, <1>3, <1>5 DEF MemberBusy
  <1>7. OneGroup(mem[c]) /\ OneGroup(mem[c])'
    BY <1>2, <1>6 DEF OneGroup, TidyOf
  <1>8. ASSUME NEW t \in Step, Group[t] # Group[s] PROVE Passed(step, t)' = Passed(step, t)
    BY <1>1, <1>8, PassedSame DEF Passed, Overlooked, FirstFailed, Batch
  <1>9. ASSUME NEW t \in Step, mem'[c][t] \in MemberBusy
        PROVE  EarlierDone(t, rows[c])' /\ EarlierDone(t, step)'
    <2>1. EarlierDone(t, rows[c]) /\ EarlierDone(t, step)
      BY <1>1, <1>2, <1>5, <1>9 DEF TidyOf
    <2>2. Group[t] = Group[s]
      BY <1>1, <1>6, <1>7, <1>9 DEF OneGroup, MemberBusy
    <2>3. \A u \in Step : Group[u] < Group[t] => Group[u] # Group[s]
      <3>1. \A u \in Step : Group[u] \in Int
        BY WorkflowAssumption DEF Step
      <3> QED BY <2>2, <3>1
    <2>4. EarlierDone(t, step)'
      BY <1>8, <2>1, <2>3 DEF EarlierDone
    <2>5. EarlierDone(t, rows[c])'
      BY <1>1, <2>1 DEF EarlierDone, Passed, Overlooked, FirstFailed
    <2> QED BY <2>4, <2>5
  <1>10. pc[c] = "batch" => Rest(mem[c])'
    <2> SUFFICES ASSUME pc[c] = "batch", NEW t \in Step
                 PROVE  /\ mem'[c][t] = "none" => step'[t] = "pending" \/ Passed(step, t)'
                        /\ mem'[c][t] = "ok" => step'[t] = "completed"
                        /\ mem'[c][t] = "err" => step'[t] = "failed"
                        /\ mem'[c][t] = "blank" => step'[t] = "blank"
                        /\ \A u \in Step : /\ mem'[c][t] = "none" /\ Group[t] = Group[u]
                                           /\ step'[t] = "pending"
                                           => step'[u] = "pending"
      BY DEF Rest
    <2>1. Rest(mem[c])
      BY <1>2 DEF TidyOf
    <2>2. CASE t = s
      BY <1>3, <1>5, <2>2
    <2>3. CASE t # s
      <3>1. mem[c][t] = "none" => Group[t] # Group[s]
        BY <1>1, <1>7 DEF OneGroup, MemberBusy
      <3>2. mem[c][t] = "none" => \A u \in Step : Group[t] = Group[u] => u # s
        BY <3>1
      <3>3. mem'[c][t] = mem[c][t] /\ step'[t] = step[t]
        BY <1>1, <1>5, <2>3
      <3>4. mem[c][t] = "none" => step'[t] = "pending" \/ Passed(step, t)'
        BY <1>8, <2>1, <3>1, <3>3 DEF Rest
      <3> QED BY <1>1, <2>1, <3>2, <3>3, <3>4 DEF Rest
    <2> QED BY <2>2, <2>3
  <1>11. TidyOf(c)'
    BY <1>1, <1>2, <1>7, <1>9, <1>10 DEF TidyOf
  <1> QED BY <1>1, <1>2, <1>4, <1>11, TidyMove

(* Every step of patient clients keeps it. *)
LEMMA TidyStep ==
    ASSUME Patient, ~Resumable, TypeOK, Solo, Tidy, [Next]_vars PROVE Tidy'
  <1>1. CASE Start
    <2>1. /\ step' = AllPending /\ \A d \in Calls : mem[d] = NoMembers /\ pc[d] = "idle"
      BY <1>1 DEF Start, Solo, NotStarted
    <2>2. \A d \in Calls : pc'[d] \in {"idle", "load"} /\ mem'[d] = NoMembers
      BY <1>1, <2>1 DEF Start, Goto, TypeOK
    <2>3. Clean'
      BY <2>1 DEF Clean, AllPending
    <2> QED BY <2>2, <2>3 DEF Tidy, TidyOf, NoMembers, MemberBusy, OneGroup
  <1>2. ASSUME NEW c \in Calls, Retry(c) \/ Cancel(c) PROVE Tidy'
    <2>1. /\ mem' = mem /\ \A d \in Calls : pc[d] \in {"idle", "done"}
          /\ \A d \in Calls : \A s \in Step : mem[d][s] \notin MemberBusy
          /\ \E l \in {"done", "rtLoad", "cnLoad"} : Goto(c, l)
      BY <1>2 DEF Retry, Cancel, ClientMayCall, Quiet
    <2>2. pc[c] = "idle"
      BY <1>2 DEF Retry, Cancel
    <2>3. \A d \in Calls : /\ pc'[d] \in {"idle", "done", "rtLoad", "cnLoad"}
                           /\ pc'[d] \in {"rtLoad", "cnLoad"} => d = c
      BY <2>1 DEF Goto, TypeOK
    <2>4. \A s \in Step : mem[c][s] = "none"
      BY <2>2 DEF Solo, Placed
    <2>5. \A d \in Calls : AtWork(d)' => d = c
      BY <2>1, <2>3 DEF AtWork
    <2>6. TidyOf(c)'
      BY <2>1, <2>3, <2>4 DEF TidyOf, OneGroup, MemberBusy
    <2> QED BY <2>5, <2>6 DEF Tidy
  <1>3. ASSUME NEW c \in Calls,
               CallStep(c) \/ StatementFails(c) \/ CompensateFails(c) \/ MarkCompensatedFails(c)
        PROVE  Tidy'
    BY <1>3, TidyLoop, TidyOther DEF CallStep
  <1>4. ASSUME NEW c \in Calls, NEW s \in Step,
               MemberStep(c, s) \/ StepStatementFails(c, s) \/ StoreFails(c, s)
        PROVE  Tidy'
    BY <1>4, TidyMember
  <1>5. ASSUME step' = step, rows' = rows, NEW d \in Calls, AtWork(d), TidyOf(d),
               pc'[d] = pc[d], mem'[d] = mem[d]
        PROVE  TidyOf(d)'
    BY <1>5 DEF TidyOf, Clean, EarlierDone, OneGroup, Rest, Passed, Overlooked, FirstFailed
  <1>6. ASSUME NEW sv \in Servers, Crash(sv) PROVE Tidy'
    <2>1. /\ step' = step /\ rows' = rows
          /\ \A d \in Calls : Home[d] # sv => pc'[d] = pc[d] /\ mem'[d] = mem[d]
          /\ \A d \in Calls : Home[d] = sv => ~AtWork(d)'
      BY <1>6 DEF Crash, NoMembers, AtWork, MemberBusy, dbVars
    <2>2. ASSUME NEW d \in Calls, AtWork(d)' PROVE TidyOf(d)'
      <3>1. pc'[d] = pc[d] /\ mem'[d] = mem[d]
        BY <2>1, <2>2
      <3>2. AtWork(d)
        BY <2>2, <3>1 DEF AtWork
      <3> QED BY <1>5, <2>1, <3>1, <3>2 DEF Tidy
    <2> QED BY <2>2 DEF Tidy
  <1>7. CASE UNCHANGED vars \/ \E sv \in Watched : Subscribe(sv) \/ Unsubscribe(sv)
    <2>1. step' = step /\ rows' = rows /\ pc' = pc /\ mem' = mem
      BY <1>7 DEF vars, dbVars, callVars, Subscribe, Unsubscribe
    <2>2. ASSUME NEW d \in Calls, AtWork(d)' PROVE TidyOf(d)'
      <3>1. AtWork(d)
        BY <2>1, <2>2 DEF AtWork
      <3> QED BY <1>5, <2>1, <3>1 DEF Tidy
    <2> QED BY <2>2 DEF Tidy
  <1> QED BY <1>1, <1>2, <1>3, <1>4, <1>6, <1>7 DEF Next, Environment, Calls

(* It holds before start(). *)
LEMMA TidyInit == Init => Tidy
  BY DEF Init, Tidy, AtWork, NoMembers, MemberBusy

(* It always holds, for a workflow that is not resumable. *)
LEMMA TidyAlways ==
    ASSUME Patient, ~Resumable PROVE Spec => [](TypeOK /\ Solo /\ Tidy)
  <1>1. TypeOK /\ Solo /\ Tidy /\ [Next]_vars => Tidy'
    BY TidyStep
  <1> QED BY <1>1, TidyInit, SoloAlways, PTL DEF Spec

(* A job is never run before every step of the groups before its own has a    *)
(* result, but for the failures behind one without a message: for every       *)
(* workflow that is not resumable, whatever fails.                            *)
THEOREM ResultsAlwaysComplete ==
    ASSUME Patient, ~Resumable PROVE Spec => []ResultsComplete
  <1>1. Tidy => ResultsComplete
    BY DEF Tidy, TidyOf, EarlierDone, AtWork, MemberBusy, ResultsComplete
  <1> QED BY <1>1, TidyAlways, PTL

(* A row is blank only if its step may fail without a message. *)
BlankIsTerse ==
    /\ \A s \in Step : step[s] = "blank" => s \in Terse
    /\ \A c \in Calls : \A s \in Step : rows[c][s] = "blank" => s \in Terse

(* Every step keeps it. *)
LEMMA BlankStep == TypeOK /\ BlankIsTerse /\ [Next]_vars => BlankIsTerse'
  <1> SUFFICES ASSUME TypeOK, BlankIsTerse, [Next]_vars PROVE BlankIsTerse'
    OBVIOUS
  <1>1. /\ \A s \in Step : step'[s] = "blank" => step[s] = "blank" \/ s \in Terse
        /\ rows' = rows \/ \E c \in Calls : rows' = [rows EXCEPT ![c] = step]
    <2>1. ASSUME NEW c \in Calls, CallStep(c)
          PROVE  /\ \A s \in Step : step'[s] = "blank" => step[s] = "blank"
                 /\ rows' = rows \/ rows' = [rows EXCEPT ![c] = step]
      <3>1. CASE LoopStep(c)
        BY <3>1 DEF LoopStep, LoadExecution, LoadSteps, MarkRunning, StartBatch, JoinBatch,
           RejectBatch, Complete, FailExecution, dbVars
      <3>2. CASE RollbackStep(c)
        BY <3>2 DEF RollbackStep, BeginRollback, LoadCompleted, Compensate, MarkCompensated,
           EndRollback, dbVars, TypeOK
      <3>3. CASE RetryStep(c)
        BY <3>3 DEF RetryStep, RetryLoad, RetryAdmit, Resume, ResetFailedStep, ResetAllSteps,
           Restart, AllPending, dbVars, TypeOK
      <3>4. CASE CancelStep(c)
        BY <3>4 DEF CancelStep, CancelLoad, CancelMark, dbVars
      <3> QED BY <2>1, <3>1, <3>2, <3>3, <3>4 DEF CallStep
    <2>2. ASSUME NEW c \in Calls, NEW s \in Step, MemberStep(c, s)
          PROVE  /\ \A t \in Step : step'[t] = "blank" => step[t] = "blank" \/ t \in Terse
                 /\ rows' = rows
      BY <2>2 DEF MemberStep, MarkStep, RunJob, SaveOutput, RecordFailure, dbVars, TypeOK
    <2>3. ASSUME ~ \E c \in Calls : CallStep(c),
                 ~ \E c \in Calls, s \in Step : MemberStep(c, s)
          PROVE  rows' = rows /\ (step' = step \/ step' = AllPending)
      BY <2>3 DEF Next, Start, Retry, Cancel, Subscribe, Unsubscribe, Environment,
         StatementFails, CompensateFails, MarkCompensatedFails, StepStatementFails, StoreFails,
         Crash, vars, dbVars, callVars
    <2> QED BY <2>1, <2>2, <2>3 DEF AllPending
  <1>2. \A s \in Step : step'[s] = "blank" => s \in Terse
    BY <1>1 DEF BlankIsTerse
  <1>3. ASSUME NEW c \in Calls, NEW s \in Step, rows'[c][s] = "blank" PROVE s \in Terse
    BY <1>1, <1>3 DEF BlankIsTerse, TypeOK
  <1> QED BY <1>2, <1>3 DEF BlankIsTerse

(* When every error has a message there is no exception: a job is given the   *)
(* result of every step of the groups before its own.                         *)
THEOREM ResultsCompleteWithMessages ==
    ASSUME Patient, ~Resumable, Terse = {}
    PROVE  Spec => [](\A c \in Calls : \A s, t \in Step :
                         mem[c][s] = "run" /\ Group[t] < Group[s] => rows[c][t] = "completed")
  <1> DEFINE AllThere == \A c \in Calls : \A s, t \in Step :
                            mem[c][s] = "run" /\ Group[t] < Group[s] => rows[c][t] = "completed"
  <1>1. Init => BlankIsTerse
    BY DEF Init, BlankIsTerse, AllPending
  <1>2. TypeOK /\ BlankIsTerse /\ [Next]_vars => BlankIsTerse'
    BY BlankStep
  <1>3. BlankIsTerse /\ ResultsComplete => AllThere
    BY DEF BlankIsTerse, ResultsComplete, Passed, Overlooked, Batch
  <1> QED BY <1>1, <1>2, <1>3, TypeCorrect, ResultsAlwaysComplete, PTL DEF Spec

-----------------------------------------------------------------------------
(* The engine implements the life cycle the README of the package promises   *)

(* Each event of the life cycle, with what it stands for. *)
LEMMA LifeEvents ==
    /\ Lifecycle!Step = Step
    /\ Lifecycle!Accept \/ Lifecycle!Begin \/ Lifecycle!Complete \/ Lifecycle!Fail
         \/ Lifecycle!CancelRun \/ Lifecycle!Rollback \/ Lifecycle!RolledBack
         \/ Lifecycle!Forget \/ Lifecycle!Restart
       => Lifecycle!Next
    /\ \A s \in Step : Lifecycle!FinishStep(s) \/ Lifecycle!FailStep(s) \/ Lifecycle!Undo(s)
                          => Lifecycle!Next
    /\ status' = status /\ Outcome' = Outcome => UNCHANGED Lifecycle!lifecycleVars
    /\ step' = step => Outcome' = Outcome
    /\ step = AllPending => Outcome = Lifecycle!Unset
  BY DEF Lifecycle!Next, Lifecycle!Step, Step, Lifecycle!lifecycleVars, Outcome, AllPending,
     Lifecycle!Unset, Failed

(* The life cycle is past a step when the loop is. *)
LEMMA LifePassed ==
    ASSUME NEW s \in Step
    PROVE  /\ Passed(step, s) => Lifecycle!Passed(s)
           /\ step[s] = "failed" /\ FirstFailed(step, s) =>
                 Outcome[s] = "failed" /\ Lifecycle!First(s)
  <1>1. /\ Lifecycle!Step = Step /\ Lifecycle!Failed = Failed
        /\ \A t \in Step : /\ Outcome[t] \in Failed <=> step[t] \in Failed
                           /\ Outcome[t] = "blank" <=> step[t] = "blank"
                           /\ Outcome[t] = "failed" <=> step[t] = "failed"
                           /\ Outcome[t] = "completed" <=> step[t] = "completed"
    BY LifeEvents DEF Lifecycle!Failed, Failed, Outcome
  <1>2. \A t \in Step : FirstFailed(step, t) => Lifecycle!First(t)
    BY <1>1 DEF FirstFailed, Batch, Lifecycle!First
  <1>3. Overlooked(step, s) => Lifecycle!Overlooked(s)
    BY <1>1, <1>2 DEF Overlooked, Batch, Lifecycle!Overlooked
  <1> QED BY <1>1, <1>2, <1>3 DEF Passed, Lifecycle!Passed

(* A row that changes is an outcome that changes. *)
LEMMA LifeRow ==
    ASSUME TypeOK, NEW s \in Step, NEW v \in StepStatus, step' = [step EXCEPT ![s] = v]
    PROVE  Outcome' = [Outcome EXCEPT ![s] = IF v \in {"completed"} \cup Failed THEN v ELSE "none"]
  BY DEF TypeOK, Outcome

(* A step of a call is an event of the life cycle, or none. *)
LEMMA LifeCall ==
    ASSUME ~Resumable, TypeOK, Solo, Tidy, NEW c \in Calls, CallStep(c)
    PROVE  [Lifecycle!Next]_(Lifecycle!lifecycleVars)
  <1>0. StatusOf(c) /\ RowsOf(c) /\ (AtWork(c) => TidyOf(c))
    BY DEF Solo, Tidy
  <1>1. CASE status' = status /\ step' = step
    BY <1>1, LifeEvents
  <1>2. CASE MarkRunning(c)
    <2>1. status = "pending" /\ status' = "running" /\ step' = step
      BY <1>0, <1>2 DEF MarkRunning, StatusOf
    <2>2. Lifecycle!Begin
      BY <2>1, LifeEvents DEF Lifecycle!Begin, Lifecycle!Become
    <2> QED BY <2>2, LifeEvents
  <1>3. CASE Complete(c)
    <2>1. /\ status = "running" /\ status' = "completed" /\ step' = step
          /\ \A s \in Step : Passed(step, s)
      BY <1>0, <1>3 DEF Complete, StatusOf, TidyOf, AtWork
    <2>2. \A s \in Step : Lifecycle!Passed(s)
      BY <2>1, LifePassed
    <2>3. Lifecycle!Complete
      BY <2>1, <2>2, LifeEvents DEF Lifecycle!Complete, Lifecycle!Become
    <2> QED BY <2>3, LifeEvents
  <1>4. CASE FailExecution(c)
    <2>1. status = "running" /\ status' = "failed" /\ step' = step
      BY <1>0, <1>4 DEF FailExecution, StatusOf
    <2>2. PICK s \in Step : step[s] = "failed" /\ FirstFailed(step, s)
      BY <1>0, <1>4 DEF FailExecution, TidyOf, AtWork
    <2>3. Outcome[s] = "failed" /\ Lifecycle!First(s)
      BY <2>2, LifePassed
    <2>4. Lifecycle!Fail
      BY <2>1, <2>3, LifeEvents DEF Lifecycle!Fail, Lifecycle!Become
    <2> QED BY <2>4, LifeEvents
  <1>5. CASE BeginRollback(c)
    <2>1. /\ status = "cancelled" \/ (status = "failed" /\ RollbackEnabled)
          /\ status' = "compensating" /\ step' = step
      BY <1>0, <1>5 DEF BeginRollback, StatusOf
    <2>2. Lifecycle!Rollback
      BY <2>1, LifeEvents DEF Lifecycle!Rollback, Lifecycle!Become
    <2> QED BY <2>2, LifeEvents
  <1>6. CASE MarkCompensated(c)
    <2>1. PICK s \in todo[c] : step' = [step EXCEPT ![s] = "compensated"]
      BY <1>6 DEF MarkCompensated
    <2>2. /\ status = "compensating" /\ status' = status /\ s \in Step
          /\ step[s] = "completed"
      BY <1>0, <1>6, <2>1 DEF MarkCompensated, StatusOf, RowsOf, TypeOK
    <2>3. Outcome' = [Outcome EXCEPT ![s] = "none"]
      <3>1. "compensated" \notin {"completed"} \cup Failed
        BY DEF Failed
      <3> QED BY <2>1, <2>2, <3>1 DEF Outcome, TypeOK
    <2>4. Outcome[s] = "completed"
      BY <2>2 DEF Outcome
    <2>5. Lifecycle!Undo(s)
      BY <2>2, <2>3, <2>4 DEF Lifecycle!Undo
    <2> QED BY <2>2, <2>5, LifeEvents
  <1>7. CASE EndRollback(c)
    <2>1. status = "compensating" /\ status' = "compensated" /\ step' = step
      BY <1>0, <1>7 DEF EndRollback, StatusOf
    <2>2. Lifecycle!RolledBack
      BY <2>1, LifeEvents DEF Lifecycle!RolledBack, Lifecycle!Become
    <2> QED BY <2>2, LifeEvents
  <1>8. CASE ResetAllSteps(c)
    <2>1. status \in {"failed", "compensated"} /\ status' = status /\ step' = AllPending
      BY <1>0, <1>8 DEF ResetAllSteps, StatusOf, Retryable
    <2>2. Outcome' = Lifecycle!Unset
      BY <2>1, LifeEvents DEF Outcome, AllPending, Lifecycle!Unset, Failed
    <2>3. Lifecycle!Forget
      BY <2>1, <2>2 DEF Lifecycle!Forget
    <2> QED BY <2>3, LifeEvents
  <1>9. CASE Restart(c)
    <2>1. /\ status \in {"failed", "compensated"} /\ status' = "pending"
          /\ step = AllPending /\ step' = step
      BY <1>0, <1>9 DEF Restart, StatusOf, RowsOf, Retryable
    <2>2. Lifecycle!Restart
      BY <2>1, LifeEvents DEF Lifecycle!Restart, Lifecycle!Become
    <2> QED BY <2>2, LifeEvents
  <1>10. CASE CancelMark(c)
    <2>1. status \in {"pending", "running"} /\ status' = "cancelled" /\ step' = step
      BY <1>0, <1>10 DEF CancelMark, StatusOf, Active
    <2>2. Lifecycle!CancelRun
      BY <2>1, LifeEvents DEF Lifecycle!CancelRun, Lifecycle!Become
    <2> QED BY <2>2, LifeEvents
  <1>11. ~Resume(c) /\ ~ResetFailedStep(c)
    BY <1>0 DEF StatusOf, Resume, ResetFailedStep
  <1>12. ASSUME LoadExecution(c) \/ LoadSteps(c) \/ StartBatch(c) \/ JoinBatch(c)
                  \/ RejectBatch(c) \/ LoadCompleted(c) \/ Compensate(c) \/ RetryLoad(c)
                  \/ RetryAdmit(c) \/ CancelLoad(c)
         PROVE  status' = status /\ step' = step
    BY <1>12 DEF LoadExecution, LoadSteps, StartBatch, JoinBatch, RejectBatch, LoadCompleted,
       Compensate, RetryLoad, RetryAdmit, CancelLoad, dbVars
  <1> QED BY <1>1, <1>2, <1>3, <1>4, <1>5, <1>6, <1>7, <1>8, <1>9, <1>10, <1>11, <1>12
          DEF CallStep, LoopStep, RollbackStep, RetryStep, CancelStep

(* A member's answer is an event, its other moves are none. *)
LEMMA LifeMember ==
    ASSUME TypeOK, Solo, Tidy, NEW c \in Calls, NEW s \in Step, MemberStep(c, s)
    PROVE  [Lifecycle!Next]_(Lifecycle!lifecycleVars)
  <1>1. mem[c][s] \in MemberBusy /\ status' = status
    BY DEF MemberStep, MarkStep, RunJob, SaveOutput, RecordFailure, MemberBusy, dbVars
  <1>2. status = "running" /\ RowsOf(c) /\ TidyOf(c)
    BY <1>1 DEF Solo, StatusOf, Tidy, AtWork
  <1>3. step[s] \in {"pending", "running"} /\ Outcome[s] = "none"
    BY <1>1, <1>2 DEF RowsOf, MemberBusy, Outcome, Failed
  <1>4. \A t \in Step : Group[t] < Group[s] => Lifecycle!Passed(t)
    BY <1>1, <1>2, LifePassed DEF TidyOf, EarlierDone
  <1>5. ASSUME NEW v \in {"completed", "failed", "blank"}, step' = [step EXCEPT ![s] = v]
        PROVE  Lifecycle!EndStep(s, v)
    <2>1. v \in StepStatus /\ v \in {"completed"} \cup Failed
      BY <1>5 DEF StepStatus, Failed
    <2>2. Outcome' = [Outcome EXCEPT ![s] = v]
      BY <1>5, <2>1, LifeRow
    <2> QED BY <1>1, <1>2, <1>3, <1>4, <2>2, LifeEvents DEF Lifecycle!EndStep
  <1>6. CASE SaveOutput(c, s)
    BY <1>5, <1>6, LifeEvents DEF SaveOutput, Lifecycle!FinishStep
  <1>7. CASE RecordFailure(c, s)
    BY <1>5, <1>7, LifeEvents DEF RecordFailure, Lifecycle!FailStep
  <1>8. CASE MarkStep(c, s)
    <2>1. /\ step' = [step EXCEPT ![s] = "running"]
          /\ "running" \in StepStatus /\ "running" \notin {"completed"} \cup Failed
      BY <1>8 DEF MarkStep, StepStatus, Failed
    <2>2. Outcome' = [Outcome EXCEPT ![s] = "none"]
      BY <2>1, LifeRow
    <2>3. Outcome' = Outcome
      BY <1>3, <2>2 DEF Outcome
    <2> QED BY <1>1, <2>3, LifeEvents
  <1>9. CASE RunJob(c, s)
    BY <1>1, <1>9, LifeEvents DEF RunJob, dbVars
  <1> QED BY <1>6, <1>7, <1>8, <1>9 DEF MemberStep

(* Every step of patient clients and of the faults maps to the life cycle. *)
LEMMA LifeStep ==
    ASSUME Patient, ~Resumable, TypeOK, Solo, Tidy, [Next]_vars
    PROVE  [Lifecycle!Next]_(Lifecycle!lifecycleVars)
  <1>1. CASE Start
    <2>1. status = "none" /\ step' = step /\ status' = "pending"
      BY <1>1 DEF Start, Solo, NotStarted
    <2>2. Lifecycle!Accept
      BY <2>1, LifeEvents DEF Lifecycle!Accept, Lifecycle!Become
    <2> QED BY <2>2, LifeEvents
  <1>2. CASE status' = status /\ step' = step
    BY <1>2, LifeEvents
  <1>3. ASSUME \/ \E c \in Calls : Retry(c) \/ Cancel(c)
               \/ Environment
               \/ UNCHANGED vars
               \/ \E sv \in Watched : Subscribe(sv) \/ Unsubscribe(sv)
        PROVE  status' = status /\ step' = step
    BY <1>3 DEF Retry, Cancel, Environment, StatementFails, CompensateFails,
       MarkCompensatedFails, StepStatementFails, StoreFails, Crash, vars, dbVars, Subscribe,
       Unsubscribe
  <1>4. ASSUME NEW c \in Calls, CallStep(c)
        PROVE  [Lifecycle!Next]_(Lifecycle!lifecycleVars)
    BY <1>4, LifeCall
  <1>5. ASSUME NEW c \in Calls, NEW s \in Step, MemberStep(c, s)
        PROVE  [Lifecycle!Next]_(Lifecycle!lifecycleVars)
    BY <1>5, LifeMember
  <1> QED BY <1>1, <1>2, <1>3, <1>4, <1>5 DEF Next, Calls

(* The statements, jobs, rollbacks, retries and faults of the engine add up   *)
(* to the status flow it documents, with outcomes counted group after group:  *)
(* for patient clients of every workflow that is not resumable.  A failure    *)
(* without a message is an event of this life cycle that stops nothing; where *)
(* every error has a message (Terse = {}) the life cycle has no such event.   *)
THEOREM EngineImplementsLifecycle ==
    ASSUME Patient, ~Resumable PROVE Spec => ImplementsLifecycle
  <1>1. Init => Lifecycle!Init
    BY LifeEvents DEF Init, Lifecycle!Init
  <1>2. TypeOK /\ Solo /\ Tidy /\ [Next]_vars => [Lifecycle!Next]_(Lifecycle!lifecycleVars)
    BY LifeStep
  <1> QED BY <1>1, <1>2, TidyAlways, PTL DEF Spec, ImplementsLifecycle, Lifecycle!Spec
=============================================================================
