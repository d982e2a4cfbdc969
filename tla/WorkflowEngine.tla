--------------------------- MODULE WorkflowEngine ---------------------------
(***************************************************************************)
(* The engine of @spfn/workflow for ONE execution of one workflow          *)
(* (packages/workflow/src/engine/workflow-engine.ts).  All state the       *)
(* engine keeps is keyed by the execution id, so executions do not meet.   *)
(*                                                                         *)
(* A call of start(), retry() or cancel() is a sequence of awaited         *)
(* database statements and job runs; between two of them every other call, *)
(* on this server or on another one that shares the database, may run.     *)
(* Each action below is what happens between two awaits: one statement     *)
(* with the synchronous code that follows its answer.                      *)
(*                                                                         *)
(* Data is abstracted to statuses: inputs, outputs and timestamps are left *)
(* out, of an error only whether its message is empty is kept, and what a  *)
(* job did to the world is a count.                                        *)
(***************************************************************************)
EXTENDS Integers

CONSTANTS
    Starter,         \* the call of start() that creates the execution
    Retries,         \* the calls of retry() clients make
    Cancels,         \* the calls of cancel() clients make
    Servers,         \* processes with an engine on the same database
    Home,            \* the server each call is made on
    NumSteps,        \* number of steps of the workflow
    Group,           \* the index of the first step of a step's parallel group
    Compensable,     \* the steps whose job has a compensate function
    Fallible,        \* the steps whose mapper or job may throw
    Terse,           \* the steps that may fail with an error whose message is empty
    Resumable,       \* workflow.resumable
    RollbackEnabled, \* workflow.rollbackEnabled
    CancelRollback,  \* the cancel() calls made with { rollback: true }
    Watched,         \* the servers a client calls subscribe() on
    Patient,         \* clients wait until every earlier call has ended
    Faults           \* the faults the environment may inject

Step  == 0 .. NumSteps - 1
Calls == {Starter} \cup Retries \cup Cancels

FaultKinds == {"crash", "db", "store", "compensate"}

(* start, retry and cancel are distinct calls, each made on one server. *)
ASSUME CallsAssumption ==
    /\ Starter \notin Retries \cup Cancels
    /\ Retries \cap Cancels = {}
    /\ CancelRollback \subseteq Cancels
    /\ Watched \subseteq Servers
    /\ Home \in [Calls -> Servers]

(* What the builder guarantees: a parallel group is a run of consecutive    *)
(* steps named after its first index, any other step is a group of its own. *)
(* Step names are unique, as builder/types.ts asks of its caller.           *)
ASSUME WorkflowAssumption ==
    /\ NumSteps \in Nat
    /\ Group \in [Step -> Step]
    /\ \A s \in Step : Group[s] <= s /\ Group[Group[s]] = Group[s]
    /\ \A s, t \in Step : s <= t => Group[s] <= Group[t]
    /\ Compensable \subseteq Step
    /\ Fallible \subseteq Step
    /\ Terse \subseteq Step
    /\ {Resumable, RollbackEnabled, Patient} \subseteq BOOLEAN
    /\ Faults \subseteq FaultKinds

WorkflowStatus == {"pending", "running", "completed", "failed",
                   "compensating", "compensated", "cancelled"}

(* "blank" is failed, with '' for its error: nothing but the loop tells them *)
(* apart, which takes an empty message for no failure.                       *)
Failed     == {"failed", "blank"}
StepStatus == {"pending", "running", "completed", "compensated"} \cup Failed

Active    == {"pending", "running"}
Retryable == {"failed", "compensated"}

VARIABLES
    status,       \* the execution row's status; "none" before start() commits
    currentStep,  \* the execution row's current_step
    step,         \* the status of each step row
    processing,   \* the servers whose processingExecutions holds the id
    subscribed,   \* the servers whose subscribers map holds a client callback
    pc,           \* where each call is
    seen,         \* the execution status a call last read
    rows,         \* the step rows a call last read
    mem,          \* where each executeStep() of a call's current batch is
    todo,         \* rows a call still has to reset or to compensate
    effects,      \* history: job runs minus compensations, per step
    faulted       \* history: the kinds of fault injected so far

dbVars      == <<status, currentStep, step>>
engineVars  == <<processing, subscribed>>
historyVars == <<effects, faulted>>
callVars    == <<pc, seen, rows, mem, todo>>
vars        == <<dbVars, engineVars, historyVars, callVars>>

RetryPc    == {"rtLoad", "rtLoadSteps", "rtResume", "rtResetFailed", "rtResetAll", "rtRestart"}
CancelPc   == {"cnLoad", "cnMark"}
LoopPc     == {"load", "loadSteps", "markRunning", "setCurrent", "batch", "complete", "failExec"}
RollbackPc == {"rbMark", "rbLoad", "compensate", "markCompensated"}
Pc         == {"idle", "done"} \cup RetryPc \cup CancelPc \cup LoopPc \cup RollbackPc

MemberBusy == {"mark", "run", "save", "fail"}
Answers    == {"err", "blank"}
MemberPc   == {"none", "ok", "threw"} \cup Answers \cup MemberBusy

(* A retry() past its guard: it has added the id to processingExecutions. *)
GuardPc == {"rtResume", "rtResetFailed", "rtResetAll", "rtRestart"} \cup LoopPc \cup RollbackPc

TypeOK ==
    /\ status \in WorkflowStatus \cup {"none"}
    /\ currentStep \in Step \cup {0}
    /\ step \in [Step -> StepStatus]
    /\ processing \subseteq Servers
    /\ subscribed \subseteq Watched
    /\ pc \in [Calls -> Pc]
    /\ seen \in [Calls -> WorkflowStatus \cup {"none"}]
    /\ rows \in [Calls -> [Step -> StepStatus]]
    /\ mem \in [Calls -> [Step -> MemberPc]]
    /\ todo \in [Calls -> SUBSET Step]
    /\ effects \in [Step -> Int]
    /\ faulted \subseteq FaultKinds

AllPending == [s \in Step |-> "pending"]
NoMembers  == [s \in Step |-> "none"]

Init ==
    /\ status = "none"
    /\ currentStep = 0
    /\ step = AllPending
    /\ processing = {}
    /\ subscribed = {}
    /\ pc = [c \in Calls |-> "idle"]
    /\ seen = [c \in Calls |-> "none"]
    /\ rows = [c \in Calls |-> AllPending]
    /\ mem = [c \in Calls |-> NoMembers]
    /\ todo = [c \in Calls |-> {}]
    /\ effects = [s \in Step |-> 0]
    /\ faulted = {}

-----------------------------------------------------------------------------
(* Helpers *)

Goto(c, label) == pc' = [pc EXCEPT ![c] = label]

(* Mutant of Finish: retry() without its finally. *)
FinishKeepsGuard(c) == Goto(c, "done") /\ UNCHANGED processing

(* The promise of executeNextStep() settles: retry()'s finally clears its guard. *)
Finish(c) ==
    /\ Goto(c, "done")
    /\ processing' = IF c \in Retries THEN processing \ {Home[c]} ELSE processing

(* Mutant of EmitTerminal: failed is missing, as a rollback is still to come. *)
EmitTerminalUnlessFailed(c) ==
    subscribed' = IF status' = "failed" THEN subscribed ELSE subscribed \ {Home[c]}

(* emitEvent() of a terminal event drops the subscribers of this server. *)
EmitTerminal(c) == subscribed' = subscribed \ {Home[c]}

PendingIn(r) == {s \in Step : r[s] = "pending"}
Batch(s)     == {t \in Step : Group[t] = Group[s]}
IsFirst(s, S) == \A t \in S : s <= t

(* Mutant of IsLast: the rollback sorts its steps forwards. *)
IsLastForwards(s, S) == IsFirst(s, S)

IsLast(s, S)  == \A t \in S : t <= s

(* All steps done, or the next batch. *)
NextMove(r) == IF PendingIn(r) = {} THEN "complete" ELSE "setCurrent"

(* No call of the execution is in progress, no job it launched either. *)
Quiet ==
    \A c \in Calls : /\ pc[c] \in {"idle", "done"}
                     /\ \A s \in Step : mem[c][s] \notin MemberBusy

ClientMayCall == status # "none" /\ (Patient => Quiet)

-----------------------------------------------------------------------------
(* start() *)

(* One transaction inserts the execution row and its step rows. *)
Start ==
    /\ pc[Starter] = "idle"
    /\ status' = "pending"
    /\ currentStep' = 0
    /\ step' = AllPending
    /\ Goto(Starter, "load")
    /\ UNCHANGED <<engineVars, historyVars, seen, rows, mem, todo>>

-----------------------------------------------------------------------------
(* executeNextStep(): the loop a start() or a retry() leaves running *)

(* getExecution(), first statement: the execution row. *)
LoadExecution(c) ==
    /\ pc[c] = "load"
    /\ seen' = [seen EXCEPT ![c] = status]
    /\ Goto(c, "loadSteps")
    /\ UNCHANGED <<dbVars, engineVars, historyVars, rows, mem, todo>>

(* Mutant of LoadSteps: the loop runs on for running executions only. *)
LoadStepsRunningOnly(c) ==
    /\ pc[c] = "loadSteps"
    /\ rows' = [rows EXCEPT ![c] = step]
    /\ IF seen[c] = "running" THEN Goto(c, NextMove(step)) /\ UNCHANGED processing
                              ELSE Finish(c)
    /\ UNCHANGED <<dbVars, subscribed, historyVars, seen, mem, todo>>

(* getExecution(), second statement: the step rows.  The loop ends unless the *)
(* row it read BEFORE was pending or running.                                 *)
LoadSteps(c) ==
    /\ pc[c] = "loadSteps"
    /\ rows' = [rows EXCEPT ![c] = step]
    /\ \/ /\ seen[c] \notin Active
          /\ Finish(c)
       \/ /\ seen[c] = "pending"
          /\ Goto(c, "markRunning")
          /\ UNCHANGED processing
       \/ /\ seen[c] = "running"
          /\ Goto(c, NextMove(step))
          /\ UNCHANGED processing
    /\ UNCHANGED <<dbVars, subscribed, historyVars, seen, mem, todo>>

(* The update has no WHERE on the status it replaces. *)
MarkRunning(c) ==
    /\ pc[c] = "markRunning"
    /\ status' = "running"
    /\ Goto(c, NextMove(rows[c]))
    /\ UNCHANGED <<currentStep, step, engineVars, historyVars, seen, rows, mem, todo>>

(* Record currentStep and call executeStep() for every step of the batch; *)
(* one whose loaded row is not pending returns at once.                    *)
StartBatch(c) ==
    /\ pc[c] = "setCurrent"
    /\ \E s \in PendingIn(rows[c]) :
         /\ IsFirst(s, PendingIn(rows[c]))
         /\ currentStep' = s
         /\ mem' = [mem EXCEPT ![c] =
                      [t \in Step |-> IF t \notin Batch(s) THEN "none"
                                      ELSE IF rows[c][t] = "pending" THEN "mark" ELSE "ok"]]
    /\ Goto(c, "batch")
    /\ UNCHANGED <<status, step, engineVars, historyVars, seen, rows, todo>>

MemberGoto(c, s, label) == mem' = [mem EXCEPT ![c][s] = label]

(* executeStep(): the row becomes running. *)
MarkStep(c, s) ==
    /\ mem[c][s] = "mark"
    /\ step' = [step EXCEPT ![s] = "running"]
    /\ MemberGoto(c, s, "run")
    /\ UNCHANGED <<status, currentStep, engineVars, historyVars, pc, seen, rows, todo>>

(* executeStep(): mapper and job.run(), which take effect or throw. *)
RunJob(c, s) ==
    /\ mem[c][s] = "run"
    /\ \/ /\ effects' = [effects EXCEPT ![s] = @ + 1]
          /\ MemberGoto(c, s, "save")
       \/ /\ s \in Fallible
          /\ MemberGoto(c, s, "fail")
          /\ UNCHANGED effects
    /\ UNCHANGED <<dbVars, engineVars, faulted, pc, seen, rows, todo>>

(* executeStep(): storeOutput() and the row becomes completed. *)
SaveOutput(c, s) ==
    /\ mem[c][s] = "save"
    /\ step' = [step EXCEPT ![s] = "completed"]
    /\ MemberGoto(c, s, "ok")
    /\ UNCHANGED <<status, currentStep, engineVars, historyVars, pc, seen, rows, todo>>

(* executeStep()'s catch: the row becomes failed, the message is returned, *)
(* the empty one as well.                                                  *)
RecordFailure(c, s) ==
    /\ mem[c][s] = "fail"
    /\ \/ /\ step' = [step EXCEPT ![s] = "failed"]
          /\ MemberGoto(c, s, "err")
       \/ /\ s \in Terse
          /\ step' = [step EXCEPT ![s] = "blank"]
          /\ MemberGoto(c, s, "blank")
    /\ UNCHANGED <<status, currentStep, engineVars, historyVars, pc, seen, rows, todo>>

(* errors.find(e => e !== null): the first member, in step order, that failed. *)
FirstError(m, s) == m[s] \in Answers /\ \A t \in Step : m[t] \in Answers => s <= t

(* Mutant of JoinBatch: the first failure is handled at once. *)
JoinBatchFailFast(c) ==
    /\ pc[c] = "batch"
    /\ \/ (\A s \in Step : mem[c][s] \in {"none", "ok"}) /\ Goto(c, "load")
       \/ \E s \in Step : FirstError(mem[c], s)
                           /\ Goto(c, IF mem[c][s] = "err" THEN "failExec" ELSE "load")
    /\ mem' = [mem EXCEPT ![c] =
                 [s \in Step |-> IF mem[c][s] \in MemberBusy THEN mem[c][s] ELSE "none"]]
    /\ UNCHANGED <<dbVars, engineVars, historyVars, seen, rows, todo>>

(* Mutant of JoinBatch: the errors the members return are dropped. *)
JoinBatchNoErrors(c) ==
    /\ pc[c] = "batch"
    /\ \A s \in Step : mem[c][s] \in {"none", "ok"} \cup Answers
    /\ Goto(c, "load")
    /\ mem' = [mem EXCEPT ![c] = NoMembers]
    /\ UNCHANGED <<dbVars, engineVars, historyVars, seen, rows, todo>>

(* Promise.all() over the batch resolves once every executeStep() returned.   *)
(* The loop stops if the first error is truthy: an empty message is not, and  *)
(* the loop runs on over that step and over those that failed after it.       *)
JoinBatch(c) ==
    /\ pc[c] = "batch"
    /\ \A s \in Step : mem[c][s] \in {"none", "ok"} \cup Answers
    /\ \/ (\A s \in Step : mem[c][s] \notin Answers) /\ Goto(c, "load")
       \/ \E s \in Step : FirstError(mem[c], s)
                           /\ Goto(c, IF mem[c][s] = "err" THEN "failExec" ELSE "load")
    /\ mem' = [mem EXCEPT ![c] = NoMembers]
    /\ UNCHANGED <<dbVars, engineVars, historyVars, seen, rows, todo>>

(* An executeStep() that throws rejects Promise.all() at once: the loop ends *)
(* with the exception while the other members run on.                       *)
RejectBatch(c) ==
    /\ pc[c] = "batch"
    /\ \E s \in Step : mem[c][s] = "threw"
    /\ Finish(c)
    /\ UNCHANGED <<dbVars, subscribed, historyVars, seen, rows, mem, todo>>

(* completeExecution(): the update has no WHERE on the status either. *)
Complete(c) ==
    /\ pc[c] = "complete"
    /\ status' = "completed"
    /\ EmitTerminal(c)
    /\ Finish(c)
    /\ UNCHANGED <<currentStep, step, historyVars, seen, rows, mem, todo>>

(* handleStepFailure() *)
FailExecution(c) ==
    /\ pc[c] = "failExec"
    /\ status' = "failed"
    /\ EmitTerminal(c)
    /\ IF RollbackEnabled THEN Goto(c, "rbMark") /\ UNCHANGED processing
                          ELSE Finish(c)
    /\ UNCHANGED <<currentStep, step, historyVars, seen, rows, mem, todo>>

-----------------------------------------------------------------------------
(* executeRollback(), called by handleStepFailure() and by cancel() *)

BeginRollback(c) ==
    /\ pc[c] = "rbMark"
    /\ status' = "compensating"
    /\ Goto(c, "rbLoad")
    /\ UNCHANGED <<currentStep, step, engineVars, historyVars, seen, rows, mem, todo>>

(* Mutant of LoadCompleted: the rows the loop read before its last batch. *)
LoadCompletedStale(c) ==
    /\ pc[c] = "rbLoad"
    /\ todo' = [todo EXCEPT ![c] = {s \in Compensable : rows[c][s] = "completed"}]
    /\ Goto(c, "compensate")
    /\ UNCHANGED <<dbVars, engineVars, historyVars, seen, rows, mem>>

(* Mutant of LoadCompleted: failed steps are compensated too. *)
LoadCompletedAndFailed(c) ==
    /\ pc[c] = "rbLoad"
    /\ todo' = [todo EXCEPT ![c] = {s \in Compensable : step[s] \in {"completed"} \cup Failed}]
    /\ Goto(c, "compensate")
    /\ UNCHANGED <<dbVars, engineVars, historyVars, seen, rows, mem>>

(* The rows that are completed NOW are the ones that will be compensated. *)
LoadCompleted(c) ==
    /\ pc[c] = "rbLoad"
    /\ todo' = [todo EXCEPT ![c] = {s \in Compensable : step[s] = "completed"}]
    /\ Goto(c, "compensate")
    /\ UNCHANGED <<dbVars, engineVars, historyVars, seen, rows, mem>>

(* compensate() of the last step left undoes one run of its job. *)
Compensate(c) ==
    /\ pc[c] = "compensate"
    /\ \E s \in todo[c] :
         /\ IsLast(s, todo[c])
         /\ effects' = [effects EXCEPT ![s] = @ - 1]
    /\ Goto(c, "markCompensated")
    /\ UNCHANGED <<dbVars, engineVars, faulted, seen, rows, mem, todo>>

MarkCompensated(c) ==
    /\ pc[c] = "markCompensated"
    /\ \E s \in todo[c] :
         /\ IsLast(s, todo[c])
         /\ step' = [step EXCEPT ![s] = "compensated"]
         /\ todo' = [todo EXCEPT ![c] = @ \ {s}]
    /\ Goto(c, "compensate")
    /\ UNCHANGED <<status, currentStep, engineVars, historyVars, seen, rows, mem>>

(* Mutant of EndRollback: the last status update is missing. *)
EndRollbackSilently(c) ==
    /\ pc[c] = "compensate"
    /\ todo[c] = {}
    /\ Finish(c)
    /\ UNCHANGED <<dbVars, subscribed, historyVars, seen, rows, mem, todo>>

EndRollback(c) ==
    /\ pc[c] = "compensate"
    /\ todo[c] = {}
    /\ status' = "compensated"
    /\ Finish(c)
    /\ UNCHANGED <<currentStep, step, subscribed, historyVars, seen, rows, mem, todo>>

-----------------------------------------------------------------------------
(* retry() *)

(* The guard reads processingExecutions before the first await ... *)
Retry(r) ==
    /\ pc[r] = "idle"
    /\ ClientMayCall
    /\ Goto(r, IF Home[r] \in processing THEN "done" ELSE "rtLoad")
    /\ UNCHANGED <<dbVars, engineVars, historyVars, seen, rows, mem, todo>>

RetryLoad(r) ==
    /\ pc[r] = "rtLoad"
    /\ seen' = [seen EXCEPT ![r] = status]
    /\ Goto(r, "rtLoadSteps")
    /\ UNCHANGED <<dbVars, engineVars, historyVars, rows, mem, todo>>

(* ... and the id is added to it two statements later. *)
RetryAdmit(r) ==
    /\ pc[r] = "rtLoadSteps"
    /\ rows' = [rows EXCEPT ![r] = step]
    /\ \/ /\ seen[r] \notin Retryable
          /\ Goto(r, "done")
          /\ UNCHANGED processing
       \/ /\ seen[r] \in Retryable
          /\ Goto(r, IF Resumable THEN "rtResume" ELSE "rtResetAll")
          /\ processing' = processing \cup {Home[r]}
    /\ UNCHANGED <<dbVars, subscribed, historyVars, seen, mem, todo>>

(* Resumable: running first, then one update per row that was failed. *)
Resume(r) ==
    /\ pc[r] = "rtResume"
    /\ status' = "running"
    /\ LET failed == {s \in Step : rows[r][s] \in Failed}
       IN  /\ todo' = [todo EXCEPT ![r] = failed]
           /\ Goto(r, IF failed = {} THEN "load" ELSE "rtResetFailed")
    /\ UNCHANGED <<currentStep, step, engineVars, historyVars, seen, rows, mem>>

ResetFailedStep(r) ==
    /\ pc[r] = "rtResetFailed"
    /\ \E s \in todo[r] :
         /\ IsFirst(s, todo[r])
         /\ step' = [step EXCEPT ![s] = "pending"]
         /\ todo' = [todo EXCEPT ![r] = @ \ {s}]
         /\ Goto(r, IF todo[r] = {s} THEN "load" ELSE "rtResetFailed")
    /\ UNCHANGED <<status, currentStep, engineVars, historyVars, seen, rows, mem>>

(* Mutant of ResetAllSteps: as when resumable, only failed rows are reset. *)
ResetOnlyFailed(r) ==
    /\ pc[r] = "rtResetAll"
    /\ step' = [s \in Step |-> IF step[s] \in Failed THEN "pending" ELSE step[s]]
    /\ Goto(r, "rtRestart")
    /\ UNCHANGED <<status, currentStep, engineVars, historyVars, seen, rows, mem, todo>>

(* Not resumable: every row in one update, then the execution row. *)
ResetAllSteps(r) ==
    /\ pc[r] = "rtResetAll"
    /\ step' = AllPending
    /\ Goto(r, "rtRestart")
    /\ UNCHANGED <<status, currentStep, engineVars, historyVars, seen, rows, mem, todo>>

Restart(r) ==
    /\ pc[r] = "rtRestart"
    /\ status' = "pending"
    /\ currentStep' = 0
    /\ Goto(r, "load")
    /\ UNCHANGED <<step, engineVars, historyVars, seen, rows, mem, todo>>

-----------------------------------------------------------------------------
(* cancel() *)

Cancel(x) ==
    /\ pc[x] = "idle"
    /\ ClientMayCall
    /\ Goto(x, "cnLoad")
    /\ UNCHANGED <<dbVars, engineVars, historyVars, seen, rows, mem, todo>>

(* The status is read here and replaced one statement later. *)
CancelLoad(x) ==
    /\ pc[x] = "cnLoad"
    /\ seen' = [seen EXCEPT ![x] = status]
    /\ Goto(x, IF status \in Active THEN "cnMark" ELSE "done")
    /\ UNCHANGED <<dbVars, engineVars, historyVars, rows, mem, todo>>

(* Mutant of CancelMark: a misspelt status. *)
CancelMarkMisspelt(x) ==
    /\ pc[x] = "cnMark"
    /\ status' = "canceled"
    /\ EmitTerminal(x)
    /\ Goto(x, IF x \in CancelRollback THEN "rbMark" ELSE "done")
    /\ UNCHANGED <<currentStep, step, processing, historyVars, seen, rows, mem, todo>>

CancelMark(x) ==
    /\ pc[x] = "cnMark"
    /\ status' = "cancelled"
    /\ EmitTerminal(x)
    /\ Goto(x, IF x \in CancelRollback THEN "rbMark" ELSE "done")
    /\ UNCHANGED <<currentStep, step, processing, historyVars, seen, rows, mem, todo>>

-----------------------------------------------------------------------------
(* subscribe() and the function it returns *)

Subscribe(sv) ==
    /\ status # "none"
    /\ sv \in Watched \ subscribed
    /\ subscribed' = subscribed \cup {sv}
    /\ UNCHANGED <<dbVars, processing, historyVars, callVars>>

Unsubscribe(sv) ==
    /\ sv \in subscribed
    /\ subscribed' = subscribed \ {sv}
    /\ UNCHANGED <<dbVars, processing, historyVars, callVars>>

-----------------------------------------------------------------------------
(* Faults of the environment *)

Inject(kind) == kind \in Faults /\ faulted' = faulted \cup {kind}

(* A statement outside executeStep() throws.  The loop's catch only logs, so *)
(* the rows stay as they are; retry()'s catch or finally clears its guard.   *)
(* A failed download in getCompletedResults() has the same outcome.          *)
StatementFails(c) ==
    /\ Inject("db")
    /\ \/ pc[c] \in (RetryPc \cup CancelPc \cup LoopPc \cup {"rbMark", "rbLoad"}) \ {"batch"}
       \/ pc[c] = "compensate" /\ todo[c] = {}
    /\ IF pc[c] \in GuardPc THEN Finish(c) ELSE Goto(c, "done") /\ UNCHANGED processing
    /\ UNCHANGED <<dbVars, subscribed, effects, seen, rows, mem, todo>>

(* A statement of executeStep() throws: inside the try it is a step failure, *)
(* outside it the exception leaves executeStep().                            *)
StepStatementFails(c, s) ==
    /\ Inject("db")
    /\ \/ mem[c][s] = "save" /\ MemberGoto(c, s, "fail")
       \/ mem[c][s] \in {"mark", "fail"} /\ MemberGoto(c, s, "threw")
    /\ UNCHANGED <<dbVars, engineVars, effects, pc, seen, rows, todo>>

(* storeOutput() cannot upload: the job has run, its step fails. *)
StoreFails(c, s) ==
    /\ Inject("store")
    /\ mem[c][s] = "save"
    /\ MemberGoto(c, s, "fail")
    /\ UNCHANGED <<dbVars, engineVars, effects, pc, seen, rows, todo>>

(* compensate() throws without undoing anything, or its output cannot be    *)
(* resolved: logged, and the rollback goes on with the step before.         *)
CompensateFails(c) ==
    /\ Inject("compensate")
    /\ pc[c] = "compensate"
    /\ \E s \in todo[c] : IsLast(s, todo[c]) /\ todo' = [todo EXCEPT ![c] = @ \ {s}]
    /\ UNCHANGED <<dbVars, engineVars, effects, pc, seen, rows, mem>>

(* compensate() succeeded and the update of its row throws: caught likewise. *)
MarkCompensatedFails(c) ==
    /\ Inject("db")
    /\ pc[c] = "markCompensated"
    /\ \E s \in todo[c] : IsLast(s, todo[c]) /\ todo' = [todo EXCEPT ![c] = @ \ {s}]
    /\ Goto(c, "compensate")
    /\ UNCHANGED <<dbVars, engineVars, effects, seen, rows, mem>>

(* A server stops and starts again: its calls, its jobs and both maps of its *)
(* engine are gone, the rows stay.  Nothing in the engine resumes them.      *)
Crash(sv) ==
    /\ Inject("crash")
    /\ \E c \in Calls : /\ Home[c] = sv
                        /\ pc[c] \notin {"idle", "done"}
                             \/ \E s \in Step : mem[c][s] \in MemberBusy
    /\ pc' = [c \in Calls |-> IF Home[c] = sv /\ pc[c] # "idle" THEN "done" ELSE pc[c]]
    /\ mem' = [c \in Calls |-> IF Home[c] = sv THEN NoMembers ELSE mem[c]]
    /\ processing' = processing \ {sv}
    /\ subscribed' = subscribed \ {sv}
    /\ UNCHANGED <<dbVars, effects, seen, rows, todo>>

-----------------------------------------------------------------------------
LoopStep(c) ==
    \/ LoadExecution(c) \/ LoadSteps(c) \/ MarkRunning(c) \/ StartBatch(c)
    \/ JoinBatch(c) \/ RejectBatch(c) \/ Complete(c) \/ FailExecution(c)

RollbackStep(c) ==
    \/ BeginRollback(c) \/ LoadCompleted(c) \/ Compensate(c)
    \/ MarkCompensated(c) \/ EndRollback(c)

RetryStep(c) ==
    /\ c \in Retries
    /\ \/ RetryLoad(c) \/ RetryAdmit(c) \/ Resume(c)
       \/ ResetFailedStep(c) \/ ResetAllSteps(c) \/ Restart(c)

CancelStep(c) ==
    /\ c \in Cancels
    /\ CancelLoad(c) \/ CancelMark(c)

CallStep(c) == LoopStep(c) \/ RollbackStep(c) \/ RetryStep(c) \/ CancelStep(c)

MemberStep(c, s) ==
    MarkStep(c, s) \/ RunJob(c, s) \/ SaveOutput(c, s) \/ RecordFailure(c, s)

Environment ==
    \/ \E c \in Calls : StatementFails(c) \/ CompensateFails(c) \/ MarkCompensatedFails(c)
    \/ \E c \in Calls, s \in Step : StepStatementFails(c, s) \/ StoreFails(c, s)
    \/ \E sv \in Servers : Crash(sv)

Next ==
    \/ Start
    \/ \E r \in Retries : Retry(r)
    \/ \E x \in Cancels : Cancel(x)
    \/ \E sv \in Watched : Subscribe(sv) \/ Unsubscribe(sv)
    \/ \E c \in Calls : CallStep(c)
    \/ \E c \in Calls, s \in Step : MemberStep(c, s)
    \/ Environment

Spec == Init /\ [][Next]_vars

(* The event loop runs every continuation whose await has been answered, and *)
(* jobs and statements are assumed to answer.  Clients owe no call.          *)
Fairness ==
    /\ WF_vars(Start)
    /\ \A c \in Calls : WF_vars(CallStep(c))
    /\ \A c \in Calls : \A s \in Step : WF_vars(MemberStep(c, s))

FairSpec == Spec /\ Fairness
-----------------------------------------------------------------------------
(* Properties *)

RollingBack(c) == pc[c] \in RollbackPc

(* A call that will still look at the status after writing, or reading, an   *)
(* active one, and so will move the execution on.                             *)
Drives(c) ==
    \/ pc[c] \in {"rtResetFailed", "load", "markRunning", "setCurrent", "batch",
                  "complete", "failExec"}
    \/ pc[c] = "loadSteps" /\ seen[c] \in Active

(* However calls interleave, on one server or on several, no status that says *)
(* "work in progress" is ever left behind by the last call at work: every     *)
(* update of the status is unconditional, and the call whose update stood     *)
(* last is still there to follow it up.  Only a crash or a failed statement   *)
(* strands an execution (the retry and cancel guards then decide its fate).   *)
UnsettledHasOwner ==
    faulted \cap {"crash", "db"} = {} =>
        /\ status \in Active => \E c \in Calls : Drives(c)
        /\ status = "compensating" => \E c \in Calls : RollingBack(c) /\ pc[c] # "rbMark"
        /\ status = "failed" /\ RollbackEnabled => \E c \in Calls : pc[c] = "rbMark"

(* Only a failed statement makes executeStep() throw instead of answer. *)
ThrownMeansFault ==
    \A c \in Calls : \A s \in Step : mem[c][s] = "threw" => "db" \in faulted

(* processingExecutions never keeps an id no retry() on that server is at     *)
(* work on, whatever throws where: a leaked id would refuse every later       *)
(* retry() of the execution until the server restarts.                        *)
GuardReleased ==
    \A sv \in processing : \E r \in Retries : Home[r] = sv /\ pc[r] \in GuardPc

(* The first failed row of its group, and a failed row the loop ran past      *)
(* because the first failure of its group had no message.                     *)
FirstFailed(r, u) == r[u] \in Failed /\ \A v \in Batch(u) : r[v] \in Failed => u <= v
Overlooked(r, t)  == r[t] \in Failed /\ \E u \in Batch(t) : r[u] = "blank" /\ FirstFailed(r, u)

Passed(r, t) == r[t] = "completed" \/ Overlooked(r, t)

(* The mapper of a step that runs was given the result of every earlier step: *)
(* ctx.results holds "results from previous steps", typed as present.  One    *)
(* step may be missing, and only that one: a step that failed in a group      *)
(* whose first error has an empty message, which the loop takes for success.  *)
ResultsComplete ==
    \A c \in Calls : \A s, t \in Step :
        mem[c][s] = "run" /\ Group[t] < Group[s] => Passed(rows[c], t)

(* "Wait for ALL steps to complete before handling failures to prevent        *)
(* rollback from racing with still-running steps": while a call rolls back,   *)
(* no job of the execution is in flight, in its own batch or in any other.    *)
RollbackBarrier ==
    \A c, d \in Calls : \A s \in Step : RollingBack(c) => mem[d][s] \notin MemberBusy

(* No run of a job is compensated twice, whatever fails in between and        *)
(* however often the execution is retried or cancelled.                       *)
NeverOverCompensated == \A s \in Step : effects[s] >= 0

(* Without faults a compensated execution has left nothing behind that a      *)
(* compensate function could have undone.                                     *)
RollbackUndoes ==
    faulted = {} /\ status = "compensated" => \A s \in Compensable : effects[s] = 0

(* Steps are compensated in reverse order: when a row becomes compensated no  *)
(* later compensable row is still completed, but for failed compensations.    *)
CompensatedInReverse ==
    [][\A s, t \in Step :
          /\ step[s] = "completed" /\ step'[s] = "compensated"
          /\ s < t /\ t \in Compensable
          /\ faulted = {}
          => step[t] # "completed"]_vars

(* The comment at the call of completeExecution(): "All steps completed".     *)
CompletedMeansAllSteps == status = "completed" => \A s \in Step : step[s] = "completed"

(* The status flow of the README has no edge out of cancelled but rollback.   *)
CancelledIsFinal ==
    [][status = "cancelled" => status' \in {"cancelled", "compensating"}]_vars

Settled == {"completed", "failed", "compensated", "cancelled"}

(* Without faults an accepted execution settles: a settled status, and every  *)
(* call and every job of it ended.                                            *)
EverySettles == status = "pending" ~> (status \in Settled /\ Quiet)

(* A cancel() past its guard, for good; a start() or retry() at work on the   *)
(* execution, past its own.                                                   *)
TookOver(c) ==
    \/ c \in Cancels /\ seen[c] \in Active /\ pc[c] \in RollbackPc \cup {"done"}
    \/ c \notin Cancels /\ pc[c] \in GuardPc

(* A client subscribed on a server while the execution is at work, and no     *)
(* rollback is under way (a rollback ends without a terminal event), does not *)
(* stay in that server's subscribers map for ever: a terminal event removes   *)
(* it, unless a call on ANOTHER server has taken, or takes, the execution     *)
(* over.  That call's events are emitted there only, and a loop on this       *)
(* server that reads the status it wrote ends without one.                    *)
SubscribersReleased ==
    \A sv \in Watched :
        (sv \in subscribed /\ status \in Active /\ \A c \in Calls : ~RollingBack(c))
            ~> (sv \notin subscribed \/ \E c \in Calls : Home[c] # sv /\ TookOver(c))

(* The outcome of each step in the life cycle, from its row. *)
Outcome == [s \in Step |-> IF step[s] \in {"completed"} \cup Failed THEN step[s] ELSE "none"]

(* The engine, its clients patient, implements the promised life cycle.       *)
Lifecycle == INSTANCE WorkflowLifecycle WITH outcome <- Outcome

ImplementsLifecycle == Lifecycle!Spec
=============================================================================
