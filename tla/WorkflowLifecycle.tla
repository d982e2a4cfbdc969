------------------------- MODULE WorkflowLifecycle -------------------------
(***************************************************************************)
(* What a workflow execution promises its clients: the status flow of      *)
(* packages/workflow/README.md ("Status Flow") with cancel(), rollback and *)
(* retry(), and the outcome of each step.  There are no statements, no     *)
(* calls and no servers here: one atomic event per change.                 *)
(*                                                                         *)
(* One clause is the code's and not the README's: a failure whose message  *)
(* is empty ("blank") stops nothing, and hides the failures that come      *)
(* after it in its group.  With Terse = {} no step is ever blank, and the  *)
(* life cycle is the documented one.                                       *)
(***************************************************************************)
EXTENDS Integers

CONSTANTS NumSteps, Group, Terse, Resumable, RollbackEnabled

VARIABLES status, outcome

lifecycleVars == <<status, outcome>>

Step   == 0 .. NumSteps - 1
Failed == {"failed", "blank"}
Unset  == [s \in Step |-> "none"]

Init == status = "none" /\ outcome = Unset

(* The first of its group to fail, and a failure behind one without a message. *)
First(u) ==
    /\ outcome[u] \in Failed
    /\ \A v \in Step : Group[v] = Group[u] /\ outcome[v] \in Failed => u <= v

Overlooked(t) ==
    /\ outcome[t] \in Failed
    /\ \E u \in Step : Group[u] = Group[t] /\ outcome[u] = "blank" /\ First(u)

Passed(t) == outcome[t] = "completed" \/ Overlooked(t)

Become(from, to) == status \in from /\ status' = to

Accept == Become({"none"}, "pending") /\ UNCHANGED outcome

Begin == Become({"pending"}, "running") /\ UNCHANGED outcome

(* A step ends, well or not, only when every earlier group is behind it. *)
EndStep(s, result) ==
    /\ status = "running"
    /\ outcome[s] = "none"
    /\ \A t \in Step : Group[t] < Group[s] => Passed(t)
    /\ outcome' = [outcome EXCEPT ![s] = result]
    /\ UNCHANGED status

FinishStep(s) == EndStep(s, "completed")

FailStep(s) == EndStep(s, "failed") \/ (s \in Terse /\ EndStep(s, "blank"))

Complete == (\A s \in Step : Passed(s)) /\ Become({"running"}, "completed") /\ UNCHANGED outcome

(* An execution fails for a step that failed, with a message. *)
Fail ==
    /\ \E s \in Step : outcome[s] = "failed" /\ First(s)
    /\ Become({"running"}, "failed")
    /\ UNCHANGED outcome

CancelRun == Become({"pending", "running"}, "cancelled") /\ UNCHANGED outcome

Rollback ==
    \/ RollbackEnabled /\ Become({"failed"}, "compensating") /\ UNCHANGED outcome
    \/ Become({"cancelled"}, "compensating") /\ UNCHANGED outcome

Undo(s) ==
    /\ status = "compensating"
    /\ outcome[s] = "completed"
    /\ outcome' = [outcome EXCEPT ![s] = "none"]
    /\ UNCHANGED status

RolledBack == Become({"compensating"}, "compensated") /\ UNCHANGED outcome

(* retry(): from the failure on, the failed steps forgotten one by one ... *)
Resume == Resumable /\ Become({"failed", "compensated"}, "running") /\ UNCHANGED outcome

Reopen(s) ==
    /\ Resumable
    /\ status = "running"
    /\ outcome[s] \in Failed
    /\ outcome' = [outcome EXCEPT ![s] = "none"]
    /\ UNCHANGED status

(* ... or from nothing. *)
Forget ==
    /\ ~Resumable
    /\ status \in {"failed", "compensated"}
    /\ outcome' = Unset
    /\ UNCHANGED status

Restart ==
    /\ ~Resumable
    /\ outcome = Unset
    /\ Become({"failed", "compensated"}, "pending")
    /\ UNCHANGED outcome

Next ==
    \/ Accept \/ Begin \/ Complete \/ Fail \/ CancelRun \/ Rollback \/ RolledBack
    \/ Resume \/ Forget \/ Restart
    \/ \E s \in Step : FinishStep(s) \/ FailStep(s) \/ Undo(s) \/ Reopen(s)

Spec == Init /\ [][Next]_lifecycleVars
=============================================================================
