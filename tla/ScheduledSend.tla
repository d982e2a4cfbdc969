---------------------------- MODULE ScheduledSend ----------------------------
(***************************************************************************)
(* One notification row of @spfn/notification, unique by its idempotency   *)
(* key, and everybody who writes it: scheduleEmail/SMS/Push calls, the     *)
(* pg-boss job each of them queues and the job's retries, distributed bulk *)
(* sends, keyed sends, and cancels (packages/notification/src: services,   *)
(* jobs/run-scheduled-send.ts, channels).  Every statement and every       *)
(* provider or queue call is a step; between two of them anybody else may  *)
(* run.  pg-boss and the provider are external.                            *)
(***************************************************************************)
EXTENDS Integers, FiniteSets

CONSTANTS
    Schedules,    \* calls that store the row and queue a job for it
    Bulk,         \* the ones among them made by a distributed bulk send
    Guarded,      \* the ones whose job asks a send guard first
    Sends,        \* keyed sends in a caller's own process
    Cancels,      \* cancelNotification() calls
    NoToken,      \* a claim token, or a job id, that is null
    MaxAttempts,  \* bound: times pg-boss runs a job
    Faults        \* what may go wrong, see FaultKinds

FaultKinds == {
    "crash",   \* a process dies: a worker in a job, a caller in a keyed send
    "db",      \* a statement that records an outcome fails
    "throw",   \* a provider, or a guard, throws
    "queue",   \* pg-boss refuses a call, or the caller dies before it
    "expire"}  \* pg-boss gives up on an attempt that is still running

ASSUME SendAssumption ==
    /\ Bulk \subseteq Schedules /\ Guarded \subseteq Schedules \ Bulk
    /\ Schedules \cap Sends = {} /\ Cancels \cap (Schedules \cup Sends) = {}
    /\ Sends \cap (Schedules \X (1 .. MaxAttempts)) = {}
    /\ NoToken \notin Schedules
    /\ MaxAttempts \in Nat \ {0}
    /\ Faults \subseteq FaultKinds

Requests == Schedules \cup Sends \cup Cancels
Attempts == Schedules \X (1 .. MaxAttempts)
Senders  == Attempts \cup Sends    \* whoever calls the provider

Statuses == {"absent", "scheduled", "pending", "sent", "failed", "cancelled", "skipped"}
Claimable == {"scheduled", "pending", "failed"}
Holding   == {"guard", "send", "accepted", "refused", "hopeless", "unwanted"}

VARIABLES
    row,        \* the history row: status, claimToken, jobId, scheduledAt set
    request,    \* where each call is
    answer,     \* what it returned
    job,        \* the state of the job each schedule queued
    tries,      \* how often it has been started
    at,         \* where each attempt of a job, or keyed send, is
    delivered,  \* how often the provider accepted the notification
    lost        \* how many of these no statement recorded

calls == <<request, answer>>
queue == <<job, tries>>
mail  == <<delivered, lost>>
vars  == <<row, calls, queue, at, mail>>

TypeOK ==
    /\ row \in [status : Statuses, token : Schedules \cup {NoToken},
                jobId : Schedules \cup {NoToken}, dated : BOOLEAN]
    /\ request \in [Requests -> {"idle", "read", "enqueue", "store", "cleanup", "done"}]
    /\ answer \in [Requests -> {"none", "success", "failure"}]
    /\ job \in [Schedules -> {"none", "queued", "active", "completed", "cancelled", "failed"}]
    /\ tries \in [Schedules -> 0 .. MaxAttempts]
    /\ at \in [Senders -> {"idle", "claim", "done", "dead"} \cup Holding]
    /\ delivered \in Nat
    /\ lost \in Nat

Init ==
    /\ row = [status |-> "absent", token |-> NoToken, jobId |-> NoToken, dated |-> FALSE]
    /\ request = [r \in Requests |-> "idle"]
    /\ answer = [r \in Requests |-> "none"]
    /\ job = [s \in Schedules |-> "none"]
    /\ tries = [s \in Schedules |-> 0]
    /\ at = [a \in Senders |-> "idle"]
    /\ delivered = 0
    /\ lost = 0

Fault(kind) == kind \in Faults
Return(r, value) ==
    /\ request' = [request EXCEPT ![r] = "done"]
    /\ answer' = [answer EXCEPT ![r] = value]

-----------------------------------------------------------------------------
(* Claiming the row. *)

(* Mutant: a takeover leaves the token it finds unless it brings one. *)
ClaimedKeepingToken(r) ==
    [status |-> IF r \in Schedules \ Bulk THEN "scheduled" ELSE "pending",
     token  |-> IF r \in Schedules THEN r ELSE row.token,
     jobId  |-> NoToken,
     dated  |-> r \in Schedules \ Bulk]

(* claimKeyedSend: the row as the call that inserts it or takes it over      *)
(* leaves it; what the call does not set is cleared.                         *)
Claimed(r) ==
    [status |-> IF r \in Schedules \ Bulk THEN "scheduled" ELSE "pending",
     token  |-> IF r \in Schedules THEN r ELSE NoToken,
     jobId  |-> NoToken,
     dated  |-> r \in Schedules \ Bulk]

(* Mutant: a repeat also takes over a row that was cancelled. *)
TakeoverCancelled(r) ==
    /\ r \in Schedules \cup Sends
    /\ request[r] = "idle"
    /\ IF row.status \in {"absent", "failed", "cancelled"}
       THEN /\ row' = Claimed(r)
            /\ request' = [request EXCEPT ![r] = IF r \in Sends THEN "done" ELSE "enqueue"]
            /\ at' = IF r \in Sends THEN [at EXCEPT ![r] = "send"] ELSE at
       ELSE /\ request' = [request EXCEPT ![r] = "read"]
            /\ UNCHANGED <<row, at>>
    /\ UNCHANGED <<answer, queue, mail>>

(* A keyed schedule or send: the row is inserted, or taken over if it failed *)
(* (one upsert), and otherwise read.                                         *)
ClaimKeyed(r) ==
    /\ r \in Schedules \cup Sends
    /\ request[r] = "idle"
    /\ IF row.status \in {"absent", "failed"}
       THEN /\ row' = Claimed(r)
            /\ request' = [request EXCEPT ![r] = IF r \in Sends THEN "done" ELSE "enqueue"]
            /\ at' = IF r \in Sends THEN [at EXCEPT ![r] = "send"] ELSE at
       ELSE /\ request' = [request EXCEPT ![r] = "read"]
            /\ UNCHANGED <<row, at>>
    /\ UNCHANGED <<answer, queue, mail>>

(* A call's first statement, or the read of the row, fails: nothing is done. *)
RequestFails(r) ==
    /\ Fault("db")
    /\ request[r] \in {"idle", "read"}
    /\ Return(r, "failure")
    /\ UNCHANGED <<row, queue, at, mail>>

(* The key is spent: the answer is what the row says now. *)
Duplicate(r) ==
    /\ request[r] = "read"
    /\ LET spent == IF r \in Schedules \ Bulk THEN {"scheduled", "sent"} ELSE {"sent"}
       IN Return(r, IF row.status \in spent THEN "success" ELSE "failure")
    /\ UNCHANGED <<row, queue, at, mail>>

-----------------------------------------------------------------------------
(* Scheduling. *)

Enqueue(s) ==
    /\ request[s] = "enqueue"
    /\ job' = [job EXCEPT ![s] = "queued"]
    /\ IF s \in Bulk THEN Return(s, "success")
       ELSE request' = [request EXCEPT ![s] = "store"] /\ UNCHANGED answer
    /\ UNCHANGED <<row, tries, at, mail>>

(* pg-boss refuses the job, or is not running: the row stays as it is. *)
EnqueueFails(s) ==
    /\ Fault("queue")
    /\ request[s] = "enqueue"
    /\ Return(s, "failure")
    /\ UNCHANGED <<row, queue, at, mail>>

(* The job's id goes on the row, whoever has the row by now.  A statement    *)
(* that fails makes the schedule report a failure, though its job is queued. *)
StoreJobId(s) ==
    /\ request[s] = "store"
    /\ \/ row' = [row EXCEPT !.jobId = s] /\ Return(s, "success")
       \/ Fault("db") /\ Return(s, "failure") /\ UNCHANGED row
    /\ UNCHANGED <<queue, at, mail>>

-----------------------------------------------------------------------------
(* Cancelling. *)

(* Mutant: a cancel takes any row that is not sent. *)
CancelUnlessSent(x) ==
    /\ request[x] = "idle"
    /\ IF row.dated /\ row.status \in {"scheduled", "failed", "pending"}
       THEN /\ row' = [row EXCEPT !.status = "cancelled"]
            /\ request' = [request EXCEPT ![x] = "cleanup"]
            /\ UNCHANGED answer
       ELSE Return(x, "failure") /\ UNCHANGED row
    /\ UNCHANGED <<queue, at, mail>>

Removable(id) == id # NoToken /\ job[id] \in {"queued", "active"}

(* Mutant: the queue first, then the row. *)
CancelJobFirst(x) ==
    /\ x \in Cancels /\ request[x] = "idle"
    /\ job' = IF Removable(row.jobId) THEN [job EXCEPT ![row.jobId] = "cancelled"] ELSE job
    /\ request' = [request EXCEPT ![x] = "cleanup"]
    /\ UNCHANGED <<row, answer, tries, at, mail>>

(* One guarded update: a scheduled row that waits for its job or a retry. *)
Cancel(x) ==
    /\ x \in Cancels /\ request[x] = "idle"
    /\ IF row.dated /\ row.status \in {"scheduled", "failed"}
       THEN /\ row' = [row EXCEPT !.status = "cancelled"]
            /\ request' = [request EXCEPT ![x] = "cleanup"]
            /\ UNCHANGED answer
       ELSE Return(x, "failure") /\ UNCHANGED row
    /\ UNCHANGED <<queue, at, mail>>

(* The job whose id the row has now is removed from the queue, if it can be; *)
(* an attempt of it that runs is not stopped.                                *)
CancelQueuedJob(x) ==
    /\ request[x] = "cleanup"
    /\ \/ /\ IF Removable(row.jobId)
             THEN job' = [job EXCEPT ![row.jobId] = "cancelled"] ELSE UNCHANGED job
          /\ Return(x, "success")
       \/ Fault("queue") /\ Return(x, "success") /\ UNCHANGED job
       \/ Fault("db") /\ Return(x, "failure") /\ UNCHANGED job
    /\ UNCHANGED <<row, tries, at, mail>>

-----------------------------------------------------------------------------
(* pg-boss runs a job. *)

(* The attempt's outcome counts only while pg-boss waits for it. *)
Awaited(a) == a \in Attempts /\ job[a[1]] = "active" /\ tries[a[1]] = a[2]
Completed(a) == job' = IF Awaited(a) THEN [job EXCEPT ![a[1]] = "completed"] ELSE job

(* Mutant: the retry limit is not passed on. *)
AlwaysRetried(s) == "queued"
AfterFailure(s) == IF tries[s] < MaxAttempts THEN "queued" ELSE "failed"
Failed(a) == job' = IF Awaited(a) THEN [job EXCEPT ![a[1]] = AfterFailure(a[1])] ELSE job

Fetch(s) ==
    /\ job[s] = "queued"
    /\ job' = [job EXCEPT ![s] = "active"]
    /\ tries' = [tries EXCEPT ![s] = @ + 1]
    /\ at' = [at EXCEPT ![<<s, tries[s] + 1>>] = "claim"]
    /\ UNCHANGED <<row, calls, mail>>

(* An attempt that died, or takes too long, is counted as failed. *)
Expire(s) ==
    /\ job[s] = "active"
    /\ at[<<s, tries[s]>>] = "dead" \/ Fault("expire")
    /\ job' = [job EXCEPT ![s] = AfterFailure(s)]
    /\ UNCHANGED <<row, calls, tries, at, mail>>

(* Mutant: the job does not look at the token. *)
ClaimForJobByStatus(a) ==
    /\ at[a] = "claim"
    /\ IF row.status \in Claimable
       THEN /\ row' = [row EXCEPT !.status = "pending"]
            /\ at' = [at EXCEPT ![a] = IF a[1] \in Guarded THEN "guard" ELSE "send"]
            /\ UNCHANGED job
       ELSE /\ at' = [at EXCEPT ![a] = "done"]
            /\ Completed(a)
            /\ UNCHANGED row
    /\ UNCHANGED <<calls, tries, mail>>

(* claimNotificationForJob: the row may still be sent and is still the job's. *)
ClaimForJob(a) ==
    /\ at[a] = "claim"
    /\ IF row.status \in Claimable /\ row.token = a[1]
       THEN /\ row' = [row EXCEPT !.status = "pending"]
            /\ at' = [at EXCEPT ![a] = IF a[1] \in Guarded THEN "guard" ELSE "send"]
            /\ UNCHANGED job
       ELSE /\ at' = [at EXCEPT ![a] = "done"]
            /\ Completed(a)
            /\ UNCHANGED row
    /\ UNCHANGED <<calls, tries, mail>>

(* The claim fails: the attempt ends with the row as it was. *)
ClaimForJobFails(a) ==
    /\ Fault("db")
    /\ at[a] = "claim"
    /\ at' = [at EXCEPT ![a] = "dead"]
    /\ Failed(a)
    /\ UNCHANGED <<row, calls, tries, mail>>

(* The guard says yes, says no, throws, or is not registered. *)
AskGuard(a) ==
    /\ at[a] = "guard"
    /\ \E verdict \in {"send", "unwanted", "hopeless"} \cup (IF Fault("throw") THEN {"refused"} ELSE {}) :
         at' = [at EXCEPT ![a] = verdict]
    /\ UNCHANGED <<row, calls, queue, mail>>

-----------------------------------------------------------------------------
(* Sending, in a job or in a keyed send. *)

ProviderAccepts(a) ==
    /\ at[a] = "send"
    /\ at' = [at EXCEPT ![a] = "accepted"]
    /\ delivered' = delivered + 1
    /\ UNCHANGED <<row, calls, queue, lost>>

(* An error is worth a retry, or (in a job) is not. *)
ProviderRefuses(a) ==
    /\ at[a] = "send"
    /\ \E verdict \in IF a \in Sends THEN {"refused"} ELSE {"refused", "hopeless"} :
         at' = [at EXCEPT ![a] = verdict]
    /\ UNCHANGED <<row, calls, queue, mail>>

(* A provider that throws leaves the row pending. *)
ProviderThrows(a) ==
    /\ Fault("throw")
    /\ at[a] = "send"
    /\ at' = [at EXCEPT ![a] = "done"]
    /\ Failed(a)
    /\ answer' = IF a \in Sends THEN [answer EXCEPT ![a] = "failure"] ELSE answer
    /\ UNCHANGED <<row, request, tries, mail>>

OutcomeOf(a) ==
    CASE at[a] = "accepted" -> "sent"
      [] at[a] = "unwanted" -> "skipped"
      [] OTHER              -> "failed"

(* The outcome is written to the row, by its id alone (skipped: only over    *)
(* pending).  A refusal makes the job fail, so that it is retried.           *)
Record(a) ==
    /\ at[a] \in {"accepted", "refused", "hopeless", "unwanted"}
    /\ row' = IF at[a] = "unwanted" /\ row.status # "pending" THEN row
              ELSE [row EXCEPT !.status = OutcomeOf(a)]
    /\ at' = [at EXCEPT ![a] = "done"]
    /\ IF at[a] = "refused" THEN Failed(a) ELSE Completed(a)
    /\ answer' = IF a \in Sends
                 THEN [answer EXCEPT ![a] = IF at[a] = "accepted" THEN "success" ELSE "failure"]
                 ELSE answer
    /\ UNCHANGED <<request, tries, mail>>

(* The statement fails: a job throws and is retried, a keyed send answers    *)
(* what the provider said.                                                   *)
RecordFails(a) ==
    /\ Fault("db")
    /\ at[a] \in {"accepted", "refused", "hopeless", "unwanted"}
    /\ at' = [at EXCEPT ![a] = "done"]
    /\ Failed(a)
    /\ answer' = IF a \in Sends
                 THEN [answer EXCEPT ![a] = IF at[a] = "accepted" THEN "success" ELSE "failure"]
                 ELSE answer
    /\ lost' = IF at[a] = "accepted" THEN lost + 1 ELSE lost
    /\ UNCHANGED <<row, request, tries, delivered>>

(* The process dies.  (A caller that dies before it queued its job has       *)
(* failed to queue it.)                                                      *)
Crash(a) ==
    /\ Fault("crash")
    /\ at[a] \in {"claim"} \cup Holding
    /\ at' = [at EXCEPT ![a] = "dead"]
    /\ lost' = IF at[a] = "accepted" THEN lost + 1 ELSE lost
    /\ UNCHANGED <<row, calls, queue, delivered>>

(* markNotificationFailed by an operator, who has checked that nobody sends, *)
(* frees a key whose row was left pending by a keyed send.                   *)
FreeKey ==
    /\ row.status = "pending" /\ row.token = NoToken
    /\ \A a \in Senders : at[a] \notin Holding
    /\ row' = [row EXCEPT !.status = "failed"]
    /\ UNCHANGED <<calls, queue, at, mail>>

-----------------------------------------------------------------------------

Step ==
    \/ \E r \in Schedules \cup Sends : ClaimKeyed(r) \/ Duplicate(r)
    \/ \E r \in Requests : RequestFails(r)
    \/ \E s \in Schedules :
         Enqueue(s) \/ EnqueueFails(s) \/ StoreJobId(s) \/ Fetch(s) \/ Expire(s)
    \/ \E x \in Cancels : Cancel(x) \/ CancelQueuedJob(x)
    \/ \E a \in Attempts : ClaimForJob(a) \/ ClaimForJobFails(a) \/ AskGuard(a)
    \/ \E a \in Senders :
         \/ ProviderAccepts(a) \/ ProviderRefuses(a) \/ ProviderThrows(a)
         \/ Record(a) \/ RecordFails(a) \/ Crash(a)
    \/ FreeKey

Spec == Init /\ [][Step]_vars

(* Callers and workers run, pg-boss polls and expires what died. *)
FairSpec == Spec /\ WF_vars(Step)

-----------------------------------------------------------------------------
(* Properties *)

HoldersToken(a) == IF a \in Sends THEN NoToken ELSE a[1]

(* Between its claim and the statement that records the outcome, whoever     *)
(* sends has the row for itself: it is pending, with its own token.          *)
(* (claimNotificationForJob, claimKeyedSend; markNotificationSent and        *)
(* markNotificationFailed write by id and rely on it.)                       *)
HolderOwnsRow ==
    \A a \in Senders : at[a] \in Holding =>
        /\ row.status = "pending" /\ row.token = HoldersToken(a)
        /\ \A b \in Senders : at[b] \in Holding => b = a

(* "success: true means the notification will not be sent" (README, cancel): *)
(* once cancelled, for good, and nobody is sending or about to.              *)
CancelMeansNotSent ==
    \A x \in Cancels : answer[x] = "success" =>
        /\ row.status = "cancelled"
        /\ \A a \in Senders : at[a] \notin Holding

(* A row is delivered a second time only if the record of the first delivery *)
(* was lost, to a crash or a failed statement: keys, tokens and retries add  *)
(* no duplicate of their own.                                                *)
DuplicatesOnlyLost == delivered <= 1 + lost

(* Nobody will look at the row: its job could not be queued, and the call    *)
(* said so, or every attempt of it died first.                               *)
Stranded(s) ==
    \/ job[s] = "none" /\ answer[s] = "failure"
    \/ \A n \in 1 .. MaxAttempts : at[<<s, n>>] = "dead"

(* A row that says scheduled belongs to a job that will look at it, or to a  *)
(* call about to queue one (openScheduledRow answers success to a repeat on  *)
(* the strength of that status), unless it is stranded.                      *)
ScheduledHasJob ==
    row.status = "scheduled" =>
        \E s \in Schedules :
            /\ row.token = s
            /\ request[s] = "enqueue" \/ job[s] \in {"queued", "active"} \/ Stranded(s)

(* A scheduled row is sent, skipped, cancelled, or given up on. *)
ScheduledSettles ==
    row.status = "scheduled" ~>
        row.status # "scheduled" \/ \E s \in Schedules : row.token = s /\ Stranded(s)

-----------------------------------------------------------------------------
(* The row implements the promise of one notification. *)

Promise == INSTANCE NotificationPromise WITH
    state <- CASE row.status = "absent"                   -> "none"
               [] row.status \in {"scheduled", "failed"} -> "waiting"
               [] row.status = "pending"                 -> "sending"
               [] OTHER                                  -> row.status

(* The row's history is that of a notification that is cancelled, skipped,   *)
(* or sent, once and for all, and is delivered only while it is being sent.  *)
ImplementsPromise == Promise!Spec
=============================================================================
