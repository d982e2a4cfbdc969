------------------------ MODULE ScheduledSend_proofs ------------------------
(***************************************************************************)
(* What ScheduledSend promises for any number of schedules, bulk items,    *)
(* keyed sends and cancels, any retry limit and any faults; all but the    *)
(* first theorem need attempts that pg-boss does not give up on while they *)
(* run ("expire"): two attempts of one job carry one token.                *)
(***************************************************************************)
EXTENDS ScheduledSend, TLAPS

USE SendAssumption

(* A job is queued once, by its schedule, and fetched up to its limit. *)
JobsOK ==
    \A s \in Schedules :
        /\ request[s] \in {"idle", "read", "enqueue"} => job[s] = "none" /\ tries[s] = 0
        /\ job[s] = "queued" => tries[s] < MaxAttempts

Typed == TypeOK /\ JobsOK

LEMMA TypedInit == Init => Typed
  BY DEF Init, Typed, TypeOK, JobsOK, Attempts, Requests, Senders, Statuses

(* Calls: claims of the row, schedules, cancels. *)
LEMMA TypedCalls ==
  ASSUME Typed,
         \/ \E r \in Schedules \cup Sends : ClaimKeyed(r) \/ Duplicate(r)
         \/ \E r \in Requests : RequestFails(r)
         \/ \E s \in Schedules : Enqueue(s) \/ EnqueueFails(s) \/ StoreJobId(s)
         \/ \E x \in Cancels : Cancel(x) \/ CancelQueuedJob(x)
         \/ FreeKey
  PROVE  Typed'
  <1> USE DEF Typed, TypeOK, JobsOK, calls, queue, mail, Requests, Senders, Statuses, Return
  <1>1. ASSUME NEW r \in Schedules \cup Sends, ClaimKeyed(r) PROVE Typed'
    <2>1. Claimed(r) \in [status : Statuses, token : Schedules \cup {NoToken},
                          jobId : Schedules \cup {NoToken}, dated : BOOLEAN]
      BY DEF Claimed
    <2>2. row' \in {row, Claimed(r)}
      BY <1>1 DEF ClaimKeyed
    <2>3. /\ request' \in [Requests -> {"idle", "read", "enqueue", "store", "cleanup", "done"}]
          /\ \A s \in Schedules : request'[s] \in {"idle", "read", "enqueue"}
                                   => request[s] \in {"idle", "read", "enqueue"}
      BY <1>1 DEF ClaimKeyed
    <2>4. at' \in [Senders -> {"idle", "claim", "done", "dead"} \cup Holding]
      BY <1>1 DEF ClaimKeyed, Holding
    <2>5. UNCHANGED <<answer, queue, mail>>
      BY <1>1 DEF ClaimKeyed
    <2> QED BY <2>1, <2>2, <2>3, <2>4, <2>5
  <1>2. ASSUME NEW r \in Schedules \cup Sends, Duplicate(r) PROVE Typed'
    BY <1>2 DEF Duplicate
  <1>3. ASSUME NEW r \in Requests, RequestFails(r) PROVE Typed'
    BY <1>3 DEF RequestFails
  <1>4. ASSUME NEW s \in Schedules, Enqueue(s) PROVE Typed'
    BY <1>4 DEF Enqueue
  <1>5. ASSUME NEW s \in Schedules, EnqueueFails(s) PROVE Typed'
    BY <1>5 DEF EnqueueFails
  <1>6. ASSUME NEW s \in Schedules, StoreJobId(s) PROVE Typed'
    BY <1>6 DEF StoreJobId
  <1>7. ASSUME NEW x \in Cancels, Cancel(x) PROVE Typed'
    BY <1>7 DEF Cancel
  <1>8. ASSUME NEW x \in Cancels, CancelQueuedJob(x) PROVE Typed'
    BY <1>8 DEF CancelQueuedJob, Removable
  <1>9. ASSUME FreeKey PROVE Typed'
    BY <1>9 DEF FreeKey
  <1> QED BY <1>1, <1>2, <1>3, <1>4, <1>5, <1>6, <1>7, <1>8, <1>9

(* What pg-boss makes of an attempt that ends. *)
LEMMA JobsAfterOutcome ==
  ASSUME Typed, NEW a \in Senders, Completed(a) \/ Failed(a)
  PROVE  /\ job' \in [Schedules -> {"none", "queued", "active", "completed", "cancelled", "failed"}]
         /\ \A s \in Schedules :
              /\ job'[s] # job[s] => job[s] = "active"
              /\ job'[s] = "queued" => tries[s] < MaxAttempts
  BY DEF Typed, TypeOK, JobsOK, Completed, Failed, Awaited, AfterFailure, Attempts

(* Attempts and senders. *)
LEMMA TypedAttempts ==
  ASSUME Typed,
         \/ \E s \in Schedules : Fetch(s) \/ Expire(s)
         \/ \E a \in Attempts : ClaimForJob(a) \/ ClaimForJobFails(a) \/ AskGuard(a)
         \/ \E a \in Senders :
              \/ ProviderAccepts(a) \/ ProviderRefuses(a) \/ ProviderThrows(a)
              \/ Record(a) \/ RecordFails(a) \/ Crash(a)
  PROVE  Typed'
  <1> USE DEF Typed, TypeOK, JobsOK, calls, queue, mail, Senders, Statuses, Holding
  <1>1. ASSUME NEW s \in Schedules, Fetch(s) PROVE Typed'
    BY <1>1 DEF Fetch, Attempts
  <1>2. ASSUME NEW s \in Schedules, Expire(s) PROVE Typed'
    BY <1>2 DEF Expire, AfterFailure
  <1>3. ASSUME NEW a \in Attempts, ClaimForJob(a) PROVE Typed'
    BY <1>3, JobsAfterOutcome DEF ClaimForJob
  <1>4. ASSUME NEW a \in Attempts, ClaimForJobFails(a) PROVE Typed'
    BY <1>4, JobsAfterOutcome DEF ClaimForJobFails
  <1>5. ASSUME NEW a \in Attempts, AskGuard(a) PROVE Typed'
    BY <1>5 DEF AskGuard
  <1>6. ASSUME NEW a \in Senders, ProviderAccepts(a) PROVE Typed'
    BY <1>6 DEF ProviderAccepts
  <1>7. ASSUME NEW a \in Senders, ProviderRefuses(a) PROVE Typed'
    BY <1>7 DEF ProviderRefuses
  <1>8. ASSUME NEW a \in Senders, ProviderThrows(a) PROVE Typed'
    BY <1>8, JobsAfterOutcome DEF ProviderThrows
  <1>9. ASSUME NEW a \in Senders, Record(a) PROVE Typed'
    BY <1>9, JobsAfterOutcome DEF Record, OutcomeOf
  <1>10. ASSUME NEW a \in Senders, RecordFails(a) PROVE Typed'
    <2>1. answer' \in [Requests -> {"none", "success", "failure"}] /\ lost' \in Nat
      BY <1>10 DEF RecordFails, Requests
    <2>2. Failed(a) /\ at' \in [Senders -> {"idle", "claim", "done", "dead"} \cup Holding]
      BY <1>10 DEF RecordFails
    <2>3. UNCHANGED <<row, request, tries, delivered>>
      BY <1>10 DEF RecordFails
    <2> QED BY <2>1, <2>2, <2>3, JobsAfterOutcome
  <1>11. ASSUME NEW a \in Senders, Crash(a) PROVE Typed'
    BY <1>11 DEF Crash
  <1> QED BY <1>1, <1>2, <1>3, <1>4, <1>5, <1>6, <1>7, <1>8, <1>9, <1>10, <1>11

LEMMA TypedStep == Typed /\ [Step]_vars => Typed'
  <1> SUFFICES ASSUME Typed, [Step]_vars PROVE Typed'
    OBVIOUS
  <1>1. CASE Step
    BY <1>1, TypedCalls, TypedAttempts DEF Step
  <1>2. CASE UNCHANGED vars
    BY <1>2 DEF vars, calls, queue, mail, Typed, TypeOK, JobsOK
  <1> QED BY <1>1, <1>2

(* Every variable keeps its type: in particular a job is never fetched more  *)
(* often than its retry limit allows (queue of runScheduledSend).            *)
THEOREM TypeCorrect == Spec => []TypeOK
  <1>1. Typed => TypeOK
    BY DEF Typed
  <1> QED BY <1>1, TypedInit, TypedStep, PTL DEF Spec

-----------------------------------------------------------------------------
(* Whoever sends has the row for itself. *)

Running(a) == at[a] \in {"claim"} \cup Holding

(* Of the attempts of a job only the last may run, and then pg-boss does not *)
(* hold the job ready for another.                                           *)
OneAttempt ==
    \A s \in Schedules, n \in 1 .. MaxAttempts :
        Running(<<s, n>>) => n = tries[s] /\ job[s] # "queued"

Owned == Typed /\ OneAttempt /\ HolderOwnsRow

LEMMA OwnedInit == Init => Owned
  <1> SUFFICES ASSUME Init PROVE OneAttempt /\ HolderOwnsRow
    BY TypedInit DEF Owned
  <1>1. OneAttempt
    BY DEF Init, OneAttempt, Running, Holding, Senders, Attempts
  <1>2. HolderOwnsRow
    BY DEF Init, HolderOwnsRow, Holding
  <1> QED BY <1>1, <1>2

(* No call of a client starts an attempt or touches a row that is held. *)
LEMMA ClaimOwned ==
  ASSUME Owned, NEW r \in Schedules \cup Sends, ClaimKeyed(r)
  PROVE  OneAttempt' /\ HolderOwnsRow'
  <1> USE DEF Owned, Typed, TypeOK, Senders, Holding
  <1>1. CASE row.status \in {"absent", "failed"}
    <2>1. \A b \in Senders : at[b] \notin Holding
      BY <1>1 DEF HolderOwnsRow
    <2>2. row' = Claimed(r) /\ at' = IF r \in Sends THEN [at EXCEPT ![r] = "send"] ELSE at
      BY <1>1 DEF ClaimKeyed
    <2>3. HolderOwnsRow'
      BY <2>1, <2>2 DEF HolderOwnsRow, HoldersToken, Claimed
    <2>4. \A b \in Attempts : at'[b] = at[b]
      BY <2>2 DEF Attempts
    <2>5. OneAttempt'
      BY <2>4 DEF OneAttempt, Running, ClaimKeyed, queue, Attempts
    <2> QED BY <2>3, <2>5
  <1>2. CASE row.status \notin {"absent", "failed"}
    BY <1>2 DEF ClaimKeyed, queue, OneAttempt, Running, HolderOwnsRow, HoldersToken
  <1> QED BY <1>1, <1>2

LEMMA CallsOwned ==
  ASSUME Owned,
         \/ \E r \in Schedules \cup Sends : Duplicate(r)
         \/ \E r \in Requests : RequestFails(r)
         \/ \E s \in Schedules : Enqueue(s) \/ EnqueueFails(s) \/ StoreJobId(s)
         \/ \E x \in Cancels : Cancel(x) \/ CancelQueuedJob(x)
         \/ FreeKey
  PROVE  OneAttempt' /\ HolderOwnsRow'
  <1>1. UNCHANGED <<at, tries>>
    BY DEF Duplicate, RequestFails, Enqueue, EnqueueFails, StoreJobId, Cancel, CancelQueuedJob,
           FreeKey, queue
  <1>2. \A s \in Schedules : job'[s] = "queued" => job[s] = "queued" \/ tries[s] = 0
    BY DEF Duplicate, RequestFails, Enqueue, EnqueueFails, StoreJobId, Cancel, CancelQueuedJob,
           FreeKey, queue, Owned, Typed, TypeOK, JobsOK, Removable
  <1>3. OneAttempt'
    BY <1>1, <1>2 DEF OneAttempt, Running, Owned
  <1>4. \/ row'.status = row.status /\ row'.token = row.token
        \/ \A a \in Senders : at[a] \notin Holding
    BY DEF Duplicate, RequestFails, Enqueue, EnqueueFails, StoreJobId, Cancel, CancelQueuedJob,
           FreeKey, Owned, HolderOwnsRow, Typed, TypeOK
  <1>5. HolderOwnsRow'
    BY <1>1, <1>4 DEF HolderOwnsRow, HoldersToken, Owned
  <1> QED BY <1>3, <1>5

(* pg-boss starts an attempt only when the one before it has ended. *)
LEMMA FetchOwned ==
  ASSUME "expire" \notin Faults, Owned, NEW s \in Schedules, Fetch(s) \/ Expire(s)
  PROVE  OneAttempt' /\ HolderOwnsRow'
  <1> USE DEF Owned, Typed, TypeOK, JobsOK
  <1>1. CASE Fetch(s)
    <2>1. \A n \in 1 .. MaxAttempts : ~Running(<<s, n>>)
      BY <1>1 DEF Fetch, OneAttempt
    <2>2. \A a \in Senders : a # <<s, tries[s] + 1>> => at'[a] = at[a]
      BY <1>1 DEF Fetch
    <2>3. at' = [at EXCEPT ![<<s, tries[s] + 1>>] = "claim"] /\ <<s, tries[s] + 1>> \in Senders
      BY <1>1 DEF Fetch, Senders, Attempts
    <2>4. tries' = [tries EXCEPT ![s] = @ + 1] /\ job' = [job EXCEPT ![s] = "active"]
      BY <1>1 DEF Fetch
    <2>5. OneAttempt'
      BY <2>1, <2>2, <2>3, <2>4 DEF OneAttempt, Running, Senders, Attempts
    <2>6. \A a \in Senders : at'[a] \in Holding => at[a] \in Holding
      BY <2>2, <2>3 DEF Holding
    <2>7. HolderOwnsRow'
      BY <1>1, <2>6 DEF Fetch, HolderOwnsRow, HoldersToken
    <2> QED BY <2>5, <2>7
  <1>2. CASE Expire(s)
    <2>1. at[<<s, tries[s]>>] = "dead"
      BY <1>2 DEF Expire, Fault
    <2>2. \A n \in 1 .. MaxAttempts : ~Running(<<s, n>>)
      BY <2>1 DEF OneAttempt, Running, Holding
    <2>3. OneAttempt'
      BY <1>2, <2>2 DEF Expire, OneAttempt, Running
    <2>4. HolderOwnsRow'
      BY <1>2 DEF Expire, HolderOwnsRow, HoldersToken
    <2> QED BY <2>3, <2>4
  <1> QED BY <1>1, <1>2

(* A job claims the row by status and token: the token keeps strangers out,  *)
(* and there is no other attempt of the job.                                 *)
LEMMA JobClaimOwned ==
  ASSUME Owned, NEW a \in Attempts, ClaimForJob(a), row.status \in Claimable, row.token = a[1]
  PROVE  HolderOwnsRow'
  <1> USE DEF Owned, Typed, TypeOK, Senders
  <1>1. PICK s \in Schedules, n \in 1 .. MaxAttempts : a = <<s, n>>
    BY DEF Attempts
  <1>2. a \notin Sends /\ HoldersToken(a) = s
    BY <1>1 DEF HoldersToken
  <1>3. \A b \in Senders : at[b] \in Holding => b = a
    <2> SUFFICES ASSUME NEW b \in Senders, at[b] \in Holding PROVE b = a
      OBVIOUS
    <2>1. HoldersToken(b) = s
      BY <1>1 DEF HolderOwnsRow
    <2>2. PICK m \in 1 .. MaxAttempts : b = <<s, m>>
      BY <2>1 DEF HoldersToken, Attempts
    <2>3. n = tries[s] /\ m = tries[s]
      BY <1>1, <2>2 DEF ClaimForJob, OneAttempt, Running
    <2> QED BY <1>1, <2>2, <2>3
  <1>4. row'.status = "pending" /\ row'.token = s
    BY <1>1 DEF ClaimForJob
  <1>5. \A b \in Senders : b # a => at'[b] = at[b]
    BY DEF ClaimForJob
  <1> QED BY <1>2, <1>3, <1>4, <1>5 DEF HolderOwnsRow, HoldersToken

(* What an attempt or a send does until its outcome keeps it the only one. *)
LEMMA AttemptsOwned ==
  ASSUME Owned,
         \/ \E a \in Attempts : ClaimForJob(a) \/ ClaimForJobFails(a) \/ AskGuard(a)
         \/ \E a \in Senders :
              \/ ProviderAccepts(a) \/ ProviderRefuses(a) \/ ProviderThrows(a)
              \/ Record(a) \/ RecordFails(a) \/ Crash(a)
  PROVE  OneAttempt' /\ HolderOwnsRow'
  <1> USE DEF Owned, Typed, TypeOK
  <1>1. PICK a \in Senders :
          \/ a \in Attempts /\ (ClaimForJob(a) \/ ClaimForJobFails(a) \/ AskGuard(a))
          \/ ProviderAccepts(a) \/ ProviderRefuses(a) \/ ProviderThrows(a)
          \/ Record(a) \/ RecordFails(a) \/ Crash(a)
    BY DEF Senders
  <1> DEFINE acts == {"guard", "send", "accepted", "refused", "hopeless", "unwanted", "done", "dead"}
  <1>2. Running(a) /\ UNCHANGED tries
    BY <1>1 DEF Running, ClaimForJob, ClaimForJobFails, AskGuard, ProviderAccepts, ProviderRefuses,
                ProviderThrows, Record, RecordFails, Crash, Holding, queue
  <1>3. \E label \in acts : at' = [at EXCEPT ![a] = label]
    BY <1>1 DEF ClaimForJob, ClaimForJobFails, AskGuard, ProviderAccepts, ProviderRefuses,
                ProviderThrows, Record, RecordFails, Crash, Fault
  <1>4. \/ job' = job
        \/ (Completed(a) \/ Failed(a)) /\ at'[a] \in {"done", "dead"}
    BY <1>1 DEF ClaimForJob, ClaimForJobFails, AskGuard, ProviderAccepts, ProviderRefuses,
                ProviderThrows, Record, RecordFails, Crash, queue
  <1>5. OneAttempt'
    <2> SUFFICES ASSUME NEW s \in Schedules, NEW n \in 1 .. MaxAttempts, Running(<<s, n>>)'
                 PROVE  n = tries[s] /\ job'[s] # "queued"
      BY <1>2 DEF OneAttempt
    <2>1. <<s, n>> \in Senders /\ Running(<<s, n>>)
      BY <1>2, <1>3 DEF Running, Senders, Attempts
    <2>2. n = tries[s] /\ job[s] # "queued"
      BY <2>1 DEF OneAttempt
    <2>3. CASE job' = job
      BY <2>2, <2>3
    <2>4. CASE (Completed(a) \/ Failed(a)) /\ at'[a] \in {"done", "dead"}
      <3>1. a # <<s, n>>
        BY <2>4 DEF Running, Holding
      <3>2. a \in Attempts /\ a[1] = s => a[2] # n
        BY <3>1 DEF Attempts
      <3>3. a[1] = s => ~Awaited(a)
        BY <2>2, <3>2 DEF Awaited
      <3> QED BY <2>2, <2>4, <3>3 DEF Completed, Failed, Awaited, Attempts
    <2> QED BY <1>4, <2>3, <2>4
  <1>6. CASE ClaimForJob(a) /\ a \in Attempts /\ row.status \in Claimable /\ row.token = a[1]
    BY <1>5, <1>6, JobClaimOwned
  <1>7. CASE ~(ClaimForJob(a) /\ a \in Attempts /\ row.status \in Claimable /\ row.token = a[1])
    <2>1. at'[a] \in Holding => at[a] \in Holding
      BY <1>1, <1>7 DEF ClaimForJob, ClaimForJobFails, AskGuard, ProviderAccepts, ProviderRefuses,
                        ProviderThrows, Record, RecordFails, Crash, Holding
    <2>2. row' = row \/ (at[a] \in Holding /\ at'[a] \notin Holding)
      BY <1>1, <1>7 DEF ClaimForJob, ClaimForJobFails, AskGuard, ProviderAccepts, ProviderRefuses,
                        ProviderThrows, Record, RecordFails, Crash, Holding
    <2>3. \A b \in Senders : at'[b] \in Holding => at[b] \in Holding
      BY <1>3, <2>1
    <2>4. HolderOwnsRow'
      BY <2>2, <2>3 DEF HolderOwnsRow, HoldersToken
    <2> QED BY <1>5, <2>4
  <1> QED BY <1>6, <1>7

LEMMA OwnedStep ==
  ASSUME "expire" \notin Faults
  PROVE  Owned /\ [Step]_vars => Owned'
  <1> SUFFICES ASSUME Owned, [Step]_vars PROVE OneAttempt' /\ HolderOwnsRow'
    BY TypedStep DEF Owned
  <1>1. CASE Step
    BY <1>1, ClaimOwned, CallsOwned, FetchOwned, AttemptsOwned DEF Step
  <1>2. CASE UNCHANGED vars
    BY <1>2 DEF vars, calls, queue, mail, Owned, OneAttempt, Running, HolderOwnsRow, HoldersToken
  <1> QED BY <1>1, <1>2

(* Between its claim and the record of its outcome whoever sends has the row *)
(* for itself (claimNotificationForJob, claimKeyedSend), so the statements   *)
(* that write the outcome by id alone write only what is theirs.             *)
THEOREM HolderAlwaysOwnsRow ==
  ASSUME "expire" \notin Faults
  PROVE  Spec => []HolderOwnsRow
  <1>1. Owned => HolderOwnsRow
    BY DEF Owned
  <1> QED BY <1>1, OwnedInit, OwnedStep, PTL DEF Spec

-----------------------------------------------------------------------------
(* Cancelled is for good. *)

(* Nobody holds a row that is not pending, so no step takes it out of an end. *)
LEMMA EndsAreFinal ==
  ASSUME Owned, [Step]_vars, row.status \in {"sent", "skipped", "cancelled"}
  PROVE  row'.status = row.status
  <1> USE DEF Owned, Typed, TypeOK
  <1>1. \A a \in Senders : at[a] \notin Holding
    BY DEF HolderOwnsRow
  <1>2. CASE UNCHANGED vars
    BY <1>2 DEF vars
  <1>3. ASSUME NEW r \in Schedules \cup Sends, ClaimKeyed(r) \/ Duplicate(r)
        PROVE  row'.status = row.status
    BY <1>3 DEF ClaimKeyed, Duplicate
  <1>4. ASSUME \/ \E r \in Requests : RequestFails(r)
               \/ \E s \in Schedules :
                    Enqueue(s) \/ EnqueueFails(s) \/ StoreJobId(s) \/ Fetch(s) \/ Expire(s)
               \/ \E x \in Cancels : Cancel(x) \/ CancelQueuedJob(x)
               \/ FreeKey
        PROVE  row'.status = row.status
    BY <1>4 DEF RequestFails, Enqueue, EnqueueFails, StoreJobId, Fetch, Expire, Cancel,
                CancelQueuedJob, FreeKey
  <1>5. ASSUME NEW a \in Attempts, ClaimForJob(a) \/ ClaimForJobFails(a) \/ AskGuard(a)
        PROVE  row'.status = row.status
    BY <1>5 DEF ClaimForJob, ClaimForJobFails, AskGuard, Claimable
  <1>6. ASSUME NEW a \in Senders,
               \/ ProviderAccepts(a) \/ ProviderRefuses(a) \/ ProviderThrows(a)
               \/ Record(a) \/ RecordFails(a) \/ Crash(a)
        PROVE  row'.status = row.status
    BY <1>1, <1>6 DEF ProviderAccepts, ProviderRefuses, ProviderThrows, Record, RecordFails,
                      Crash, Holding
  <1> QED BY <1>2, <1>3, <1>4, <1>5, <1>6 DEF Step

(* A cancel that took the row answers success or removes the job first. *)
CancelsTook ==
    \A x \in Cancels :
        request[x] = "cleanup" \/ answer[x] = "success" => row.status = "cancelled"

LEMMA CancelsTookStep == Owned /\ CancelsTook /\ [Step]_vars => CancelsTook'
  <1> SUFFICES ASSUME Owned, CancelsTook, [Step]_vars, NEW x \in Cancels,
                      request'[x] = "cleanup" \/ answer'[x] = "success",
                      ~(request[x] = "cleanup" \/ answer[x] = "success")
               PROVE  row'.status = "cancelled"
    BY EndsAreFinal DEF CancelsTook
  <1> USE DEF Owned, Typed, TypeOK, Requests
  <1>1. CASE \E y \in Cancels : Cancel(y) \/ CancelQueuedJob(y)
    BY <1>1 DEF Cancel, CancelQueuedJob, Return
  <1>2. CASE \/ \E r \in Schedules \cup Sends : ClaimKeyed(r) \/ Duplicate(r)
             \/ \E r \in Requests : RequestFails(r)
             \/ \E s \in Schedules : Enqueue(s) \/ EnqueueFails(s) \/ StoreJobId(s)
    BY <1>2 DEF ClaimKeyed, Duplicate, RequestFails, Enqueue, EnqueueFails, StoreJobId, Return
  <1>3. CASE \/ \E s \in Schedules : Fetch(s) \/ Expire(s)
             \/ \E a \in Attempts : ClaimForJob(a) \/ ClaimForJobFails(a) \/ AskGuard(a)
             \/ FreeKey \/ UNCHANGED vars
    BY <1>3 DEF Fetch, Expire, ClaimForJob, ClaimForJobFails, AskGuard, FreeKey, calls, vars
  <1>4. CASE \E a \in Senders :
               \/ ProviderAccepts(a) \/ ProviderRefuses(a) \/ ProviderThrows(a)
               \/ Record(a) \/ RecordFails(a) \/ Crash(a)
    BY <1>4 DEF ProviderAccepts, ProviderRefuses, ProviderThrows, Record, RecordFails, Crash, calls
  <1> QED BY <1>1, <1>2, <1>3, <1>4 DEF Step

(* "success: true means the notification will not be sent" (cancel): the row *)
(* stays cancelled, and nobody is sending it or about to.                    *)
THEOREM CancelAlwaysMeansNotSent ==
  ASSUME "expire" \notin Faults
  PROVE  Spec => []CancelMeansNotSent
  <1>1. Init => CancelsTook
    BY DEF Init, CancelsTook, Requests
  <1>2. Owned /\ CancelsTook => CancelMeansNotSent
    BY DEF Owned, HolderOwnsRow, CancelsTook, CancelMeansNotSent
  <1> QED BY <1>1, <1>2, OwnedInit, OwnedStep, CancelsTookStep, PTL DEF Spec

-----------------------------------------------------------------------------
(* Every delivery but the first is one whose predecessor's record was lost. *)

Accepted == row.status = "sent" \/ \E a \in Senders : at[a] = "accepted"

Accounted ==
    /\ delivered <= lost + (IF Accepted THEN 1 ELSE 0)
    /\ Accepted => delivered > 0

LEMMA AccountedStep ==
  ASSUME "expire" \notin Faults
  PROVE  Owned /\ Accounted /\ [Step]_vars => Accounted'
  <1> SUFFICES ASSUME Owned, Accounted, [Step]_vars PROVE Accounted'
    OBVIOUS
  <1> USE DEF Owned, Typed, TypeOK, Accounted, mail
  <1>1. Owned'
    BY OwnedStep
  <1>2. \A a \in Senders : at[a] = "accepted" => row.status # "sent"
    BY DEF HolderOwnsRow, Holding
  <1>3. row.status = "sent" => row'.status = "sent"
    BY EndsAreFinal
  <1>4. CASE \E a \in Senders : ProviderAccepts(a)
    <2>1. PICK a \in Senders : ProviderAccepts(a)
      BY <1>4
    <2>2. ~Accepted
      BY <2>1 DEF Accepted, ProviderAccepts, HolderOwnsRow, Holding
    <2>3. Accepted'
      BY <2>1 DEF Accepted, ProviderAccepts
    <2> QED BY <2>1, <2>2, <2>3 DEF ProviderAccepts
  <1>5. CASE \E a \in Senders : Record(a)
    <2>1. PICK a \in Senders : Record(a)
      BY <1>5
    <2>2. row.status = "pending"
      BY <2>1 DEF Record, HolderOwnsRow, Holding
    <2>3. Accepted <=> at[a] = "accepted"
      BY <2>1, <2>2 DEF Accepted, Record, HolderOwnsRow, Holding
    <2>4. row'.status = "sent" <=> at[a] = "accepted"
      BY <2>1, <2>2 DEF Record, OutcomeOf
    <2>5. \A b \in Senders : at'[b] # "accepted"
      BY <2>1 DEF Record, HolderOwnsRow, Holding
    <2> QED BY <2>1, <2>3, <2>4, <2>5 DEF Accepted, Record
  <1>6. CASE \E a \in Senders : RecordFails(a) \/ Crash(a)
    <2>1. PICK a \in Senders : RecordFails(a) \/ Crash(a)
      BY <1>6
    <2>2. row' = row /\ (\A b \in Senders : at'[b] = "accepted" => at[b] = "accepted" /\ b # a)
      BY <2>1 DEF RecordFails, Crash
    <2>3. /\ delivered' = delivered
          /\ lost' = IF at[a] = "accepted" THEN lost + 1 ELSE lost
      BY <2>1 DEF RecordFails, Crash
    <2>4. CASE at[a] = "accepted"
      <3>1. ~Accepted'
        BY <2>2, <2>4, <1>2 DEF Accepted, HolderOwnsRow, Holding
      <3> QED BY <2>3, <2>4, <3>1
    <2>5. CASE at[a] # "accepted"
      <3>1. Accepted' <=> Accepted
        BY <2>1, <2>2, <2>5 DEF Accepted, RecordFails, Crash
      <3> QED BY <2>3, <2>5, <3>1
    <2> QED BY <2>4, <2>5
  <1>7. CASE \/ \E r \in Schedules \cup Sends : Duplicate(r)
             \/ \E r \in Requests : RequestFails(r)
             \/ \E s \in Schedules : Enqueue(s) \/ EnqueueFails(s) \/ StoreJobId(s) \/ Expire(s)
             \/ \E x \in Cancels : Cancel(x) \/ CancelQueuedJob(x)
             \/ FreeKey \/ UNCHANGED vars
    <2>1. UNCHANGED <<mail, at>>
      BY <1>7 DEF Duplicate, RequestFails, Enqueue, EnqueueFails, StoreJobId, Expire, Cancel,
                  CancelQueuedJob, FreeKey, vars
    <2>2. row'.status = "sent" => row.status = "sent"
      BY <1>7 DEF Duplicate, RequestFails, Enqueue, EnqueueFails, StoreJobId, Expire, Cancel,
                  CancelQueuedJob, FreeKey, vars
    <2> QED BY <1>3, <2>1, <2>2 DEF Accepted
  <1>8. CASE \/ \E a \in Attempts : ClaimForJob(a) \/ ClaimForJobFails(a) \/ AskGuard(a)
             \/ \E a \in Senders : ProviderRefuses(a) \/ ProviderThrows(a)
    <2>1. UNCHANGED mail
      BY <1>8 DEF ClaimForJob, ClaimForJobFails, AskGuard, ProviderRefuses, ProviderThrows
    <2>2. row'.status = "sent" => row.status = "sent"
      BY <1>8 DEF ClaimForJob, ClaimForJobFails, AskGuard, ProviderRefuses, ProviderThrows
    <2>3. \A a \in Senders : at'[a] = "accepted" <=> at[a] = "accepted"
      BY <1>8 DEF ClaimForJob, ClaimForJobFails, AskGuard, ProviderRefuses, ProviderThrows
    <2> QED BY <1>3, <2>1, <2>2, <2>3 DEF Accepted
  <1>9. CASE \E r \in Schedules \cup Sends : ClaimKeyed(r)
    <2>1. PICK r \in Schedules \cup Sends : ClaimKeyed(r)
      BY <1>9
    <2>2. CASE row.status \in {"absent", "failed"}
      <3>1. ~Accepted
        BY <2>2 DEF Accepted, HolderOwnsRow, Holding
      <3>2. row'.status # "sent"
        BY <2>1, <2>2 DEF ClaimKeyed, Claimed
      <3>3. \A a \in Senders : at'[a] = "accepted" => at[a] = "accepted"
        BY <2>1 DEF ClaimKeyed
      <3>4. UNCHANGED mail
        BY <2>1 DEF ClaimKeyed
      <3> QED BY <3>1, <3>2, <3>3, <3>4 DEF Accepted
    <2>3. CASE row.status \notin {"absent", "failed"}
      BY <2>1, <2>3 DEF ClaimKeyed, Accepted
    <2> QED BY <2>2, <2>3
  <1>10. CASE \E s \in Schedules : Fetch(s)
    <2>1. PICK s \in Schedules : Fetch(s)
      BY <1>10
    <2>2. UNCHANGED <<row, mail>> /\ at' = [at EXCEPT ![<<s, tries[s] + 1>>] = "claim"]
      BY <2>1 DEF Fetch
    <2>3. at[<<s, tries[s] + 1>>] # "accepted"
      BY <2>1 DEF Fetch, OneAttempt, Running, Holding, JobsOK
    <2>4. Accepted' <=> Accepted
      BY <2>2, <2>3 DEF Accepted
    <2> QED BY <2>2, <2>4
  <1> QED BY <1>4, <1>5, <1>6, <1>7, <1>8, <1>9, <1>10 DEF Step

(* Keys, tokens and retries add no duplicate delivery of their own: each one *)
(* takes a record that a crash or a failed statement lost.                   *)
THEOREM DuplicatesAlwaysLost ==
  ASSUME "expire" \notin Faults
  PROVE  Spec => []DuplicatesOnlyLost
  <1>1. Init => Accounted
    BY DEF Init, Accounted, Accepted
  <1>2. Owned /\ Accounted => DuplicatesOnlyLost
    BY DEF Owned, Typed, TypeOK, Accounted, DuplicatesOnlyLost
  <1> QED BY <1>1, <1>2, OwnedInit, OwnedStep, AccountedStep, PTL DEF Spec

-----------------------------------------------------------------------------
(* The row implements the promise of one notification. *)

LEMMA PromiseInit == Init => Promise!Init
  BY DEF Init, Promise!Init

(* A claim of the row by a call, or by a job, asks or tries. *)
LEMMA ClaimImplements ==
  ASSUME Owned, Accounted,
         \/ \E r \in Schedules \cup Sends : ClaimKeyed(r)
         \/ \E a \in Attempts : ClaimForJob(a)
  PROVE  [Promise!Next]_Promise!pvars
  <1> USE DEF Owned, Typed, TypeOK, mail
  <1>1. CASE \E r \in Schedules \cup Sends : ClaimKeyed(r)
    <2>1. PICK r \in Schedules \cup Sends : ClaimKeyed(r)
      BY <1>1
    <2>2. delivered' = delivered
      BY <2>1 DEF ClaimKeyed
    <2>3. CASE row.status \in {"absent", "failed"}
      <3>1. row'.status \in {"scheduled", "pending"}
        BY <2>1, <2>3 DEF ClaimKeyed, Claimed
      <3> QED BY <2>2, <2>3, <3>1 DEF Promise!Next, Promise!Ask, Promise!Try, Promise!pvars
    <2>4. CASE row.status \notin {"absent", "failed"}
      BY <2>1, <2>2, <2>4 DEF ClaimKeyed, Promise!pvars
    <2> QED BY <2>3, <2>4
  <1>2. CASE \E a \in Attempts : ClaimForJob(a)
    <2>1. delivered' = delivered
      BY <1>2 DEF ClaimForJob
    <2>2. \/ row' = row
          \/ row.status \in {"scheduled", "failed"} /\ row'.status = "pending"
          \/ row.status = "pending" /\ row'.status = "pending"
      BY <1>2 DEF ClaimForJob, Claimable
    <2> QED BY <2>1, <2>2 DEF Promise!Next, Promise!Try, Promise!pvars
  <1> QED BY <1>1, <1>2

(* The provider's answer delivers, the record of an outcome settles. *)
LEMMA OutcomeImplements ==
  ASSUME Owned, Accounted, NEW a \in Senders, ProviderAccepts(a) \/ Record(a)
  PROVE  [Promise!Next]_Promise!pvars
  <1> USE DEF Owned, Typed, TypeOK, mail
  <1>1. row.status = "pending"
    BY DEF ProviderAccepts, Record, HolderOwnsRow, Holding
  <1>2. CASE ProviderAccepts(a)
    BY <1>1, <1>2 DEF ProviderAccepts, Promise!Next, Promise!Deliver
  <1>3. CASE Record(a)
    <2>1. row'.status \in {"failed", "skipped"} \/ (row'.status = "sent" /\ delivered > 0)
      BY <1>1, <1>3 DEF Record, OutcomeOf, Accounted, Accepted
    <2>2. delivered' = delivered
      BY <1>3 DEF Record
    <2> QED BY <1>1, <2>1, <2>2 DEF Promise!Next, Promise!Settle
  <1> QED BY <1>2, <1>3

LEMMA PromiseStep == Owned /\ Accounted /\ [Step]_vars => [Promise!Next]_Promise!pvars
  <1> SUFFICES ASSUME Owned, Accounted, [Step]_vars PROVE [Promise!Next]_Promise!pvars
    OBVIOUS
  <1>1. CASE \/ \E r \in Schedules \cup Sends : ClaimKeyed(r)
             \/ \E a \in Attempts : ClaimForJob(a)
    BY <1>1, ClaimImplements
  <1>2. CASE \E a \in Senders : ProviderAccepts(a) \/ Record(a)
    BY <1>2, OutcomeImplements
  <1>3. CASE \/ \E x \in Cancels : Cancel(x)
             \/ FreeKey
    <2>1. delivered' = delivered
      BY <1>3 DEF Cancel, FreeKey, mail
    <2>2. \/ row' = row
          \/ row.status \in {"scheduled", "failed"} /\ row'.status = "cancelled"
          \/ row.status = "pending" /\ row'.status = "failed"
      BY <1>3 DEF Cancel, FreeKey, Owned, Typed, TypeOK
    <2> QED BY <2>1, <2>2 DEF Promise!Next, Promise!Cancel, Promise!Settle, Promise!pvars
  <1>4. CASE \/ \E r \in Schedules \cup Sends : Duplicate(r)
             \/ \E r \in Requests : RequestFails(r)
             \/ \E s \in Schedules :
                  Enqueue(s) \/ EnqueueFails(s) \/ StoreJobId(s) \/ Fetch(s) \/ Expire(s)
             \/ \E x \in Cancels : CancelQueuedJob(x)
             \/ \E a \in Attempts : ClaimForJobFails(a) \/ AskGuard(a)
             \/ \E a \in Senders :
                  ProviderRefuses(a) \/ ProviderThrows(a) \/ RecordFails(a) \/ Crash(a)
             \/ UNCHANGED vars
    <2>1. delivered' = delivered /\ row'.status = row.status
      BY <1>4 DEF Duplicate, RequestFails, Enqueue, EnqueueFails, StoreJobId, Fetch, Expire,
                  CancelQueuedJob, ClaimForJobFails, AskGuard, ProviderRefuses, ProviderThrows,
                  RecordFails, Crash, mail, vars, Owned, Typed, TypeOK
    <2> QED BY <2>1 DEF Promise!pvars
  <1> QED BY <1>1, <1>2, <1>3, <1>4 DEF Step

(* The history of the row is that of a notification that is asked for, tried, *)
(* delivered during a try only, and sent, skipped or cancelled for good.      *)
THEOREM RowImplementsPromise ==
  ASSUME "expire" \notin Faults
  PROVE  Spec => ImplementsPromise
  <1>1. Init => Accounted
    BY DEF Init, Accounted, Accepted
  <1> QED BY <1>1, OwnedInit, OwnedStep, AccountedStep, PromiseInit, PromiseStep, PTL
          DEF Spec, ImplementsPromise, Promise!Spec

-----------------------------------------------------------------------------
(* A scheduled row has somebody to look at it. *)

(* While the row says scheduled, every attempt of its job has died or is     *)
(* about to claim the row.                                                   *)
NoneClaimed(s) ==
    \A n \in 1 .. MaxAttempts :
        /\ n < tries[s] => at[<<s, n>>] = "dead"
        /\ n = tries[s] => at[<<s, n>>] = "dead" \/ (at[<<s, n>>] = "claim" /\ job[s] = "active")

LookedAfter(s) ==
    \/ request[s] = "enqueue"
    \/ job[s] \in {"queued", "active"}
    \/ job[s] = "none" /\ request[s] = "done" /\ answer[s] = "failure"
    \/ job[s] = "failed" /\ tries[s] = MaxAttempts /\ at[<<s, MaxAttempts>>] = "dead"

Watched ==
    /\ row.status = "scheduled" => row.token \in Schedules
    /\ \A s \in Schedules : row.token = s =>
         /\ request[s] \in {"enqueue", "store", "done"}
         /\ row.status = "scheduled" => NoneClaimed(s) /\ LookedAfter(s)

LEMMA WatchedCalls ==
  ASSUME Owned, CancelsTook, Watched,
         \/ \E r \in Schedules \cup Sends : ClaimKeyed(r) \/ Duplicate(r)
         \/ \E r \in Requests : RequestFails(r)
         \/ \E s \in Schedules : Enqueue(s) \/ EnqueueFails(s) \/ StoreJobId(s)
         \/ \E x \in Cancels : Cancel(x) \/ CancelQueuedJob(x)
         \/ FreeKey
  PROVE  Watched'
  <1> USE DEF Owned, Typed, TypeOK, JobsOK, Requests, Return, queue, mail, calls
  <1>1. CASE \E r \in Schedules \cup Sends : ClaimKeyed(r)
    <2>1. PICK r \in Schedules \cup Sends : ClaimKeyed(r)
      BY <1>1
    <2>2. \A s \in Schedules, n \in 1 .. MaxAttempts : at'[<<s, n>>] = at[<<s, n>>]
      BY <2>1 DEF ClaimKeyed, Senders, Attempts
    <2>3. CASE row.status \in {"absent", "failed"}
      <3>1. row' = Claimed(r) /\ UNCHANGED <<job, tries>>
        BY <2>1, <2>3 DEF ClaimKeyed
      <3>2. CASE r \in Schedules
        <4>1. request[r] = "idle" /\ request'[r] = "enqueue"
          BY <2>1, <2>3, <3>2 DEF ClaimKeyed
        <4>2. NoneClaimed(r)'
          BY <3>1, <3>2, <4>1 DEF NoneClaimed
        <4>3. row'.token = r
          BY <3>1, <3>2 DEF Claimed
        <4> QED BY <3>2, <4>1, <4>2, <4>3 DEF Watched, LookedAfter
      <3>3. CASE r \notin Schedules
        BY <3>1, <3>3 DEF Claimed, Watched
      <3> QED BY <3>2, <3>3
    <2>4. CASE row.status \notin {"absent", "failed"}
      BY <2>1, <2>2, <2>4 DEF ClaimKeyed, Watched, NoneClaimed, LookedAfter
    <2> QED BY <2>3, <2>4
  <1>2. CASE \/ \E r \in Schedules \cup Sends : Duplicate(r)
             \/ \E r \in Requests : RequestFails(r)
    <2>1. PICK r \in Requests : /\ request[r] \in {"idle", "read"}
                                /\ \A q \in Requests : q # r =>
                                     request'[q] = request[q] /\ answer'[q] = answer[q]
      BY <1>2 DEF Duplicate, RequestFails
    <2>2. UNCHANGED <<row, job, tries, at>>
      BY <1>2 DEF Duplicate, RequestFails
    <2> QED BY <2>1, <2>2 DEF Watched, NoneClaimed, LookedAfter
  <1>3. CASE \E s \in Schedules : Enqueue(s)
    BY <1>3 DEF Enqueue, Watched, NoneClaimed, LookedAfter
  <1>4. CASE \E s \in Schedules : EnqueueFails(s)
    BY <1>4 DEF EnqueueFails, Watched, NoneClaimed, LookedAfter
  <1>5. CASE \E s \in Schedules : StoreJobId(s)
    BY <1>5 DEF StoreJobId, Watched, NoneClaimed, LookedAfter
  <1>6. CASE \E x \in Cancels : Cancel(x)
    BY <1>6 DEF Cancel, Watched, NoneClaimed, LookedAfter
  <1>7. CASE \E x \in Cancels : CancelQueuedJob(x)
    <2>1. row.status = "cancelled" /\ row' = row
      BY <1>7 DEF CancelQueuedJob, CancelsTook
    <2>2. \A s \in Schedules : request'[s] = request[s]
      BY <1>7 DEF CancelQueuedJob
    <2> QED BY <2>1, <2>2 DEF Watched
  <1>8. CASE FreeKey
    BY <1>8 DEF FreeKey, Watched
  <1> QED BY <1>1, <1>2, <1>3, <1>4, <1>5, <1>6, <1>7, <1>8

LEMMA WatchedAttempts ==
  ASSUME "expire" \notin Faults, Owned, Watched,
         \/ \E s \in Schedules : Fetch(s) \/ Expire(s)
         \/ \E a \in Attempts : ClaimForJob(a) \/ ClaimForJobFails(a) \/ AskGuard(a)
         \/ \E a \in Senders :
              \/ ProviderAccepts(a) \/ ProviderRefuses(a) \/ ProviderThrows(a)
              \/ Record(a) \/ RecordFails(a) \/ Crash(a)
  PROVE  Watched'
  <1> USE DEF Owned, Typed, TypeOK, JobsOK, queue, mail, calls
  <1>1. request' = request
    BY DEF Fetch, Expire, ClaimForJob, ClaimForJobFails, AskGuard, ProviderAccepts,
           ProviderRefuses, ProviderThrows, Record, RecordFails, Crash
  <1>2. CASE \E s \in Schedules : Fetch(s)
    <2>1. PICK s \in Schedules : Fetch(s)
      BY <1>2
    <2>2. /\ at' = [at EXCEPT ![<<s, tries[s] + 1>>] = "claim"]
          /\ job' = [job EXCEPT ![s] = "active"] /\ tries' = [tries EXCEPT ![s] = @ + 1]
          /\ UNCHANGED <<row, answer>>
      BY <2>1 DEF Fetch
    <2>3. \A n \in 1 .. MaxAttempts : ~Running(<<s, n>>)
      BY <2>1 DEF Fetch, OneAttempt
    <2>4. \A t \in Schedules, n \in 1 .. MaxAttempts :
            /\ <<t, n>> \in Senders
            /\ <<t, n>> # <<s, tries[s] + 1>> => at'[<<t, n>>] = at[<<t, n>>]
      BY <2>2 DEF Senders, Attempts
    <2>5. ASSUME row.status = "scheduled", row.token = s PROVE NoneClaimed(s)'
      <3>1. \A n \in 1 .. MaxAttempts : n <= tries[s] => at[<<s, n>>] = "dead"
        BY <2>3, <2>5 DEF Watched, NoneClaimed, Running
      <3>2. tries'[s] = tries[s] + 1 /\ job'[s] = "active"
        BY <2>2
      <3>3. \A n \in 1 .. MaxAttempts : n <= tries[s] => at'[<<s, n>>] = "dead"
        BY <2>4, <3>1
      <3>4. \A n \in 1 .. MaxAttempts : n = tries[s] + 1 => at'[<<s, n>>] = "claim"
        BY <2>2, <2>4
      <3> QED BY <3>2, <3>3, <3>4 DEF NoneClaimed
    <2>6. ASSUME NEW t \in Schedules, t # s, NoneClaimed(t), LookedAfter(t)
          PROVE  NoneClaimed(t)' /\ LookedAfter(t)'
      BY <1>1, <2>2, <2>4, <2>6 DEF NoneClaimed, LookedAfter
    <2> QED BY <1>1, <2>2, <2>5, <2>6 DEF Watched, LookedAfter
  <1>3. CASE \E s \in Schedules : Expire(s)
    <2>1. PICK s \in Schedules : Expire(s)
      BY <1>3
    <2>2. at[<<s, tries[s]>>] = "dead" /\ job' = [job EXCEPT ![s] = AfterFailure(s)]
      BY <2>1 DEF Expire, Fault
    <2>3. UNCHANGED <<row, answer, tries, at>>
      BY <2>1 DEF Expire
    <2> QED BY <1>1, <2>2, <2>3 DEF Watched, NoneClaimed, LookedAfter, AfterFailure
  <1>4. CASE \E a \in Attempts : ClaimForJob(a)
    <2>1. PICK a \in Attempts : ClaimForJob(a)
      BY <1>4
    <2>2. CASE row.status \in Claimable /\ row.token = a[1]
      BY <1>1, <2>1, <2>2 DEF ClaimForJob, Watched
    <2>3. CASE ~(row.status \in Claimable /\ row.token = a[1])
      <3>1. /\ row' = row /\ Completed(a) /\ at' = [at EXCEPT ![a] = "done"]
            /\ UNCHANGED <<answer, tries>>
        BY <2>1, <2>3 DEF ClaimForJob
      <3>2. ASSUME NEW t \in Schedules, row.token = t, row.status = "scheduled"
            PROVE  /\ job'[t] = job[t]
                   /\ \A n \in 1 .. MaxAttempts : at'[<<t, n>>] = at[<<t, n>>]
        <4>1. a[1] # t
          BY <2>3, <3>2 DEF Claimable
        <4> QED BY <3>1, <4>1 DEF Completed, Attempts, Senders
      <3> QED BY <1>1, <3>1, <3>2 DEF Watched, NoneClaimed, LookedAfter
    <2> QED BY <2>2, <2>3
  <1>5. CASE \E a \in Attempts : ClaimForJobFails(a)
    <2>1. PICK a \in Attempts : ClaimForJobFails(a)
      BY <1>5
    <2>2. /\ at[a] = "claim" /\ at' = [at EXCEPT ![a] = "dead"] /\ Failed(a)
          /\ UNCHANGED <<row, answer, tries>>
      BY <2>1 DEF ClaimForJobFails
    <2>3. PICK s \in Schedules, n \in 1 .. MaxAttempts : a = <<s, n>>
      BY DEF Attempts
    <2>4. n = tries[s]
      BY <2>2, <2>3 DEF OneAttempt, Running
    <2>5. ASSUME NEW t \in Schedules, t # s, NoneClaimed(t), LookedAfter(t)
          PROVE  NoneClaimed(t)' /\ LookedAfter(t)'
      <3>1. job'[t] = job[t] /\ \A m \in 1 .. MaxAttempts : at'[<<t, m>>] = at[<<t, m>>]
        BY <2>2, <2>3, <2>5 DEF Failed, Awaited, AfterFailure, Attempts, Senders
      <3> QED BY <1>1, <2>2, <2>5, <3>1 DEF NoneClaimed, LookedAfter
    <2>6. ASSUME NoneClaimed(s) PROVE NoneClaimed(s)' /\ LookedAfter(s)'
      <3>1. Awaited(a)
        BY <2>2, <2>3, <2>4, <2>6 DEF Awaited, NoneClaimed
      <3>2. job'[s] = IF tries[s] < MaxAttempts THEN "queued" ELSE "failed"
        BY <2>2, <2>3, <3>1 DEF Failed, AfterFailure
      <3>3. \A m \in 1 .. MaxAttempts : at'[<<s, m>>] = IF m = n THEN "dead" ELSE at[<<s, m>>]
        BY <2>2, <2>3 DEF Senders, Attempts
      <3> QED BY <2>2, <2>4, <2>6, <3>2, <3>3 DEF NoneClaimed, LookedAfter
    <2> QED BY <1>1, <2>2, <2>5, <2>6 DEF Watched
  <1>6. CASE \E a \in Senders : at[a] = "claim" /\ Crash(a)
    <2>1. PICK a \in Senders : at[a] = "claim" /\ Crash(a)
      BY <1>6
    <2>2. at' = [at EXCEPT ![a] = "dead"] /\ UNCHANGED <<row, answer, job, tries>>
      BY <2>1 DEF Crash
    <2>3. \A s \in Schedules, n \in 1 .. MaxAttempts :
            at'[<<s, n>>] = IF a = <<s, n>> THEN "dead" ELSE at[<<s, n>>]
      BY <2>2 DEF Senders, Attempts
    <2> QED BY <1>1, <2>2, <2>3 DEF Watched, NoneClaimed, LookedAfter
  <1>7. CASE \/ \E a \in Attempts : AskGuard(a)
             \/ \E a \in Senders :
                  \/ ProviderAccepts(a) \/ ProviderRefuses(a) \/ ProviderThrows(a)
                  \/ Record(a) \/ RecordFails(a) \/ (at[a] # "claim" /\ Crash(a))
    <2>1. row.status = "pending"
      BY <1>7 DEF AskGuard, ProviderAccepts, ProviderRefuses, ProviderThrows, Record, RecordFails,
                  Crash, HolderOwnsRow, Holding, Senders
    <2>2. row'.status # "scheduled" /\ row'.token = row.token
      BY <1>7, <2>1 DEF AskGuard, ProviderAccepts, ProviderRefuses, ProviderThrows, Record,
                        RecordFails, Crash, OutcomeOf
    <2> QED BY <1>1, <2>1, <2>2 DEF Watched
  <1> QED BY <1>2, <1>3, <1>4, <1>5, <1>6, <1>7

LEMMA WatchedStep ==
  ASSUME "expire" \notin Faults
  PROVE  Owned /\ CancelsTook /\ Watched /\ [Step]_vars => Watched'
  <1> SUFFICES ASSUME Owned, CancelsTook, Watched, [Step]_vars PROVE Watched'
    OBVIOUS
  <1>1. CASE Step
    BY <1>1, WatchedCalls, WatchedAttempts DEF Step
  <1>2. CASE UNCHANGED vars
    BY <1>2 DEF vars, calls, queue, Watched, NoneClaimed, LookedAfter
  <1> QED BY <1>1, <1>2

(* openScheduledRow answers success to a repeat because the row says         *)
(* scheduled: then its job will look at it, or a call is about to queue one, *)
(* unless the queue refused it or every attempt died.                        *)
THEOREM ScheduledAlwaysHasJob ==
  ASSUME "expire" \notin Faults
  PROVE  Spec => []ScheduledHasJob
  <1>1. Init => CancelsTook /\ Watched
    BY DEF Init, CancelsTook, Requests, Watched
  <1>2. Owned /\ Watched => ScheduledHasJob
    <2> SUFFICES ASSUME Owned, Watched, row.status = "scheduled"
                 PROVE  \E s \in Schedules :
                          /\ row.token = s
                          /\ request[s] = "enqueue" \/ job[s] \in {"queued", "active"} \/ Stranded(s)
      BY DEF ScheduledHasJob
    <2>1. PICK s \in Schedules : row.token = s
      BY DEF Watched
    <2>2. NoneClaimed(s) /\ LookedAfter(s)
      BY <2>1 DEF Watched
    <2>3. CASE job[s] = "failed" /\ tries[s] = MaxAttempts /\ at[<<s, MaxAttempts>>] = "dead"
      BY <2>1, <2>2, <2>3 DEF NoneClaimed, Stranded
    <2> QED BY <2>1, <2>2, <2>3 DEF LookedAfter, Stranded
  <1> QED BY <1>1, <1>2, OwnedInit, OwnedStep, CancelsTookStep, WatchedStep, PTL DEF Spec
=============================================================================
