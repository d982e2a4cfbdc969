# SPFN, specified and checked

TLA+ models of the concurrent core of this repository, TLC configurations that check
them on small instances, and machine-checked proofs of what must hold for every
instance. SPFN is a TypeScript backend framework: a Node.js process, or several behind
a load balancer, that share one PostgreSQL database, one pg-boss queue in it, and
optionally one Redis or Valkey. Its hard parts are what happens *between two awaits*:
every `await` lets another request, a callback, a timer or another process run.

Contents: [the system](#the-system) · [the modules](#the-modules) ·
[the runs](#the-runs) · [the proofs](#the-proofs) ·
[where the code and its documentation differ](#where-the-code-and-its-documentation-differ) ·
[what is not modelled](#what-is-not-modelled) · [the plan](#the-plan)

## The system

| Component | Where | State it keeps | Operations | Status |
|---|---|---|---|---|
| Workflow engine | `packages/workflow` | execution row and step rows in the database; `processingExecutions` and `subscribers` in each process | `start`, `retry`, `cancel`, `subscribe`, the step loop, the rollback | modelled |
| Transaction runner | `packages/core/src/db/transaction` | a context per call: the connection, the hook queues, the savepoint gate | `runInTransaction`, nested and `requiresNew` calls, the three kinds of hooks | modelled |
| Tenant binding | `db/transaction/tenant.ts`, `db/tenant/session.ts` | a record of the binding in memory, the setting in the database | claims by repository calls and by nested calls, promotion and discard | partly |
| Database manager | `db/manager` | the process's pool, `isClosing`, `isReconnecting`, the error window | initialise, periodic check, forced reconnect, rebuild loop, close | partly |
| Graceful shutdown | `server/shutdown-manager.ts`, `start-server.ts` | the phase, the tracked operations, the hooks | `trackOperation`, `onShutdown`, `execute`, the signal handler with its deadline, a start that fails | partly |
| Scheduled notifications | `packages/notification` | one row per notification, the queued job, the claim token | schedule, run, cancel, keyed send and retry | partly |
| SSE connections | `core/src/event/sse` | per handler: the open connections, the pending admissions and what was recorded on them; per stream: the frame hold and the write queue | connect, grant, revoke, close by key, emit, the initial pass, the writer | partly |
| Event transport | `core/src/event/cache-transport.ts` | per process: the breaker, the held key closes, the retry timer, the subscriber's connection | publish, fall back, flush, subscribe, dispose | partly |
| Jobs | `core/src/job` | the pg-boss singleton, queues and schedules | register, enqueue, run | not modelled |
| Data migrations | `packages/migrate` | the ledger of applied names | apply, baseline | not modelled |
| Signing keys | `packages/signing` | the key ring and the rotation plan | add, switch, wait, remove | not modelled |
| The rest | see [what is not modelled](#what-is-not-modelled) | | | not modelled |

How they interact. A route handler runs under `Transactional()`, which is one
`runInTransaction` call; repositories inside it find the connection through
`AsyncLocalStorage`, so code far away from the call shares its connection, its gate and
its hook queues. A `TenantRepository` claims the transaction's tenant before its first
query on that connection. Events and jobs that must not outlive a rollback are emitted
from `onAfterCommit`. The workflow engine uses its own transactions for single
statements only and runs jobs in the calling process. At a signal the server closes its
listener, stops pg-boss, drains tracked operations, runs the shutdown hooks and closes
the pools, while the database manager may be replacing those pools. A scheduled
notification is a row, a job in the queue that will look at the row, and the token that
says whose job it is; a cancel and a repeat write the row only, and the job finds out.
An event emitted on one process reaches the streams of all of them through Redis; so do
grants, revokes and the closes of a revoked device key, which a process applies to its own
streams first and which are the only messages the transport keeps when Redis refuses.

What is hard, and what has to hold:

- *Workflow.* Every update of the execution row is unconditional, and the status it was
  decided on was read one or more statements earlier. `retry` and `cancel` may be called
  at any time, on any server. Jobs of one parallel group run at once. A server may stop
  between any two statements. Correct means: a settled execution stays settled, one that
  is under way has a call that will move it on, a rollback undoes what ran and only
  that, in reverse order, and never beside a running job.
- *Transactions.* Calls started together share one connection, so their SAVEPOINTs must
  not overlap: ROLLBACK TO of one would take the other's rows. The driver never releases
  a SAVEPOINT. Compensation callbacks run while the frame they compensate for still
  holds its place in the queue. Correct means: a call's writes and its hooks have one
  fate, which is that of the call and of every call around it, and no call waits for ever.
- *Binding.* The record is in memory and the setting in the database; statements are
  sent and answered with other code running in between, and a ROLLBACK TO undoes the
  setting silently. Correct means: a query runs under the tenant it was made for.
- *Database and shutdown.* Initialise, close, the check and a rebuild share three flags
  and a slot, and each awaits the network between reading and writing them; a rebuild is
  not stopped by a close, it only looks at a flag that the close clears again. The
  shutdown waits for user code (operations, hooks) that may never answer, under timeouts
  and under a deadline that ends the process between any two phases; hooks are
  registered into the array that is being walked. Correct means: the pool handed out is
  open, none is left open that nobody will close, an operation that was accepted is over
  before the pools close or is given up by name, a hook runs once, and shutdown ends.
- *Notifications.* The row is claimed in one statement and its outcome is written by id
  in another, with a provider call between them; the job, its retries, a keyed repeat, a
  cancel and a bulk item all write it. The queue is another system: a job may be queued
  and its id not stored, run twice, or outlive a cancel. Correct means: whoever sends has
  the row for itself, a cancel that succeeded means nobody sends, and a duplicate takes
  a lost record.
- *Events.* An admission reads the key, then the permission, with awaits between, while
  changes go past it; the initial pass holds live frames; a slow client is cut off by the
  queue's bound; publishing and flushing share a list across awaits, and Redis keeps
  nothing for who is not listening. Correct means: no stream of a closed key, the
  permission a stream has is the one the app decided last, the client's view of its
  subscription is true, and a key close gets through or is given up by name.


## The modules

| Module | What it is |
|---|---|
| `WorkflowEngine` | the engine for one execution, statement by statement, on several servers |
| `WorkflowLifecycle` | what an execution promises its clients: one atomic event per change |
| `MCWorkflow` | the instances: a step then a parallel group, or a chain; one or two servers |
| `WorkflowEngine_proofs` | theorems about the engine |
| `TransactionFrames` | `runInTransaction` calls, gates, hooks, and the log of each connection |
| `TransactionFrames_proofs` | theorems about the frames |
| `NestedTransactions` | what nested calls promise: each owns a set of writes |
| `MCTransactions` | a root and a few interchangeable inner calls |
| `TransactionBinding` | one root's tenant binding: record, setting, statements on their way |
| `TransactionBinding_proofs` | theorems about claims, levels and the setting queries run under |
| `MCBinding` | a few repository calls, nested calls and tenants |
| `ScheduledSend` | one notification row and everybody who writes it, with the queue and the provider |
| `NotificationPromise` | what a caller may rely on: one notification, attempts, one end |
| `ScheduledSend_proofs` | theorems about the row and its holders |
| `MCScheduledSend` | a guarded schedule, a bulk item, two keyed sends and a cancel on one key |
| `DatabaseManager` | the process's pool: initialise, close, checks and rebuild loops |
| `ServerShutdown` | start, operations, hooks and shutdown, on top of `DatabaseManager` |
| `DatabaseManager_proofs` | theorems about the pools and the rebuild loops |
| `ServerShutdown_proofs` | theorems about drain and hooks, and that the server only uses the manager |
| `MCServerShutdown` | a server, or a script, with two initialisations, two closes and two loops |
| `SseStream` | one stream as a value: initial pass, frame hold, bounded writer |
| `SseConnections` | connects and streams of several pods: admissions, grants, revokes, key closes |
| `EventTransport` | the publishing and subscribing side of each pod: breaker, held closes, Redis |
| `EventStreams` | the two together: events, changes and key closes from pod to pod |
| `SseConnections_proofs` | theorems about streams, frames, admissions and key closes |
| `EventStreams_proofs` | what is in transit, that the composition implements `SseConnections`, and that streams follow the permissions the app stores |
| `MCEventStreams` | two pods and five scenarios |

`WorkflowEngine`, `TransactionFrames` and `ScheduledSend` each implement their abstract
specification: the `INSTANCE ... WITH` near the end of the module is the refinement
mapping and `ImplementsLifecycle`, `ImplementsNesting` and `ImplementsPromise` are checked
as properties. `ServerShutdown` composes the server with `DatabaseManager`, and
`EventStreams` composes `SseConnections` with `EventTransport`, by sharing their variables:
an action of the composition is a conjunction of one action of each.
`TransactionBinding` is a second view of the same connection as `TransactionFrames`, at
a finer grain (statements sent, run and answered separately) and for less of its state;
the two are not composed, because their product is out of reach and the binding does
not influence which frame opens when.

Operators called a mutant in their comment are not part of a specification: each is
one definition changed the way a plausible bug would change it, kept to show that the
property that guards it fails under it.

### WorkflowEngine

Everything the engine keeps is keyed by the execution id, so one execution is enough.
An action is one database statement, or one job run, with the synchronous code that
follows its answer; that is exactly what may happen between two awaits.

| Code | Model |
|---|---|
| execution row, step rows | `status`, `currentStep`, `step` |
| `processingExecutions`, `subscribers` per process | `processing`, `subscribed` |
| a call of `start`, `retry` or `cancel`: the statement it is at, and what it last read | `pc`, `seen`, `rows`, `todo` |
| the promises of `executeStep` under `Promise.all` | `mem` |
| `executeNextStep` | `LoadExecution`, `LoadSteps`, `MarkRunning`, `StartBatch`, `JoinBatch` (with `FirstError`), `RejectBatch`, `Complete` |
| `executeStep` | `MarkStep`, `RunJob`, `SaveOutput`, `RecordFailure` |
| `handleStepFailure`, `executeRollback` | `FailExecution`, `BeginRollback` ... `EndRollback` |
| `retry` | `Retry`, `RetryLoad`, `RetryAdmit`, then `Resume` and `ResetFailedStep`, or `ResetAllSteps` and `Restart` |
| `cancel` | `Cancel`, `CancelLoad`, `CancelMark`, then the rollback |
| failing statements, uploads and compensations, crashes | `StatementFails`, `StepStatementFails`, `StoreFails`, `CompensateFails`, `MarkCompensatedFails`, `Crash` |

Two variables are history: `effects` counts a job's runs minus its compensations,
`faulted` the kinds of faults so far. Assumptions: step names are unique
(`builder/types.ts` asks for it, nothing enforces it); a statement that throws had no
effect; inputs, outputs and times are left out, and of an error's text all but whether
it is empty. That much is needed because the loop tests the *message* of a failure and not
the failure (`if (firstError)`): a step that fails with `new Error('')` has a failed row
(`"blank"` in the model), yet the loop goes on as if it had succeeded, and so it does when the
first failure of a group is blank and a later one is not (`FirstError`, `Overlooked`).
`Terse` names the steps that may fail in that way; with `Terse = {}` nothing is ever overlooked.
`Patient` restricts the *clients*: they call `retry` and `cancel` only when every earlier call and job has
ended. Several properties hold only for patient clients, because the code does not
defend them against others; that is what the violation runs show.

### TransactionFrames

A frame is one call of `runInTransaction`. An action is what runs between two awaits of
a frame or of user code.

| Code | Model |
|---|---|
| where a call is | `phase` |
| the calling frame, the `savepointOwner`, the chain of contexts | `caller`, `owner`, `enclosing` |
| the context object a call was made in: a frame's own, or the clone a compensation pass runs in | `site`, read with `SiteOf` and `ContextAt` |
| the promise chain of each context object, which serialises siblings | `gate` |
| the three hook queues; the copy `beforeCommit` walks | `hooks`, `snapshot` |
| what the open transaction of a connection holds: writes and SAVEPOINTs, in order | `log` |
| PostgreSQL's aborted state; what was committed | `aborted`, `durable` |

The driver and PostgreSQL are external and modelled by what `transaction/README.md`
says of them: a SAVEPOINT is never released, ROLLBACK TO cuts the log back to it, a
failed statement aborts the transaction up to the next ROLLBACK (TO). User code is *any*
code that keeps two documented rules: it does not use the connection while a nested call
it made is pending, and it awaits the nested calls it makes before it settles. With
`FailFast` it may break the second the way `Promise.all` does.

`SiteOf` is where the code differs from its comment. `asyncContext.exit` wraps only the
driver's part of a `requiresNew` call, so the afterRollback pass that follows a failure runs
in the context the call was *made* in (`runner.ts:699-701`, `899-905`): what the pass writes
goes into the caller's transaction, its hooks into the caller's queues, and its nested calls
queue at the caller's gate. Neither the pass nor the caller can see that the connection is shared
in this way, so a write may be sent while a frame it does not belong to is open. `astray` is
history: the writes sent behind such a frame's SAVEPOINT. A statement that *fails* there is
not modelled (`StatementFails`). The afterCommit callbacks of a `requiresNew` root run in the
same context, but nobody awaits them; the model counts them and gives them no statements.

Left out: option
validation, timeouts, logging, a BEGIN that fails (the call just rejects), a connection
lost during COMMIT (the outcome is unknown to the code too), hooks registered late by
work nobody awaits, and the order in which hooks of one queue run (only how often each
runs is kept). A callback that awaits a sibling queued behind itself waits for ever;
that is documented misuse and not modelled.

### TransactionBinding

One root transaction, one of its two bindings (the user's is the same code under
another key). `wire` holds the statements sent and not run, `answers` those run whose
answer has not been handled; `Execute` is PostgreSQL, the `...Answered` actions are the
continuations. `bound`, `level`, `openLevel` and `ready` are the fields of
`TransactionBinding` in the code. The order in which waiting frames open is left free,
which includes the gate's. `Calm` is a promise of user code: nothing that may roll back
is under way while a repository call is. Left out: the end of the root, a failing
`set_config`, and calls made outside any transaction.

### ScheduledSend

The row is unique by its idempotency key, so one row is enough; every call and job that
ever touches it is in the model. An action is one statement, or one call of the provider,
the send guard or pg-boss.

| Code | Model |
|---|---|
| the history row: `status`, `claimToken`, `jobId`, whether `scheduledAt` is set | `row` |
| a `schedule*`, bulk, keyed send or `cancelNotification` call, and its answer | `request`, `answer` |
| pg-boss: the job of each schedule and its attempts (external) | `job`, `tries` |
| an attempt of a job, or a keyed send, from its claim to its outcome | `at` |
| `claimKeyedSend`, `openScheduledRow` and the like | `ClaimKeyed`, `Duplicate`, `Enqueue`, `EnqueueFails`, `StoreJobId` |
| `cancelNotification` | `Cancel`, `CancelQueuedJob` |
| `runScheduledSend` | `Fetch`, `ClaimForJob`, `AskGuard`, `ProviderAccepts`, `ProviderRefuses`, `ProviderThrows`, `Record` |
| what goes wrong | `RequestFails`, `ClaimForJobFails`, `RecordFails`, `Crash`, `Expire`; `FreeKey` is the operator's way out of a stuck key |

`delivered` and `lost` are history: what the provider took, and how much of that no
statement recorded. Assumptions: a claim token is fresh (a UUID), so a schedule stands
for its token; pg-boss gives a job to one worker at a time, up to its retry limit;
`FreeKey` is used as its comment asks, when nobody sends. Left out: sends without a key, which keep a best-effort
history; batches in one provider call; templates, tracking, statistics; and, in the run,
the fault "expire": an attempt that pg-boss gives up on while it runs. The model has the
action, and the type theorem covers it; with it `HolderOwnsRow` and `ScheduledHasJob` do not
hold, since two attempts of one job carry one token and the code cannot tell them apart.

### DatabaseManager and ServerShutdown

An action is what runs between two awaits. Pools are named by who created them and in
which try.

| Code | Model |
|---|---|
| the global slots: the instance, `initPromise`, `closePromise`, the check's interval, `isClosing` | `slot`, `init`, `closing`, `checking`, `isClosing` |
| `isReconnecting`, the error window | `isReconnecting`, `errors` |
| `initDatabase` | `InitCall`, `InitJoined`, `InitCreates`, `InitDiscards`, `InitStores` |
| `closeDatabase` | `CloseCall`, `CloseProceeds`, `CloseEnds`, `CloseJoined` |
| the interval, `triggerForceReconnect`, `reportDatabaseError` | `Tick`, `CheckEnds`, `ForceReconnect`, `ReportDatabaseError`, `ForgetErrors` |
| `attemptReconnection`, `reconnectAndRestore` | `AttemptReconnection`, `Retry`, `RebuildCreates`, `RebuildTestFails`, `RebuildSwaps` |
| `startServer`, the shutdown handler, the deadline | `phase`, `armed`; `Start` ... `StartFails`, `Shutdown` ... `Exit`, `Deadline` |
| `ShutdownManager` | `state`, `op`, `hooks`, `next`, `hook`; `TrackOperation`, `OnShutdown`, `Drain`, `CallHook`, `HookOver`, `HooksExecuted` |

`outlived` (loops under way when a close stopped them), `dropped` (pools lost in the two
ways the code has), `runs`, `late` and `abandoned` are history. Left out: external
providers and `setDatabase`; the replica, whose client is created, swapped and closed with
the other; the retries inside one connection attempt; listeners, WebSockets, pg-boss and Redis
beyond the wait for their close; signals before the server is up; several servers in one
process. `phase = "script"` is a process that uses the database without a server.

### The events

| Code | Model |
|---|---|
| a connect, from the token to the stream; what `canSubscribe` said | `at`, `verdict` |
| the registry's `PendingAdmission` and its recorded changes | `recorded` |
| `SSEConnection`, frame hold, bounded writer, what its client has been told | `stream` |
| the rows the app keeps: revoked keys, who may subscribe | `revoked`, `allows` |
| `createRedisPubSubCache` and `createKeyCloseDeferral` of a process | `outbox` |
| Redis and the subscriber's connection (external) | `inbox`, `linked` |
| `admitConnection`, `whilePending`, `runStream` | `Take`, `ReadKey`, `Ask`, `Open`, `Refuse`, `Leave` |
| the initial pass and the writer | `Stream`, with `Produced`, `Written`, `WriteFailed` |
| `grant`, `revoke`, `closeByKey` on a handler | `Change`, `CloseByKey` |
| `publish` and its outcome, the flush, disposal | `Publish`, `Succeeds`, `Fails`, `Cool`, `TimerFires`, `Resend`, `FlushEnds`, `Dispose` |
| `emit`, `event.grant`, `event.revoke`, `closeSSEConnectionsByKey`, the control channel | `Emit`, `ChangeEverywhere`, `CloseStreams`, `Deliver` |

`SseStream` has no variables: a stream is a record and each operation an operator on it, so
that `SseConnections` can apply one to many streams in a step. `closed`, `missed`,
`decided` and `applied` are history, and so are `dropped` in an outbox and `view` and
`astray` in a stream, which are the client's side of it. Every operation is called once: `todo` holds
those still to be called. All connections are of one subject and ask for one event.
Assumptions: Redis delivers one client's publishes in order to every connected
subscriber, once; the app stores a permission before it calls `grant` or `revoke`, and
makes the next change when the last call has been made (changes decided side by side
have no order to be true to). `closeSSEConnectionsByKey` closes locally and publishes in one
step: only a promise that is already resolved lies between the two (`close-by-key.ts:40`), but
for the first use of the transport. A key close made after `Dispose` goes to the disposed outbox,
where it is sent once and not kept; in the code it would resolve a new transport.
`missed` holds the closes that Redis took for good, so that nobody sends them again, while the
pod was not listening. Left out: minting and expiry of tokens, frame filters,
pings, events with payloads that cannot be serialised, several events per stream,
subscribing at boot, job queues fed by events, running without Redis (one process, no transport),
and the WebSocket handler.

## The runs

Each passing run explores its instance completely. Properties are stated, with the code
they are about, in the comments above their definitions.

| Run | Configuration | Instance | Checks |
|---|---|---|---|
| `workflow_patient` | `MCWorkflowPatient.cfg` | a step, then a parallel pair; one retry, one cancel with rollback, every kind of fault, two steps that may fail without a message; 989 thousand states | the engine implements the promised life cycle; a mapper has its earlier results, but for failures that an empty message hid; no rollback beside a running job; compensations undo, never twice, in reverse; the retry guard never leaks |
| `workflow_free` | `MCWorkflowFree.cfg` | a chain of two, resumable, whose second step may fail, with or without a message; a retry, and a cancel on a second server, at any time; no faults, fair; 126 thousand states | work in progress always has a call that will move it on; every execution settles; a server drops its subscribers unless a call on the other one took the execution over |
| `workflow_cancel_race` | `MCWorkflowCancelRace.cfg` | one cancel at any time | *violated:* `CancelledIsFinal` |
| `workflow_resume_after_rollback` | `MCWorkflowResume.cfg` | one patient retry, resumable with rollback | *violated:* `CompletedMeansAllSteps` |
| `transaction_hooks` | `MCTransactionsNested.cfg` | a root and two inner calls, one of which may be `requiresNew`, one write and one hook of any kind per context, fair; 595 thousand states | writes and hooks have the fate of the frame they were made in and of those around it, but for writes that the pass of a failed `requiresNew` call led astray; no call waits for ever at a gate |
| `transaction_nesting` | `MCTransactionsDeep.cfg` | a root and three nested calls in any shape, none `requiresNew`, compensations that write and nest; 512 thousand states | open frames of a connection form a chain; the shared log implements one set of writes per frame |
| `transaction_promise_all` | `MCTransactionsFailFast.cfg` | as above, with `FailFast` | *violated:* `ResolvedAsDurableAsParent` |
| `binding_calm` | `MCBindingCalm.cfg` | three repository calls, two nested calls, two tenants, calm; 80 thousand states | a query runs under its tenant; the record is in step with the database |
| `binding_race` | `MCBindingRace.cfg` | the same, not calm | *violated:* `QueriesRunBound` |
| `scheduled_send` | `MCScheduledSend.cfg` | one key: a guarded schedule and a bulk item with two attempts each, two keyed sends, a cancel; crashes, failed statements, a provider that throws, a queue that refuses, fair; 943 thousand states | the row implements the promised notification; whoever sends has the row; a cancel that succeeded means nobody sends; a duplicate takes a lost record; a scheduled row has a job, and settles |
| `server_shutdown` | `MCServerShutdown.cfg` | a server with two initialisations, a close, a loop, an operation and two hooks, or a script with two closes and two loops; 1.18 million states | the pool handed out is open; none is lost but in the known ways; a closed manager stays empty; rebuilds are coalesced; operations end or are given up by name; hooks run, and once; shutdown ends |
| `event_streams` | `MCEventStreams.cfg` | two pods, two keys, two connections, a grant, a revoke and two events, in five scenarios with up to three faults, fair; 340 thousand states | no stream of a closed key; streams show what the app allows; clients are told the truth, in order; a key close gets through |

### Bounds, and why they are enough

- *Workflow.* Three steps, one before a parallel pair, is the smallest workflow with an
  earlier result, a group, siblings of which one fails, and a step to compensate outside
  the failing batch. Step 2 of the pair is not compensable and every step may fail.
  `Terse` holds the first step and the first of the pair, so that a whole group is overlooked,
  and a failure with a message is hidden behind one without. One retry and one cancel give
  every pair of different calls and a second run of every step. Two servers are enough to separate what is in the
  database from what is in a process. Times and attempts are not bounded by anything
  else: `effects` stays finite because calls are.
- *Transactions.* Three inner calls allow two siblings beside a deeper call, a
  compensation that nests, and a sibling queued behind both. `MaxWrites` and `MaxHooks`
  bound what one context does; one write before or after a SAVEPOINT is what decides
  whether a ROLLBACK TO takes it. `StatementFails` is bounded to statements that are not sent behind
  another frame's SAVEPOINT. `HookKinds` and `NewRoots` choose which of the two
  dimensions a run spends its states on. In `transaction_nesting` inner calls are
  interchangeable in every definition, so symmetry over them is sound; `transaction_hooks`
  names the one that may be `requiresNew` and checks liveness, and uses none.
- *Binding.* Two tenants allow a mismatch, two nested calls allow siblings and nesting,
  three calls allow a claim, one that shares it and a stranger. Symmetry permutes calls,
  frames and tenants, between which nothing distinguishes.
- *Notifications.* One row, since rows share nothing. Two owners with a job, of the two kinds
  that differ (a guarded schedule with a date, a bulk item without), and two keyed sends
  give a takeover of either by either. `MaxAttempts = 2` gives a retry and a last
  attempt. `Faults` names what may fail; each may happen any number of times.
- *Database and shutdown.* Two loops, a close and a second initialisation are what a
  rebuild that outlives a close needs to meet another one. `MaxRetries = 2` gives a retry and a
  last try, `Threshold = 2` an error that forces nothing and one that does.
  `ServerCalls` bounds what happens to the database of a process that also has a server;
  the script has all of it. Two hooks, the second of the lower order, are what a sort
  under a running loop needs.
- *Events.* `Scenarios` lists which connections and calls there are and how many faults,
  one hazard each: two closes that compete for the list of `Cap = 1` (three faults: a
  publish that fails and its retry, or a stopped pod); a close that races an
  admission; a grant and a revoke from different pods around an admission on either
  pod; a revoke and two events at a slow client. `MaxQueue = 2` is overrun by an initial
  frame and two events, and `Initials` has a producer answer with nothing or with one.

### Deadlock

`transaction_nesting` checks deadlock; `Terminated` is the one stutter allowed, when the
root and every call made have settled. `transaction_hooks` leaves the check off because
`EveryCallSettles`, under fairness, says the same and more. The other systems really
stop, when every client has made its calls, so their runs switch the check off, and
each has a liveness property in its place, but for the bindings: executions settle
(`workflow_free`), scheduled rows settle, shutdown ends, key closes arrive.

### Fairness

`workflow_free` assumes weak fairness of each call's next step and of each job: the
event loop runs every continuation whose promise settled, and jobs and statements are
assumed to answer. Clients owe nothing: `retry`, `cancel` and `subscribe` are not fair.
`transaction_hooks` assumes only that *some* step is taken while one is possible
(`WF_vars(Step)`); bounded writes and hooks make user code finish. `scheduled_send` does
the same: callers and workers run, pg-boss polls, expires attempts that died and
stops at its retry limit. `server_shutdown` assumes that the handler's own continuations
and timers run, that the deadline fires, and that `beforeShutdown`, the WebSocket cleanup
and pg-boss's stop, which no timer cuts off, return; operations, hooks and the
database owe nothing. `event_streams` assumes, per pod, that a publish is
answered or times out, that the cooldown passes and a connected subscriber reads
(`Progress`), and that the retry timer fires and a flush goes on (`Flushes`); that
connections come back, that clients read and that operations are called is not assumed. None
assumes strong fairness.

## The proofs

`WorkflowEngine_proofs` proves, for every number of steps, calls and servers, any
grouping, and every choice of faults (the hypotheses of a theorem come before its
formula):

| Theorem | States |
|---|---|
| `TypeCorrect` | `Spec => []TypeOK` |
| `GuardAlwaysReleased` | `Spec => []GuardReleased`: an id is in a server's `processingExecutions` only while a `retry` on that server is past its guard, whatever throws where |
| `UnsettledAlwaysHasOwner` | `Spec => []UnsettledHasOwner`: without crashes and failed statements, a status that says work is in progress is backed by a call that will replace it |
| `RollbackAlwaysAlone` | `Patient`: `Spec => []RollbackBarrier`: no job in flight while a call rolls back |
| `RollbackAlwaysUndoes` | `Patient`: `Spec => []RollbackUndoes`: without faults a compensated execution owes nothing |
| `AlwaysCompensatedInReverse` | `Patient`: `Spec => CompensatedInReverse` |
| `NeverCompensatedTwice` | `Patient`, and no failing statement if `Resumable`: `Spec => []NeverOverCompensated` |
| `ResultsAlwaysComplete` | `Patient`, not `Resumable`: `Spec => []ResultsComplete`: a step that runs has every earlier result, but for the failures that an empty message hid |
| `ResultsCompleteWithMessages` | the same and `Terse = {}`: it has every earlier result |
| `EngineImplementsLifecycle` | `Patient`, not `Resumable`: `Spec => ImplementsLifecycle`, the refinement of `WorkflowLifecycle`, whose clause about blank failures is void when `Terse = {}` |

They rest on the named assumptions `CallsAssumption` (start, retries and cancels are
distinct calls, each with a server) and `WorkflowAssumption` (a group is a run of
consecutive steps), which TLC evaluates in the runs.

The arguments. `TypeOK` is inductive; it needs the parameters only for the ranges.
`GuardReleased` is inductive with `TypeOK`: `RetryAdmit` is the only step that adds an
id and it moves its call past the guard, and every step that takes a call out of the
guarded labels goes through `Finish`, which removes it; when a second `retry` of the
same server is past the guard as well, `Finish` of either removes the id, which is why
the property is stated from the id to the call and not the other way round.
`UnsettledHasOwner` is not inductive alone: a parallel member that throws ends its loop
and would take the owner with it, so the invariant is
`TypeOK /\ ThrownMeansFault /\ UnsettledHasOwner`, where `ThrownMeansFault` says that a
member throws only after a failed statement. The step proof has one lemma per group of
actions; the heart of it is `OwnerMove`: a call that moves on without touching the
status keeps owning it, and a call that writes a status owns what it wrote
(`OwnerSet`), so it does not matter whose write came last.

The theorems about patient clients share the invariant `Solo`: at most one call is *at
work*, which includes the jobs a rejected batch left behind (`Alone`); members exist only
under a call that waits for them or was rejected (`Placed`); and the label of the call at
work fixes what the execution row says (`StatusOf`) and that the rows it has read are the
rows there are (`RowsOf`). Everything said of a call is said of the one at work, so a step
has to be looked at for its own call only (`Bystanders`, `SoloMove`). `RollbackBarrier`
follows at once. On top of `Solo`:

- `Balance`, without faults: a compensable step's effect is 1 exactly if its row is
  completed and not the one a rollback has just undone, or its member is about to save;
  a rollback's `todo` is all that is completed. A retry that is not resumable resets
  every row, and loses no effect only because nothing is completed then: a failure is
  always rolled back first, which is where `UnsettledHasOwner` is needed. Where failures are
  not rolled back nothing ever is (`Dormant`), as a patient `cancel` comes too late.
  `Remaining`, the second half of `Balance`, gives the order of compensation.
- `Credit`, with every fault: a completed row stands for at least one run of its job,
  except from the moment its compensation has run (the row may keep saying completed if
  its update fails) until the execution is reset. A resumable retry does not reset it, hence
  the hypothesis, which is needed: with it lifted TLC finds a job compensated twice.
- `Tidy`, not resumable: between batches every row is pending, completed or overlooked, and a
  member is busy only when the loop is past all earlier groups, in the rows its call has read
  and in the database. It also says that a blank member stands for a blank row and that an
  execution is failed for a row with a message. It makes the batch of `StartBatch` the right one, and each result an event
  `FinishStep` of `WorkflowLifecycle`; `StatusOf` makes each status update one of its edges.

`TransactionFrames_proofs` proves, for any number of calls, writes and hooks and any
shape of nesting, the first two with and without `FailFast`, the others for user code
that awaits the calls it makes (`~ FailFast`):

| Theorem | States |
|---|---|
| `FramesTypeCorrect` | `Spec => []TypeOK` |
| `GateIsMutex` | `Spec => []OneOpenPerGate`: of the calls that share a gate at most one is open |
| `SavepointsAlwaysNest` | `Spec => []SavepointsNest`: of two frames open on one connection, one encloses the other |
| `WorkAlwaysFollowsFrames` | `Spec => []WorkFollowsFrames`: durable is what the frames that resolved with all around them wrote, nothing else, and all of it but for what went astray; and only in the context where a failed `requiresNew` call ran its afterRollback pass does anything go astray |
| `HooksAlwaysFollowWork` | `Spec => []HooksFollowWork`: a hook runs, or not, with the fate of the frame it was registered in |
| `FramesImplementNestingUnlessAstray` | `Spec /\ [](astray = {}) => ImplementsNesting`: the refinement of `NestedTransactions`, as long as nothing goes astray |
| `FramesImplementNesting` | `NewRoots = {}`: `Spec => ImplementsNesting`: without `requiresNew` calls, always |

They rest on `FramesAssumption` (the calls, the bounds) and `BoundsAssumption`. `~ FailFast`
is a hypothesis because the others are false without it (the third finding below).

*Structure.* `TypeOK` is not inductive: a call that settles takes the head off its gate, which must
not be empty, and a statement goes to the connection of a context's root, which must
exist. The invariant is `TypeOK /\ Structure`, and `Structure` has four parts: `ChainOK`
(a context's chain holds one root, a nested call has an owner and a caller that have
been called, and the context a call was made in is that of a frame called before), `RootPhases` (only a root finishes, only a nested call queues),
`GateMembers` (a pending nested call stands exactly once, in the queue of its own gate)
and `GateHead` (one that has opened is the first there). Three lemmas carry the gates:
`GateJoined`, `GateOpened` and `GateLeft`, for a call that queues, opens and settles;
every other action falls under `GateFrame`. `GateIsMutex` is `GateHead` read for two calls.

*Nesting.* A gate alone does not give the order of SAVEPOINTs: a compensation opens
calls in its owner's context through a gate of its own. `Nesting` adds that nobody is his own
caller's caller or owner's owner (`WellFounded`, stated for every set of calls, since
induction over the chain is out of reach; nor was a call made in a context of its own making),
that a chain is a call and its owner's chain, and that who made a pending call is still in the
code that made it, in the same context. Then
everything around a pending call runs (`AllAroundRun`), and the calls opened off one context
form a single line, each made by the compensation before it: two that made no
further call are the same (`OneLeaf`), and an open one is such a leaf.

*Work.* The log of a connection is described by where things lie in it: it holds only what was
sent in the open transaction by frames not undone (`LogSent`), the
SAVEPOINT of each open frame once, with what the frame and those inside it sent behind
it and nothing of theirs before (`LogMarked`), and every write not undone
(`LogComplete`), the last two but for what is `astray`. ROLLBACK TO then cuts what its frame
undoes and strays (`WorkCut`), and COMMIT finds what is kept (`WorkCommitted`). That a write
strays only in the context of a failed `requiresNew` call (`AstrayOnlyByNewRoot`) is
proved from *Nesting*: a frame that is open around nothing of the writer's needs two pieces of
user code to be at work in one context.

*Hooks.* A hook stands in the queues at most once (`HooksOnce`). Where it stands is the frame
it is entrusted to: every frame around it inside that one has resolved, that one is open, or
compensates and keeps its afterRollback hooks, and the hook has not run (`HooksEntrusted`;
`HooksSnapshot` says the same of the beforeCommit callbacks a root has left to run). A
hook that stands nowhere has met its frame's fate (`HooksSpent`), and one not registered yet has
not run (`HooksLater`). `EntrustedKept` and `SpentKept` say that a step keeps what it does not
touch, so each action is left with the hooks it moves.

*Refinement.* The mapping reads a frame's work off the log, between two SAVEPOINTs. `WorkIs`
states it without the order, while nothing is astray: a write is borne by the innermost
open frame around it (`Bears`). With it each step is about sets: `Open` starts with no work,
`Resolve` hands on what its frame bears to its parent and takes nothing from others,
ROLLBACK TO drops what the frame bears and nothing else. The concrete guards imply the abstract
ones because a call that settles is the deepest of its connection (`SettlesDeepest`).

`TransactionBinding_proofs` proves, for any number of repository calls, nested calls and
tenants, the first whatever user code does, the others for calm transactions (`Calm`):

| Theorem | States |
|---|---|
| `TypeAlwaysCorrect` | `Spec => []TypeOK`; in particular no level is deeper than the frames there are |
| `QueriesAlwaysRunBound` | `Spec => []QueriesRunBound`: a query runs under the tenant its call was made for |
| `RecordAlwaysInStep` | `Spec => []RecordInStep`: with nothing on its way, the record is what the database would answer, and its level tells whose ROLLBACK TO would undo the setting |

They rest on `BindingAssumption`: the kinds of actors are distinct, and there are finitely many
of each. `Calm` is a hypothesis because the other two are false without it (the fourth
finding below, and the weakness that follows the list).

*The connection.* Even `TypeOK` needs to know what is on its way. `pipe` is what was sent
and not yet handled, the first `n` of it run. `Sent` says that each statement is the one
its sender waits for, and no sender has two; `Chained` that the open frames form one line,
a level each, with `openLevel` the innermost; `Marked` that a frame's SAVEPOINT is in the
log once from the moment it is run, in the order of the levels. ROLLBACK TO then always finds
its SAVEPOINT (`Cut`), and a frame that waits for an answer is the innermost one.

*The setting.* In a calm transaction no call is on its way while a frame may be rolled
back (`Peaceful`), so a ROLLBACK TO travels alone (`Alone`), and a call on its way claims
what is bound and sends its query only once the `set_config` is answered (`Claimed`).
The rest is `Standing`. `Recorded`: the log holds one setting at most, the record's, and it is
missing only while its `set_config` is on its way, or when a ROLLBACK TO has undone it and
its answer has not been handled. `Levelled`: the frames whose SAVEPOINT was taken before the
setting are those up to the record's level. `Ordered` says the same of what has not been run yet:
a `set_config` that overtakes nobody lands behind exactly the SAVEPOINTs of the levels up to
the one that was recorded when it was sent. That is why `claimTransactionBinding` may record
the level before the database has answered, and why a release may move it down
without a look at the log. `QuerySees` then reads off what a query finds.

`ScheduledSend_proofs` proves, for any number of schedules, bulk items, keyed sends and
cancels, and any retry limit; all but the first for attempts that do not expire while they run:

| Theorem | States |
|---|---|
| `TypeCorrect` | `Spec => []TypeOK`, with every fault |
| `HolderAlwaysOwnsRow` | `Spec => []HolderOwnsRow`: between its claim and the record of its outcome, whoever sends has the row for itself |
| `CancelAlwaysMeansNotSent` | `Spec => []CancelMeansNotSent`: after a cancel that succeeded nobody is sending or will |
| `DuplicatesAlwaysLost` | `Spec => []DuplicatesOnlyLost`: every delivery but the first takes a record that was lost |
| `RowImplementsPromise` | `Spec => ImplementsPromise`: the refinement of `NotificationPromise` |
| `ScheduledAlwaysHasJob` | `Spec => []ScheduledHasJob`: a scheduled row has a job, or is one of the stranded |

They rest on `SendAssumption`: requests of different kinds are distinct, and none is an
attempt. `TypeOK` needs `JobsOK`, that a job which is queued has a try left. Everything else is
built on `Owned`, which adds `OneAttempt` to `HolderOwnsRow`: of a job's attempts only the
last one runs, and then pg-boss does not hold the job ready. That is what makes a token,
which all attempts of a job share, stand for a single sender, and it is where "expire" would break
the argument. The statements that write an outcome by id alone are then writes by
the owner. `CancelsTook` carries the cancel: its row stays cancelled, so no claim can
succeed again. `Accounted` counts deliveries: they exceed the lost records by at most
the one that the row, or a sender on its way to record it, stands for. `Watched` says of the job
of a row that waits who will look at it next.

`DatabaseManager_proofs` and `ServerShutdown_proofs` prove, for any number of calls, loops,
operations and hooks, and any retry limit and error threshold:

| Theorem | States |
|---|---|
| `OpenPoolHandedOut` | `DbSpec => []HandsOutOpenPool`: the pool in the slot is open unless a close is under way |
| `NoPoolLost` | `DbSpec => []NoStrayPool`: an open pool is in the slot or in the hands of a call that will store or close it, but for the two known ways |
| `StaysClosed` | `DbSpec => []ClosedStaysEmpty`: only a loop that outlived a close fills the slot again |
| `RebuildsCoalesced` | `DbSpec => []OneRebuild`: one rebuild at a time, but for those that outlived a close |
| `ServerUsesDatabase` | `Spec => DbSpec`: a process with a server takes only steps of the manager |
| `DatabaseBesideServer` | the four promises above, for a process with a server |
| `ServerTypeCorrect` | `Spec => []TypeOK` |
| `DrainedBeforeHooks` | `Spec => []DrainedOrAbandoned`: once hooks run, an operation that still runs was given up by name |
| `HooksOnce` | `Spec => []HooksCalledOnce`: every hook that registered in time runs before the pools close, and only late ones make a hook run again |

They rest on `ManagerAssumption` and `ShutdownAssumption` (kinds of calls are distinct, the bounds are
numbers). `DbInv` adds three facts to the properties. `OneCallEach`: `initPromise` and
`closePromise` name the one call that works, the others have joined it. `PoolsHeld`: a pool
is open only if its call still holds it, or it is stored, or dropped. `Coalesced` counts:
the loops that run are no more than those that outlived a close and the one that
`isReconnecting` stands for. A loop that outlives a close stays counted
among the outlived for good, so that the sum still holds when it clears, at its end, the flag of
another. `ShutdownInv` follows the walk over the hooks: `Registered` (the array has no
duplicates, and who came late is in it), `Walk` (where the loop can be in which phase),
`Counts` (a position that the loop has passed was called, and no position more often
than there are late hooks, plus one if it was passed) and `AllCalled`. An insertion before the
position shifts the array, which is why the bounds are by position and the
slack is the number of late hooks.

`SseConnections_proofs` and `EventStreams_proofs` prove, for any number of pods, keys, connections, operations and faults:

| Theorem | States |
|---|---|
| `ClosedKeyStaysClosed` | `ConnSpec => []KeyCloseIsFinal`: on a pod that has applied a key's close, no stream of the key is open and none opens |
| `FramesStayInStep` | `ConnSpec => []FramesInStep`: what a client has been written is in an order that it can follow |
| `FramesStayInStepOnEveryPod` | `Spec => []FramesInStep`, in the composition |
| `TypeCorrect` | `Spec => []TypeOK`; in particular no pod holds more than `Cap` closes |
| `StreamsImplementConnections` | `Spec => ConnSpec`: the composition takes only steps of its component |
| `ClosedKeyStaysClosedOnEveryPod` | `Spec => []KeyCloseIsFinal`, from the two above |
| `PermissionAlwaysInStep` | `Spec => []PermissionInStep`: a pod that applied all changes in order shows each open stream what the app allows |

`ConnSpec` is `SseConnections` in an environment that changes the app's data at will and
closes a key only once it is revoked. Its invariant has two parts beside the types and
the property: closed keys are revoked (`ClosedRevoked`), so nobody reads one as live any
more, and an admission that read its key before has the close on record
(`CloseRecorded`), so that it will be refused. One lemma for each operation of
`SseStream` says that it returns a stream and reopens none. The transport has a type
invariant over a set of messages, `TransitOf(M)`. `EventStreams` instantiates it with what
has been posted (`Posted`: closes of revoked keys, changes that were stored), which only
grows; that is why a delivered message meets the guard of `ConnSpec`, whatever Redis
refused, lost or repeated.

`FramesInStep` needs the order of what is not written yet. `Leads(v, q, w)` says that the frames `q`
take a client that sees `v` to see `w`, and no frame is out of place on the way; `StreamInStep`
says that what is being written, queued and held leads from what the client sees to
what is so. Each operation appends at the end or writes from the front, and both keep it.

`PermissionInStep` speaks of one moment, and its invariant of all of them. `After` is the
permission after the first k stored changes. As long as a pod has applied a prefix of
what was stored, an open stream and an admission that was answered show the permission
as it was at *some* time since the pod's last change (`Agrees`): `canSubscribe` may have read
ahead of what the pod has applied. An admission that was not yet answered has on record what
its pod applied, so its last hit is the pod's own time (`Tracks`). Each further change
catches up by one, and when none is left the two times are the same. A pod that
misses a change, or gets two in the wrong order, never again has a prefix applied, and
nothing is said of it.

Only model-checked: every liveness property, which is out of the prover's reach. The
violation runs refute the other properties without a theorem.

## Where the code and its documentation differ

Each of the first list is one violation run; its counterexample is a behaviour of the code.

1. The status flow has no edge out of `cancelled` but rollback, yet the loop writes
   `running`, `completed` or `failed` over it without a condition (`workflow-engine.ts:183`).
2. After a rollback, `retry()` of a resumable workflow resets failed rows only; the
   compensated ones are never run again and the execution completes without them
   (`workflow-engine.ts:826`).
3. The transaction README recommends `Promise.all` over nested calls as still correct.
   When one rejects, the parent's ROLLBACK TO is sent while siblings are queued or
   open; they then run outside the parent's savepoint and commit with the root although
   the parent rolled back (`context.ts:167`).
4. A claim of the tenant made beside an open savepoint lands in that savepoint; if its
   ROLLBACK TO goes out between the claim's answer and the query, the query runs under
   no tenant although the claim succeeded (`tenant.ts:105`).

Weaknesses that a model shows and that no run is spent on. A property that would fail
over one of them says so and excuses exactly it:

- A claim made while a ROLLBACK TO is on its way is recorded at the level of the frame that is
  going, but its `set_config` runs outside it: the record is cleared and the setting
  stands, so that a later call for another tenant is not refused (`tenant.ts:99`; the
  instance of `binding_race` violates `RecordInStep` as well). `Calm` excludes it.
- `retry()` reads `processingExecutions` before two awaited SELECTs and adds to it after
  them: two calls in that window both run the workflow (`workflow-engine.ts:789`). Two
  retries of one server reach it in `WorkflowEngine`; the runs have one.
- An error without a message is taken for success (`workflow-engine.ts:226-227`, `238`, from
  the text returned at 334), and as the first of a group it hides the failures of its siblings:
  the loop runs later steps without their results and may end in a completed execution with
  failed rows, although the comment at 194 says otherwise (`Overlooked` in `ResultsComplete`
  and in `WorkflowLifecycle`).
- Terminal events are emitted on the server of the call that wrote the status. When a `cancel`
  on another server ends an execution, the loop reads `cancelled` and returns silently
  (`workflow-engine.ts:175-178`, `648-651`), and the subscribers of the first server are kept for
  ever; so are those that subscribe during a rollback, since `compensated` emits no
  terminal event, and those of an execution that is retried elsewhere (`SubscribersReleased`
  excuses a call on another server that took over, and subscriptions made in a rollback).
- A job that took effect, while the storing of its output or the update of its row failed, is a
  failed step; a rollback compensates completed ones only and never undoes it
  (`workflow-engine.ts:303`; `RollbackUndoes` is about runs without faults).
- An execution whose server stops stays `running`; nothing resumes it and `retry()` refuses
  it (`workflow-engine.ts:854`; `UnsettledHasOwner` and `EverySettles` are about runs without
  crashes).
- The afterRollback pass of a `requiresNew` call runs in its caller's transaction, contrary to
  the comment above it (`runner.ts:892-895`) and to the transaction README. With a sibling of that call
  open, the sibling's ROLLBACK TO takes what the pass wrote, although the frame it was written in
  resolves and commits; and a nested call made by the pass covers what the caller itself writes
  meanwhile (`astray` in `WorkFollowsFrames`).
- A rebuild that outlives a close swaps its pool into the closed manager
  (`health-check.ts:165`, although the comment at 461 means to prevent it), runs beside
  the rebuild of the next initialisation, and clears its flag (`outlived` in
  `ClosedStaysEmpty` and `OneRebuild`).
- A rebuilt pool that fails its test stays open, and so does one that an initialisation
  overwrites (`dropped` in `NoStrayPool`).
- A hook registered while hooks run shifts the array under the loop: one hook is called twice
  and the new one never (`late` in `HooksCalledOnce`). A hook that outlives its timeout
  goes on beside the later ones and the close of the pools (`HookOver`). A signal is
  ignored once `close()` has begun, and then sets no deadline (`Shutdown`).
- A repeat of a keyed schedule whose enqueue failed answers success on the strength of the row's
  `scheduled`, and no job will ever look at it (`Stranded` in `ScheduledHasJob`); a
  keyed send that dies leaves the key stuck until an operator frees it (`FreeKey`).
- `compensate()` that succeeds while the update of its row fails leaves the row completed in a
  compensated execution. A retry of a resumable workflow keeps it, and the next rollback
  compensates it again (`workflow-engine.ts:404`): `NeverOverCompensated` is stated, run
  and proved without that case.
- A worker that dies between the provider's answer and the row's update makes the retry
  send again (`lost` in `DuplicatesOnlyLost`).
- An attempt that outlives pg-boss's expiry shares its claim token with the attempt that
  follows it, so that both may send (`Expire`; the properties of senders exclude it).
- A grant and a revoke of one permission from two pods may reach a third in the other order, and
  its streams keep the older decision (`PermissionInStep` is about pods that applied the
  decisions in order).
- A key close that Redis takes while another pod is not listening is lost there, though
  `close-by-key.ts:22` names only the publisher's outage, its end and the cap (`missed`
  in `CloseArrives`); a process that dies between the commit of the revocation and the
  hook that closes the streams leaves them open (`RevokeKey` without `CloseStreams`).
- The initial frames of a producer are written even when the permission was revoked during
  the pass; the client is then told so (`FramesInStep` allows them, before the revoke).

## What is not modelled

- *Workflow notifications and the workflow router*: errors of the first are only logged, the second is a
  one-shot initialiser; no other part reads what they keep.
- *`Transactional()`*: one `runInTransaction` call and a translation of errors.
- *Repositories, schema helpers, query helpers*: one statement per call.
- *Cache manager, storage, monitoring*: connections opened once, wrappers over clients
  of services, counters nobody reads back.
- *Routes, middleware, contracts, errors, ops, environment, logging, authorisation
  helpers, Next.js glue*: request-scoped, or read once at start.
- *Authentication*: 56 thousand lines of routes, providers and messages; its state
  changes are single conditional statements in a request's transaction. Left out for its size.
- *Jobs*: registration and scheduling on pg-boss, read once at start; what a queue does to a
  job that is under way is in `ScheduledSend`.
- *Data migrations*: a ledger of names; a transactional one is a `runInTransaction` call that
  ends with the row, so two processes that apply it race for the row's primary key. A candidate.
- *Signing key ring and rotation*: a plan of four steps over a ring in memory (`add`,
  `switch`, `wait`, `remove`), taken one at a time. A candidate.
- *Live state*: snapshots on top of the event transport; it would follow it.
- *WebSocket events*: the same router over sockets, without permissions that change or
  closes by key; *events without Redis*: one process and no transport.
- *Token minting*: a random string in a store; an expired or unknown token is `Refuse`.
- *Command line, code generation, content packages, site, examples*: tools that read and write files, and content.

## The plan

The most important behaviour came first: what a client is told about its work (the
workflow engine, the transaction frames, the binding), then what must survive a crash
or a restart (notifications, the database manager and the shutdown), then what several
processes must agree on (streams and transport). Left, in this order:

1. Modules: the state store on top of `EventTransport` (snapshots and subscriptions that race
   with a publish), the migration ledger (a failed migration between its statements and its
   row), the key rotation (a token signed just before a switch), job registration.
2. Larger instances: two retries in `workflow_patient`, three pods in `event_streams`.

No module needs a recursive operator, so each can be proved about.
