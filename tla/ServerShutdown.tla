--------------------------- MODULE ServerShutdown ---------------------------
(***************************************************************************)
(* A server that starts, serves and shuts down (packages/core/src/server:  *)
(* start-server.ts, shutdown-manager.ts) on top of the process's database: *)
(* the phases of the shutdown handler, the operations and hooks of the     *)
(* ShutdownManager, the timeouts, and the deadline a signal sets.          *)
(* Left out: listeners, WebSockets, pg-boss and Redis beyond the wait for  *)
(* their close, which is cut off or caught; signals before the server is   *)
(* up, which end the process; several servers in one process.              *)
(***************************************************************************)
EXTENDS DatabaseManager, SequencesExt

CONSTANTS
    StartInit,      \* the initDatabase() call of startServer
    ShutdownClose,  \* the closeDatabase() call of the shutdown, or of a failed start
    ServerCalls,    \* bound: database calls and loops in a process with a server
    Ops,            \* calls of trackOperation()
    Hooks,          \* shutdown hooks
    Order           \* the order each is registered with

ASSUME ShutdownAssumption ==
    /\ StartInit \in Inits /\ ShutdownClose \in Closes
    /\ None \notin Hooks
    /\ {StartInit, ShutdownClose} \subseteq ServerCalls
    /\ ServerCalls \subseteq Calls
    /\ Order \in [Hooks -> Nat]

VARIABLES
    phase,     \* where startServer, then the shutdown handler, is
    armed,     \* a signal's deadline runs
    state,     \* of the ShutdownManager
    op,        \* what became of each operation
    hooks,     \* the registered hooks, sorted
    next,      \* the position of executeHooks in them
    hook,      \* the hook it waits for
    runs,      \* how often each hook was called
    late,      \* hooks registered when hooks had begun to run
    abandoned  \* operations the drain gave up on

manager == <<state, op, abandoned>>
hooking == <<hooks, next, hook, runs, late>>
vars    == <<dbVars, phase, armed, manager, hooking>>

Phases == {"script", "starting", "up", "listeners", "drain", "hooks", "before", "database",
           "stopped", "failed", "exited"}

Ending == {"hooks", "before", "database", "stopped"}

TypeOK ==
    /\ DbTypeOK
    /\ phase \in Phases /\ armed \in BOOLEAN
    /\ state \in {"running", "draining", "closed"}
    /\ op \in [Ops -> {"idle", "running", "ended", "rejected"}]
    /\ hooks \in Seq(Hooks) /\ next \in 1 .. Len(hooks) + 1
    /\ hook \in Hooks \cup {None}
    /\ late \subseteq Hooks /\ abandoned \subseteq Ops
    /\ runs \in [Hooks -> Nat]

(* A process without a server may use the database as well. *)
Init ==
    /\ \/ phase = "starting" /\ DbInit(ServerCalls)
       \/ phase = "script" /\ DbInit(Calls)
    /\ armed = FALSE
    /\ state = "running"
    /\ op = [o \in Ops |-> "idle"] /\ abandoned = {}
    /\ hooks = <<>> /\ next = 1 /\ hook = None
    /\ late = {} /\ runs = [h \in Hooks |-> 0]

-----------------------------------------------------------------------------
(* Starting *)

Start ==
    /\ phase = "starting" /\ InitCall(StartInit)
    /\ UNCHANGED <<phase, armed, manager, hooking>>

Started ==
    /\ phase = "starting" /\ pc[StartInit] = "done"
    /\ phase' = "up"
    /\ UNCHANGED <<dbVars, armed, manager, hooking>>

(* The database, or a later part of the start, fails: what is there closes.  *)
StartFails ==
    /\ phase = "starting" /\ pc[StartInit] \in {"done", "failed"}
    /\ CloseCall(ShutdownClose)
    /\ phase' = "failed"
    /\ UNCHANGED <<armed, manager, hooking>>

-----------------------------------------------------------------------------
(* Operations and hooks of user code *)

(* Mutant: refused only once the shutdown is over. *)
TrackUntilClosed(o) ==
    /\ op[o] = "idle"
    /\ op' = [op EXCEPT ![o] = IF state = "closed" THEN "rejected" ELSE "running"]
    /\ UNCHANGED <<dbVars, phase, armed, state, abandoned, hooking>>

TrackOperation(o) ==
    /\ phase # "script" /\ op[o] = "idle"
    /\ op' = [op EXCEPT ![o] = IF state = "running" THEN "running" ELSE "rejected"]
    /\ UNCHANGED <<dbVars, phase, armed, state, abandoned, hooking>>

OperationEnds(o) ==
    /\ op[o] = "running"
    /\ op' = [op EXCEPT ![o] = "ended"]
    /\ UNCHANGED <<dbVars, phase, armed, state, abandoned, hooking>>

(* onShutdown puts the hook behind those of the same order, also while       *)
(* executeHooks walks the array.                                             *)
OnShutdown(h) ==
    /\ phase # "script" /\ h \notin ToSet(hooks)
    /\ LET before == Cardinality({i \in DOMAIN hooks : Order[hooks[i]] <= Order[h]})
       IN hooks' = InsertAt(hooks, before + 1, h)
    /\ late' = IF phase \in Ending THEN late \cup {h} ELSE late
    /\ UNCHANGED <<dbVars, phase, armed, manager, next, hook, runs>>

-----------------------------------------------------------------------------
(* Shutting down *)

(* A signal, or ServerInstance.close(), of a server that is up; any other is *)
(* ignored.  Only the signal sets a deadline.                                *)
Shutdown ==
    /\ phase = "up"
    /\ phase' = "listeners"
    /\ armed' \in BOOLEAN
    /\ state' = "draining"
    /\ UNCHANGED <<dbVars, op, abandoned, hooking>>

ListenersClosed ==
    /\ phase = "listeners"
    /\ phase' = "drain"
    /\ UNCHANGED <<dbVars, armed, manager, hooking>>

(* Mutant: the drain waits for the operations, however long they take. *)
DrainForever ==
    /\ phase = "drain"
    /\ \A o \in Ops : op[o] # "running"
    /\ phase' = "hooks"
    /\ UNCHANGED <<dbVars, armed, manager, hooking>>

(* No operation is left, or the time is up. *)
Drain ==
    /\ phase = "drain"
    /\ abandoned' = {o \in Ops : op[o] = "running"}
    /\ phase' = "hooks"
    /\ UNCHANGED <<dbVars, armed, state, op, hooking>>

CallHook ==
    /\ phase = "hooks" /\ hook = None
    /\ next <= Len(hooks)
    /\ hook' = hooks[next]
    /\ runs' = [runs EXCEPT ![hooks[next]] = @ + 1]
    /\ UNCHANGED <<dbVars, phase, armed, manager, hooks, next, late>>

(* The hook resolves, rejects, or has had its time and goes on unobserved.   *)
HookOver ==
    /\ hook # None
    /\ hook' = None /\ next' = next + 1
    /\ UNCHANGED <<dbVars, phase, armed, manager, hooks, runs, late>>

(* Mutant: a hook that fails ends the loop. *)
HooksCutShort ==
    /\ phase = "hooks" /\ hook = None
    /\ next > 1 \/ hooks = <<>>
    /\ phase' = "before"
    /\ state' = "closed"
    /\ UNCHANGED <<dbVars, armed, op, abandoned, hooking>>

HooksExecuted ==
    /\ phase = "hooks" /\ hook = None
    /\ next > Len(hooks)
    /\ phase' = "before"
    /\ state' = "closed"
    /\ UNCHANGED <<dbVars, armed, op, abandoned, hooking>>

(* beforeShutdown has returned. *)
CloseInfrastructure ==
    /\ phase = "before"
    /\ CloseCall(ShutdownClose)
    /\ phase' = "database"
    /\ UNCHANGED <<armed, manager, hooking>>

(* The database is closed, or has had its time and goes on closing. *)
InfrastructureClosed ==
    /\ phase = "database"
    /\ phase' = "stopped"
    /\ UNCHANGED <<dbVars, armed, manager, hooking>>

(* The handler of the signal ends the process, or its deadline does.         *)
Exit ==
    /\ phase = "stopped" /\ armed
    /\ phase' = "exited"
    /\ UNCHANGED <<dbVars, armed, manager, hooking>>

Deadline ==
    /\ armed /\ phase # "exited"
    /\ phase' = "exited"
    /\ UNCHANGED <<dbVars, armed, manager, hooking>>

-----------------------------------------------------------------------------

ShutdownStep ==
    \/ ListenersClosed \/ Drain \/ CallHook \/ HookOver \/ HooksExecuted
    \/ CloseInfrastructure \/ InfrastructureClosed \/ Exit

UserStep ==
    \/ \E o \in Ops : TrackOperation(o) \/ OperationEnds(o)
    \/ \E h \in Hooks : OnShutdown(h)

Next ==
    /\ phase # "exited"
    /\ \/ Start \/ Started \/ StartFails \/ Shutdown \/ Deadline
       \/ ShutdownStep \/ UserStep
       \/ /\ \/ DbStep
             \/ \E i \in Inits : (phase = "script" \/ i # StartInit) /\ InitCall(i)
             \/ \E c \in Closes : (phase = "script" \/ c # ShutdownClose) /\ CloseCall(c)
          /\ UNCHANGED <<phase, armed, manager, hooking>>

Spec == Init /\ [][Next]_vars

(* The handler's own continuations and its timers run, and beforeShutdown,   *)
(* the WebSocket cleanup and pg-boss, which no timer cuts off, return;       *)
(* operations, hooks and the database owe nothing.                           *)
FairSpec == Spec /\ WF_vars(ShutdownStep) /\ WF_vars(Deadline)

-----------------------------------------------------------------------------
(* Properties *)

(* An operation that was accepted is over before hooks run and the database  *)
(* closes, unless the drain ran out of time and gave it up by name.          *)
DrainedOrAbandoned ==
    phase \in Ending => \A o \in Ops : op[o] = "running" => o \in abandoned

(* By the time the infrastructure closes, every hook registered in time has  *)
(* been called, and once: a second call takes a hook registered while hooks  *)
(* ran, which shifts the array under the loop.                               *)
HooksCalledOnce ==
    /\ phase \in {"before", "database", "stopped"} =>
         \A h \in ToSet(hooks) \ late : runs[h] >= 1
    /\ \A h \in Hooks : runs[h] <= 1 + Cardinality(late)

(* A shutdown that began ends, whatever operations and hooks do, and one     *)
(* that a signal began ends the process.                                     *)
ShutdownEnds ==
    /\ phase = "listeners" ~> phase \in {"stopped", "exited"}
    /\ armed ~> phase = "exited"
=============================================================================
