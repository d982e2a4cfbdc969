------------------------- MODULE TransactionFrames -------------------------
(***************************************************************************)
(* runInTransaction() and its nesting (packages/core/src/db/transaction:   *)
(* runner.ts, context.ts).  A FRAME is one call of runInTransaction: a     *)
(* root, which owns a connection, or a nested call, which takes a          *)
(* SAVEPOINT on the connection of the frame it was made in.  A callback    *)
(* may start several calls without awaiting them, so frames are scheduled  *)
(* by promises: every action below is what happens between two awaits.     *)
(*                                                                         *)
(* The connection is the log of what its open transaction has been sent    *)
(* and not undone: writes and SAVEPOINTs.  A SAVEPOINT is never released,  *)
(* ROLLBACK TO cuts the log back to it, COMMIT makes the log's writes      *)
(* durable.  The driver and PostgreSQL are external; transaction/README.md *)
(* ("Operational caveats of the driver's savepoints") says what they do.   *)
(*                                                                         *)
(* User code is any code that keeps the two rules the README gives: it     *)
(* does not touch the connection while a nested call it made is pending,   *)
(* and (unless FailFast) it waits for its nested calls before it settles.  *)
(***************************************************************************)
EXTENDS Integers, Sequences, FiniteSets

CONSTANTS
    Frames,     \* the runInTransaction() calls that may be made
    Top,        \* the one made outside any transaction
    NoFrame,
    MaxWrites,  \* bound: statements that write, per transaction context
    MaxHooks,   \* bound: hooks registered, per transaction context
    HookKinds,  \* bound: the kinds of hooks user code registers
    NewRoots,   \* bound: the calls that may pass requiresNew
    FailFast    \* a callback may reject while calls it made are pending,
                \* as one that awaits Promise.all over them does

ASSUME FramesAssumption ==
    /\ Top \in Frames
    /\ NoFrame \notin Frames
    /\ MaxWrites \in Nat
    /\ MaxHooks \in Nat
    /\ FailFast \in BOOLEAN

Kinds  == {"beforeCommit", "afterCommit", "afterRollback"}

ASSUME BoundsAssumption == HookKinds \subseteq Kinds /\ NewRoots \subseteq Frames

Phases == {"idle", "queued", "running", "finishing", "unwinding",
           "compensating", "resolved", "rejected"}

(* The contexts of AsyncLocalStorage, each with the gate that serialises the *)
(* frames opened off it: a frame's own, and the clone of its owner's that a  *)
(* savepoint's afterRollback pass runs in.                                   *)
Gates  == Frames \X {"own", "fresh"}
NoGate == <<NoFrame, "own">>
Hooks == Frames \X (1 .. MaxHooks)

SavepointOf(f) == [type |-> "savepoint", frame |-> f, n |-> 0]
WriteOf(c, n)  == [type |-> "write", frame |-> c, n |-> n]
Writes  == {WriteOf(c, n) : c \in Frames, n \in 1 .. MaxWrites}
Entries == Writes \cup {SavepointOf(f) : f \in Frames}

VARIABLES
    phase,     \* where a call of runInTransaction is
    caller,    \* the frame whose user code made the call, and awaits it
    site,      \* the context object it was made in, NoGate for none
    owner,     \* savepointOwner: the context it nests into, NoFrame for a root
    enclosing, \* the chain of contexts from the frame to its root
    gate,      \* the queue of each gate, the frame that holds it first
    hooks,     \* the three hook queues of each context
    snapshot,  \* the beforeCommit callbacks left to run before a root's COMMIT
    writes,    \* writes sent so far in a context (for their identity)
    hooked,    \* the kinds of the hooks registered so far in a context
    log,       \* the open transaction of each root's connection
    aborted,   \* the roots whose transaction PostgreSQL has aborted (25P02)
    durable,   \* the writes COMMIT made durable
    astray,    \* history: writes sent behind another frame's SAVEPOINT
    ran        \* how many times the callback of each hook has run

control == <<phase, caller, site, owner, enclosing, gate>>
queues  == <<hooks, snapshot, hooked, ran>>
data    == <<writes, log, aborted, durable, astray>>
vars    == <<control, queues, data>>

TypeOK ==
    /\ phase \in [Frames -> Phases]
    /\ caller \in [Frames -> Frames \cup {NoFrame}]
    /\ site \in [Frames -> Gates \cup {NoGate}]
    /\ owner \in [Frames -> Frames \cup {NoFrame}]
    /\ enclosing \in [Frames -> SUBSET Frames]
    /\ gate \in [Gates -> Seq(Frames)]
    /\ hooks \in [Frames -> [Kinds -> Seq(Hooks)]]
    /\ snapshot \in [Frames -> Seq(Hooks)]
    /\ writes \in [Frames -> 0 .. MaxWrites]
    /\ hooked \in [Frames -> Seq(Kinds)]
    /\ log \in [Frames -> Seq(Entries)]
    /\ aborted \subseteq Frames
    /\ durable \subseteq Writes
    /\ astray \subseteq Writes
    /\ ran \in [Hooks -> Nat]

Init ==
    /\ phase = [f \in Frames |-> "idle"]
    /\ caller = [f \in Frames |-> NoFrame]
    /\ site = [f \in Frames |-> NoGate]
    /\ owner = [f \in Frames |-> NoFrame]
    /\ enclosing = [f \in Frames |-> {f}]
    /\ gate = [q \in Gates |-> <<>>]
    /\ hooks = [f \in Frames |-> [k \in Kinds |-> <<>>]]
    /\ snapshot = [f \in Frames |-> <<>>]
    /\ writes = [f \in Frames |-> 0]
    /\ hooked = [f \in Frames |-> <<>>]
    /\ log = [f \in Frames |-> <<>>]
    /\ aborted = {}
    /\ durable = {}
    /\ astray = {}
    /\ ran = [h \in Hooks |-> 0]

-----------------------------------------------------------------------------

Settled(f) == phase[f] \in {"resolved", "rejected"}
IsRoot(f)  == owner[f] = NoFrame

(* The root whose connection a context runs on. *)
Conn(c) == CHOOSE r \in enclosing[c] : IsRoot(r)

(* The root's transaction is open on its connection. *)
InTransaction(r) == phase[r] \in {"running", "finishing", "unwinding"}

(* Statements sent on the connection of context c are accepted. *)
Healthy(c) == InTransaction(Conn(c)) /\ Conn(c) \notin aborted

(* A frame's SAVEPOINT (or BEGIN) has been sent and not been undone. *)
HasSavepoint(f) == phase[f] \in {"running", "finishing", "unwinding"}

(* User code runs in the callback of a running frame, and in the callbacks   *)
(* of a hook pass.                                                           *)
UserCodeIn(f) ==
    \/ phase[f] = "running"
    \/ phase[f] = "finishing" /\ snapshot[f] # <<>>
    \/ phase[f] = "compensating" /\ hooks[f]["afterRollback"] # <<>>

(* Mutant: a compensation queues at the gate of its context, which the frame *)
(* it compensates for still holds. *)
SiteOfShared(f) ==
    IF phase[f] # "compensating" THEN <<f, "own">>
    ELSE IF IsRoot(f) THEN site[f] ELSE <<owner[f], "own">>

(* The context object it runs in: the frame's own; for the afterRollback     *)
(* pass of a savepoint, the clone of its owner's; for that of a root, what   *)
(* the call was made in, for only the driver's part of a requiresNew call    *)
(* has left its caller's context.                                            *)
SiteOf(f) ==
    IF phase[f] # "compensating" THEN <<f, "own">>
    ELSE IF IsRoot(f) THEN site[f] ELSE <<f, "fresh">>

(* The frame whose transaction a context object stands for. *)
ContextAt(q) == IF q[2] = "own" THEN q[1] ELSE owner[q[1]]
ActsIn(f, c) == UserCodeIn(f) /\ c = ContextAt(SiteOf(f)) /\ c \in Frames

CallsSettled(f) ==
    \A g \in Frames : caller[g] = f /\ phase[g] # "idle" => Settled(g)
NoNestedPending(f) ==
    \A g \in Frames : caller[g] = f /\ ~ IsRoot(g) => Settled(g)

(* A frame that does not enclose c is open on its connection: what is sent   *)
(* in c now stands behind that frame's SAVEPOINT.                            *)
Covered(c) ==
    \E h \in Frames : HasSavepoint(h) /\ Conn(h) = Conn(c) /\ h \notin enclosing[c]

(* A nested call leaves the gate of its context when it settles. *)
LeaveGate(g) == gate' = [gate EXCEPT ![site[g]] = Tail(@)]

(* Mutant: a nested failure sends ROLLBACK. *)
CutToNothing(entries, g) == SubSeq(entries, 1, 0)

(* The log up to and including the SAVEPOINT of g, which is in it once. *)
CutTo(entries, g) ==
    SubSeq(entries, 1, CHOOSE i \in DOMAIN entries : entries[i] = SavepointOf(g))
Holds(entries, e) == \E i \in DOMAIN entries : entries[i] = e
WritesIn(entries) == {entries[i] : i \in DOMAIN entries} \cap Writes

-----------------------------------------------------------------------------
(* Calling, opening and settling a frame. *)

(* The call made with no transaction open: BEGIN. *)
Begin ==
    /\ phase[Top] = "idle"
    /\ phase' = [phase EXCEPT ![Top] = "running"]
    /\ UNCHANGED <<caller, site, owner, enclosing, gate, queues, data>>

(* A call inside a transaction queues a frame at the gate of its context.    *)
CallNested(f, g) ==
    /\ g # Top /\ phase[g] = "idle"
    /\ \E c \in Frames :
         /\ ActsIn(f, c)
         /\ owner' = [owner EXCEPT ![g] = c]
         /\ enclosing' = [enclosing EXCEPT ![g] = {g} \cup enclosing[c]]
    /\ site' = [site EXCEPT ![g] = SiteOf(f)]
    /\ gate' = [gate EXCEPT ![SiteOf(f)] = Append(@, g)]
    /\ caller' = [caller EXCEPT ![g] = f]
    /\ phase' = [phase EXCEPT ![g] = "queued"]
    /\ UNCHANGED <<queues, data>>

(* A call with requiresNew: BEGIN on a connection of its own, no gate. *)
CallRequiresNew(f, g) ==
    /\ g \in NewRoots \ {Top} /\ phase[g] = "idle"
    /\ UserCodeIn(f)
    /\ site' = [site EXCEPT ![g] = SiteOf(f)]
    /\ caller' = [caller EXCEPT ![g] = f]
    /\ phase' = [phase EXCEPT ![g] = "running"]
    /\ UNCHANGED <<owner, enclosing, gate, queues, data>>

(* Mutant: siblings do not wait for each other. *)
OpenUngated(g) ==
    /\ phase[g] = "queued"
    /\ Healthy(g)
    /\ log' = [log EXCEPT ![Conn(g)] = Append(@, SavepointOf(g))]
    /\ phase' = [phase EXCEPT ![g] = "running"]
    /\ UNCHANGED <<caller, site, owner, enclosing, gate, queues, writes, aborted, durable, astray>>

(* The frames queued before it have closed: SAVEPOINT, and the callback runs. *)
Open(g) ==
    /\ phase[g] = "queued"
    /\ g = Head(gate[site[g]])
    /\ Healthy(g)
    /\ log' = [log EXCEPT ![Conn(g)] = Append(@, SavepointOf(g))]
    /\ phase' = [phase EXCEPT ![g] = "running"]
    /\ UNCHANGED <<caller, site, owner, enclosing, gate, queues, writes, aborted, durable, astray>>

(* The SAVEPOINT is refused: the call rejects, with no hook to run. *)
OpenFails(g) ==
    /\ phase[g] = "queued"
    /\ g = Head(gate[site[g]])
    /\ ~ Healthy(g)
    /\ phase' = [phase EXCEPT ![g] = "rejected"]
    /\ LeaveGate(g)
    /\ UNCHANGED <<caller, site, owner, enclosing, queues, data>>

(* Mutant: a resolved frame's hooks go straight to the root. *)
PromotedToRoot(g) ==
    [hooks EXCEPT ![Conn(g)] = [k \in Kinds |-> @[k] \o hooks[g][k]],
                  ![g] = [k \in Kinds |-> <<>>]]

(* promoteFrameHooks: append the frame's queues to its parent's. *)
Promoted(g) ==
    [hooks EXCEPT ![owner[g]] = [k \in Kinds |-> @[k] \o hooks[g][k]],
                  ![g] = [k \in Kinds |-> <<>>]]

(* A savepoint frame's callback resolves: its hooks become the parent's and  *)
(* the next frame may open.  Nothing is sent to the database.                *)
Resolve(g) ==
    /\ phase[g] = "running" /\ ~ IsRoot(g)
    /\ CallsSettled(g)
    /\ Conn(g) \notin aborted
    /\ phase' = [phase EXCEPT ![g] = "resolved"]
    /\ hooks' = Promoted(g)
    /\ LeaveGate(g)
    /\ UNCHANGED <<caller, site, owner, enclosing, snapshot, hooked, ran, data>>

(* A callback throws, root or savepoint. *)
Reject(f) ==
    /\ phase[f] = "running"
    /\ FailFast \/ CallsSettled(f)
    /\ phase' = [phase EXCEPT ![f] = "unwinding"]
    /\ UNCHANGED <<caller, site, owner, enclosing, gate, queues, data>>

(* A frame that rolled back keeps its afterRollback queue, for the pass. *)
OnlyRollbackHooks(f) ==
    [hooks EXCEPT ![f]["beforeCommit"] = <<>>, ![f]["afterCommit"] = <<>>]

(* Mutant: ROLLBACK TO is sent only when a statement failed. *)
RollbackToIfAborted(g) ==
    /\ phase[g] = "unwinding" /\ ~ IsRoot(g)
    /\ LET r == Conn(g) IN
       IF r \in aborted
       THEN log' = [log EXCEPT ![r] = CutTo(@, g)] /\ aborted' = aborted \ {r}
       ELSE UNCHANGED <<log, aborted>>
    /\ phase' = [phase EXCEPT ![g] = "compensating"]
    /\ hooks' = OnlyRollbackHooks(g)
    /\ UNCHANGED <<caller, site, owner, enclosing, gate, snapshot, hooked, ran, writes, durable, astray>>

(* ROLLBACK TO, then the frame's afterRollback pass; the other two queues    *)
(* are dropped.  The SAVEPOINT may be gone with one that enclosed it: then   *)
(* the statement fails and aborts the transaction.                           *)
RollbackTo(g) ==
    /\ phase[g] = "unwinding" /\ ~ IsRoot(g)
    /\ LET r == Conn(g) IN
       IF InTransaction(r) /\ Holds(log[r], SavepointOf(g))
       THEN /\ log' = [log EXCEPT ![r] = CutTo(@, g)]
            /\ aborted' = aborted \ {r}
       ELSE /\ aborted' = IF InTransaction(r) THEN aborted \cup {r} ELSE aborted
            /\ UNCHANGED log
    /\ phase' = [phase EXCEPT ![g] = "compensating"]
    /\ hooks' = OnlyRollbackHooks(g)
    /\ UNCHANGED <<caller, site, owner, enclosing, gate, snapshot, hooked, ran, writes, durable, astray>>

(* The pass is over: the original error leaves the call, the gate opens. *)
SettleRejected(f) ==
    /\ phase[f] = "compensating"
    /\ hooks[f]["afterRollback"] = <<>>
    /\ phase' = [phase EXCEPT ![f] = "rejected"]
    /\ IF IsRoot(f) THEN UNCHANGED gate ELSE LeaveGate(f)
    /\ UNCHANGED <<caller, site, owner, enclosing, queues, data>>

-----------------------------------------------------------------------------
(* The end of a root. *)

(* The root's callback resolves: a snapshot of the beforeCommit queue runs. *)
Finish(r) ==
    /\ phase[r] = "running" /\ IsRoot(r)
    /\ CallsSettled(r)
    /\ phase' = [phase EXCEPT ![r] = "finishing"]
    /\ snapshot' = [snapshot EXCEPT ![r] = hooks[r]["beforeCommit"]]
    /\ UNCHANGED <<caller, site, owner, enclosing, gate, hooks, hooked, ran, data>>

Occurrences(queue, h) == Cardinality({i \in DOMAIN queue : queue[i] = h})

(* COMMIT, then the afterCommit callbacks, which nobody awaits. *)
Commit(r) ==
    /\ phase[r] = "finishing"
    /\ snapshot[r] = <<>>
    /\ CallsSettled(r)
    /\ r \notin aborted
    /\ durable' = durable \cup WritesIn(log[r])
    /\ log' = [log EXCEPT ![r] = <<>>]
    /\ ran' = [h \in Hooks |-> ran[h] + Occurrences(hooks[r]["afterCommit"], h)]
    /\ hooks' = [hooks EXCEPT ![r] = [k \in Kinds |-> <<>>]]
    /\ phase' = [phase EXCEPT ![r] = "resolved"]
    /\ UNCHANGED <<caller, site, owner, enclosing, gate, snapshot, hooked, writes, aborted, astray>>

(* A beforeCommit callback throws, or the COMMIT fails (a deferred           *)
(* constraint, an aborted transaction). *)
FinishFails(r) ==
    /\ phase[r] = "finishing"
    /\ FailFast \/ CallsSettled(r)
    /\ phase' = [phase EXCEPT ![r] = "unwinding"]
    /\ snapshot' = [snapshot EXCEPT ![r] = <<>>]
    /\ UNCHANGED <<caller, site, owner, enclosing, gate, hooks, hooked, ran, data>>

(* ROLLBACK, then the afterRollback pass: outside any transaction for Top,   *)
(* in the caller's for a call with requiresNew (see SiteOf).                 *)
Rollback(r) ==
    /\ phase[r] = "unwinding" /\ IsRoot(r)
    /\ log' = [log EXCEPT ![r] = <<>>]
    /\ aborted' = aborted \ {r}
    /\ phase' = [phase EXCEPT ![r] = "compensating"]
    /\ hooks' = OnlyRollbackHooks(r)
    /\ UNCHANGED <<caller, site, owner, enclosing, gate, snapshot, hooked, ran, writes, durable, astray>>

-----------------------------------------------------------------------------
(* User code: the callbacks of frames and of hooks. *)

(* A statement that writes succeeds.  User code keeps the rule, but a pass   *)
(* that runs in the context of the caller does not know whose it is in.      *)
Write(f) ==
    \E c \in Frames :
        /\ ActsIn(f, c)
        /\ NoNestedPending(f)
        /\ Healthy(c)
        /\ writes[c] < MaxWrites
        /\ writes' = [writes EXCEPT ![c] = @ + 1]
        /\ log' = [log EXCEPT ![Conn(c)] = Append(@, WriteOf(c, writes[c] + 1))]
        /\ astray' = IF Covered(c) THEN astray \cup {WriteOf(c, writes[c] + 1)} ELSE astray
        /\ UNCHANGED <<control, queues, aborted, durable>>

(* Mutant: the failure is charged to the context's owner. *)
StatementFailsOwner(f) ==
    \E c \in Frames :
        /\ ActsIn(f, c)
        /\ NoNestedPending(f)
        /\ Healthy(c)
        /\ ~ Covered(c)
        /\ aborted' = aborted \cup {owner[c]}
        /\ UNCHANGED <<control, queues, writes, log, durable, astray>>

(* A statement fails: PostgreSQL refuses the rest until a ROLLBACK (TO).     *)
(* Bound: not behind another frame's SAVEPOINT, for the driver would charge  *)
(* the error to c and have the other frame find the transaction aborted.     *)
StatementFails(f) ==
    \E c \in Frames :
        /\ ActsIn(f, c)
        /\ NoNestedPending(f)
        /\ Healthy(c)
        /\ ~ Covered(c)
        /\ aborted' = aborted \cup {Conn(c)}
        /\ UNCHANGED <<control, queues, writes, log, durable, astray>>

(* onBeforeCommit, onAfterCommit, onAfterRollback. *)
Register(f, k) ==
    \E c \in Frames :
        /\ ActsIn(f, c)
        /\ Len(hooked[c]) < MaxHooks
        /\ hooked' = [hooked EXCEPT ![c] = Append(@, k)]
        /\ hooks' = [hooks EXCEPT ![c][k] = Append(@, <<c, Len(hooked[c]) + 1>>)]
        /\ UNCHANGED <<control, snapshot, ran, data>>

(* A beforeCommit callback returns. *)
BeforeCommitEnds(r) ==
    /\ phase[r] = "finishing"
    /\ snapshot[r] # <<>>
    /\ CallsSettled(r)
    /\ snapshot' = [snapshot EXCEPT ![r] = Tail(@)]
    /\ ran' = [ran EXCEPT ![Head(snapshot[r])] = @ + 1]
    /\ UNCHANGED <<control, hooks, hooked, data>>

(* An afterRollback callback returns, or throws and is logged.  The pass     *)
(* walks the queue itself, so what is appended to it meanwhile runs too.     *)
AfterRollbackEnds(f) ==
    /\ phase[f] = "compensating"
    /\ hooks[f]["afterRollback"] # <<>>
    /\ CallsSettled(f)
    /\ hooks' = [hooks EXCEPT ![f]["afterRollback"] = Tail(@)]
    /\ ran' = [ran EXCEPT ![Head(hooks[f]["afterRollback"])] = @ + 1]
    /\ UNCHANGED <<control, snapshot, hooked, data>>

-----------------------------------------------------------------------------

Step ==
    \/ Begin
    \/ \E f \in Frames :
         \/ \E g \in Frames : CallNested(f, g) \/ CallRequiresNew(f, g)
         \/ Open(f) \/ OpenFails(f) \/ Resolve(f) \/ Reject(f)
         \/ RollbackTo(f) \/ SettleRejected(f)
         \/ Finish(f) \/ Commit(f) \/ FinishFails(f) \/ Rollback(f)
         \/ Write(f) \/ StatementFails(f)
         \/ BeforeCommitEnds(f) \/ AfterRollbackEnds(f)
         \/ \E k \in HookKinds : Register(f, k)

Terminated ==
    /\ \A f \in Frames : phase[f] # "idle" => Settled(f)
    /\ Settled(Top)
    /\ UNCHANGED vars

Next == Step \/ Terminated

Spec == Init /\ [][Next]_vars

(* Node.js runs every callback whose promise has settled, PostgreSQL answers *)
(* every statement, and user code returns: some step is always taken.        *)
FairSpec == Spec /\ WF_vars(Step)

-----------------------------------------------------------------------------
(* Properties *)

Kept(c)   == \A e \in enclosing[c] : phase[e] = "resolved"
Undone(c) == \E e \in enclosing[c] : phase[e] \in {"compensating", "rejected"}

(* A write is durable only if the frame it was made in and every frame       *)
(* around it resolved (runner.ts, promoteFrameHooks: "a savepoint that       *)
(* resolved is only as durable as its parent").                              *)
DurableMeansKept == \A w \in durable : Kept(w.frame)

(* The same of a savepoint that reported success to its caller. *)
ResolvedAsDurableAsParent ==
    \A w \in durable : phase[w.frame] = "resolved" => Kept(w.frame)

(* Only where a call with requiresNew failed, and its afterRollback pass ran *)
(* in the context of its caller, does a write stand behind the SAVEPOINT of  *)
(* a frame it was not made in.                                               *)
AstrayOnlyByNewRoot ==
    \A w \in astray : \E r \in NewRoots \ {Top} :
        /\ IsRoot(r) /\ ContextAt(site[r]) = w.frame
        /\ phase[r] \in {"compensating", "rejected"}

(* The other way: once a root has committed, what the frames that resolved   *)
(* wrote is durable, so a sibling's ROLLBACK TO took nothing else...         *)
KeptMeansDurable ==
    \A c \in Frames : Kept(c) =>
        \A n \in 1 .. writes[c] : WriteOf(c, n) \in durable \cup astray

(* ... and the exception is exact: the writes such a pass sent, or let       *)
(* others send, behind a frame's SAVEPOINT.                                  *)
WorkFollowsFrames == DurableMeansKept /\ KeptMeansDurable /\ AstrayOnlyByNewRoot

(* The frames open on one connection form a chain: the gates never let two   *)
(* frames that do not enclose each other hold SAVEPOINTs at the same time,   *)
(* whether siblings or a compensation's own calls.                           *)
SavepointsNest ==
    \A f, g \in Frames :
        HasSavepoint(f) /\ HasSavepoint(g) /\ Conn(f) = Conn(g) =>
            f \in enclosing[g] \/ g \in enclosing[f]

(* A hook has the fate of the frame it was registered in: by the time its    *)
(* root has settled, an afterCommit hook has run once if the work of its     *)
(* frame is durable and never otherwise, an afterRollback hook the other way *)
(* round, and a beforeCommit hook of an undone savepoint has not run.        *)
HooksFollowWork ==
    \A c \in Frames : \A n \in DOMAIN hooked[c] :
        LET k == hooked[c][n]
            t == ran[<<c, n>>]
        IN CASE k = "afterCommit" ->
                  /\ t <= (IF Kept(c) THEN 1 ELSE 0)
                  /\ Settled(Conn(c)) => t = (IF Kept(c) THEN 1 ELSE 0)
             [] k = "afterRollback" ->
                  /\ t <= (IF Undone(c) THEN 1 ELSE 0)
                  /\ Settled(Conn(c)) => t = (IF Kept(c) THEN 0 ELSE 1)
             [] k = "beforeCommit" ->
                  /\ t <= 1
                  /\ t = 1 => \A e \in enclosing[c] : IsRoot(e) \/ phase[e] = "resolved"

(* Every call settles: no frame, and no compensation, waits for a gate that  *)
(* is held by the call it is part of, or by one that waits for it.           *)
EveryCallSettles ==
    <>(Settled(Top) /\ \A f \in Frames : phase[f] # "idle" => Settled(f))

-----------------------------------------------------------------------------
(* The log of one connection implements a set of writes per frame: a frame's *)
(* work is what follows its SAVEPOINT up to that of the next open frame.     *)

StartOf(f) ==
    IF IsRoot(f) THEN 0
    ELSE CHOOSE i \in DOMAIN log[Conn(f)] : log[Conn(f)][i] = SavepointOf(f)
WorkOf(f) ==
    LET entries == log[Conn(f)] IN
    {entries[i] : i \in {j \in DOMAIN entries :
        /\ entries[j] \in Writes
        /\ StartOf(f) < j
        /\ \A g \in Frames \ {f} :
             HasSavepoint(g) /\ Conn(g) = Conn(f) /\ StartOf(f) < StartOf(g)
                 => j < StartOf(g)}}

Nested == INSTANCE NestedTransactions WITH
    parent  <- [f \in Frames |-> IF phase[f] \in {"idle", "queued"} THEN NoFrame ELSE owner[f]],
    outcome <- [f \in Frames |-> CASE phase[f] \in {"idle", "queued"} -> "unopened"
                                   [] HasSavepoint(f) -> "open"
                                   [] phase[f] = "resolved" -> "resolved"
                                   [] OTHER -> "rejected"],
    work    <- [f \in Frames |-> IF HasSavepoint(f) THEN WorkOf(f) ELSE {}]

(* Frames on one connection, with SAVEPOINTs nobody releases, behave as      *)
(* transactions that each own their writes.                                  *)
ImplementsNesting == Nested!Spec
=============================================================================
