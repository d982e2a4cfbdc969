------------------------- MODULE TransactionBinding -------------------------
(***************************************************************************)
(* The tenant (or user) a transaction is bound to                          *)
(* (packages/core/src/db/transaction/tenant.ts, tenant/session.ts), for    *)
(* one root transaction and one of its two bindings.                       *)
(*                                                                         *)
(* The setting lives in the database, local to the innermost SAVEPOINT     *)
(* open when set_config runs; the record of it lives in memory, shared by  *)
(* every frame on the connection.  Statements travel: they are sent on a   *)
(* pipelined connection (wire), run in order, and their answers are        *)
(* handled in order (answers), with whatever else Node.js runs in between. *)
(*                                                                         *)
(* A TASK is one TenantRepository call: it claims the binding for its id   *)
(* and then sends its query, in the root's context or a savepoint frame's. *)
(* A FRAME is one nested runInTransaction(), with { tenant } or without.   *)
(***************************************************************************)
EXTENDS Integers, Sequences, FiniteSets

CONSTANTS
    Tasks,   \* the TenantRepository calls that may be made
    Frames,  \* the nested runInTransaction calls that may be made
    Root,    \* the root transaction's context
    Ids,     \* tenant ids
    NoId,    \* no tenant: null, or '' as PostgreSQL reads an unset one
    Nobody,  \* no actor: Promise.resolve()
    Calm     \* no frame can be rolled back while a TenantRepository call
             \* of the transaction is on its way

(* Finite, since a transaction makes finitely many calls before it ends.     *)
ASSUME BindingAssumption ==
    /\ Tasks \cap Frames = {}
    /\ Root \notin Tasks \cup Frames
    /\ Nobody \notin Tasks \cup Frames \cup {Root}
    /\ NoId \notin Ids
    /\ IsFiniteSet(Tasks) /\ IsFiniteSet(Frames)
    /\ Calm \in BOOLEAN

Actors   == Tasks \cup Frames
Contexts == Frames \cup {Root}
Tenants  == Ids \cup {NoId}

Stages == {"idle", "queued", "opening", "binding", "running", "undoing", "closed"}
Places == {"idle", "claiming", "querying", "done", "refused"}
Ops    == {"set", "savepoint", "rollback", "query"}

VARIABLES
    stage,     \* where a nested call is
    parent,    \* the context it was made in
    lvl,       \* its level: the root's is 1
    place,     \* where a TenantRepository call is
    context,   \* the context it was made in
    wants,     \* the id an actor claims the binding for
    waits,     \* the actor whose set_config an actor waits for
    bound,     \* TransactionBinding.id
    level,     \* TransactionBinding.level
    openLevel, \* TransactionBinding.openLevel
    ready,     \* TransactionBinding.ready: whose set_config it is, or Nobody
    settled,   \* the actors whose set_config has been answered
    wire,      \* statements sent and not run
    answers,   \* statements run whose answer has not been handled
    log,       \* the SAVEPOINTs and settings of the open transaction
    ranUnder   \* the setting each query ran under

calls  == <<stage, parent, lvl, place, context, wants, waits>>
record == <<bound, level, openLevel, ready, settled>>
db     == <<log, ranUnder>>
vars   == <<calls, record, wire, answers, db>>

Statement  == [op : Ops, by : Actors]
Send(o, a) == wire' = Append(wire, [op |-> o, by |-> a])

(* BEGIN, with the set_config of { tenant } or of the guard's tenant, or not. *)
Init ==
    /\ stage = [f \in Frames |-> "idle"]
    /\ parent = [f \in Frames |-> Root]
    /\ lvl = [c \in Contexts |-> 1]
    /\ place = [t \in Tasks |-> "idle"]
    /\ context = [t \in Tasks |-> Root]
    /\ wants = [a \in Actors |-> NoId]
    /\ waits = [a \in Actors |-> Nobody]
    /\ bound \in Tenants
    /\ level = IF bound = NoId THEN 0 ELSE 1
    /\ openLevel = 1
    /\ ready = Nobody
    /\ settled = {}
    /\ wire = <<>>
    /\ answers = <<>>
    /\ log = IF bound = NoId THEN <<>> ELSE <<[set |-> bound, by |-> Root]>>
    /\ ranUnder = [t \in Tasks |-> NoId]

TypeOK ==
    /\ stage \in [Frames -> Stages]
    /\ parent \in [Frames -> Contexts]
    /\ lvl \in [Contexts -> 1 .. Cardinality(Frames) + 1]
    /\ place \in [Tasks -> Places]
    /\ context \in [Tasks -> Contexts]
    /\ wants \in [Actors -> Tenants]
    /\ waits \in [Actors -> Actors \cup {Nobody}]
    /\ bound \in Tenants
    /\ level \in 0 .. Cardinality(Frames) + 1
    /\ openLevel \in 1 .. Cardinality(Frames) + 1
    /\ ready \in Actors \cup {Nobody}
    /\ settled \subseteq Actors
    /\ wire \in Seq(Statement)
    /\ answers \in Seq(Statement)
    /\ log \in Seq([set : Tenants, by : Contexts \cup Tasks])
    /\ ranUnder \in [Tasks -> Tenants]

-----------------------------------------------------------------------------

HasSavepoint(f) == stage[f] \in {"binding", "running", "undoing"}
Runs(c)         == c = Root \/ (c \in Frames /\ stage[c] = "running")
InFlight(t)     == place[t] \in {"claiming", "querying"}
TasksDone(c)    == \A t \in Tasks : InFlight(t) => context[t] # c
FramesClosed(c) == \A f \in Frames : parent[f] = c => stage[f] \in {"idle", "closed"}

(* A frame that is being rolled back, or that its own { tenant } may fail.   *)
MayRollBack(f) ==
    \/ stage[f] = "undoing"
    \/ stage[f] \in {"queued", "opening", "binding"} /\ wants[f] # NoId

(* The setting a statement sees: the last one that was not rolled back. *)
SettingIn(entries) ==
    LET sets == {i \in DOMAIN entries : entries[i].set # NoId} IN
    IF sets = {} THEN NoId
    ELSE entries[CHOOSE i \in sets : \A j \in sets : j <= i].set

-----------------------------------------------------------------------------
(* Claims: TenantRepository calls, and nested calls with { tenant }. *)

(* Mutant: a claim is recorded at the root's level. *)
ClaimFirstAtRoot(a, id) ==
    /\ bound = NoId
    /\ bound' = id
    /\ level' = 1
    /\ ready' = a
    /\ waits' = [waits EXCEPT ![a] = a]
    /\ Send("set", a)
    /\ UNCHANGED <<openLevel, settled>>

(* claimTransactionBinding, unbound: record the claim, send the set_config.  *)
ClaimFirst(a, id) ==
    /\ bound = NoId
    /\ bound' = id
    /\ level' = openLevel
    /\ ready' = a
    /\ waits' = [waits EXCEPT ![a] = a]
    /\ Send("set", a)
    /\ UNCHANGED <<openLevel, settled>>

(* Bound to the id, whose set_config is on its way: wait for it. *)
ClaimShared(a, id) ==
    /\ bound = id
    /\ ready \notin settled \cup {Nobody}
    /\ waits' = [waits EXCEPT ![a] = ready]
    /\ UNCHANGED <<record, wire>>

(* Bound to the id, and the setting is in place. *)
ClaimReady(id) ==
    /\ bound = id
    /\ ready \in settled \cup {Nobody}
    /\ UNCHANGED <<waits, record>>

(* assertTransactionBinding: bound to another id, TenantMismatchError. *)
Refuses(id) == bound \notin {NoId, id}

(* A TenantRepository call in context c. *)
Start(t, c, id) ==
    /\ place[t] = "idle" /\ Runs(c)
    /\ Calm => \A f \in Frames : ~ MayRollBack(f)
    /\ context' = [context EXCEPT ![t] = c]
    /\ wants' = [wants EXCEPT ![t] = id]
    /\ \/ /\ ClaimFirst(t, id) \/ ClaimShared(t, id)
          /\ place' = [place EXCEPT ![t] = "claiming"]
       \/ /\ ClaimReady(id)
          /\ place' = [place EXCEPT ![t] = "querying"]
          /\ Send("query", t)
       \/ /\ Refuses(id)
          /\ place' = [place EXCEPT ![t] = "refused"]
          /\ UNCHANGED <<waits, record, wire>>
    /\ UNCHANGED <<stage, parent, lvl, answers, db>>

-----------------------------------------------------------------------------
(* Nested calls. *)

(* runInTransaction in context c; with { tenant: id } another binding is     *)
(* refused at once, and otherwise the frame waits at the gate.               *)
CallFrame(f, c, id) ==
    /\ stage[f] = "idle" /\ Runs(c)
    /\ Calm /\ id # NoId => \A t \in Tasks : ~ InFlight(t)
    /\ parent' = [parent EXCEPT ![f] = c]
    /\ lvl' = [lvl EXCEPT ![f] = lvl[c] + 1]
    /\ wants' = [wants EXCEPT ![f] = id]
    /\ stage' = [stage EXCEPT ![f] =
                   IF id # NoId /\ Refuses(id) THEN "closed" ELSE "queued"]
    /\ UNCHANGED <<place, context, waits, record, wire, answers, db>>

(* Its turn: openBindingFrame, then the SAVEPOINT is sent. *)
OpenFrame(f) ==
    /\ stage[f] = "queued"
    /\ \A g \in Frames : parent[g] = parent[f] => stage[g] \in {"idle", "queued", "closed"}
    /\ openLevel' = lvl[f]
    /\ Send("savepoint", f)
    /\ stage' = [stage EXCEPT ![f] = "opening"]
    /\ UNCHANGED <<parent, lvl, place, context, wants, waits, bound, level, ready,
                   settled, answers, db>>

(* Mutant: the levels are swapped. *)
ReleaseFrameSwapped(f) ==
    /\ stage[f] = "running" /\ TasksDone(f) /\ FramesClosed(f)
    /\ openLevel' = IF level > lvl[parent[f]] THEN lvl[parent[f]] ELSE level
    /\ level' = lvl[parent[f]]
    /\ stage' = [stage EXCEPT ![f] = "closed"]
    /\ UNCHANGED <<parent, lvl, place, context, wants, waits, bound, ready, settled,
                   wire, answers, db>>

(* Mutant: a claim made inside the frame keeps the frame's level. *)
ReleaseFrameUnpromoted(f) ==
    /\ stage[f] = "running" /\ TasksDone(f) /\ FramesClosed(f)
    /\ openLevel' = lvl[parent[f]]
    /\ stage' = [stage EXCEPT ![f] = "closed"]
    /\ UNCHANGED <<parent, lvl, place, context, wants, waits, bound, level, ready, settled,
                   wire, answers, db>>

(* The callback resolves: promoteBindingClaims. *)
ReleaseFrame(f) ==
    /\ stage[f] = "running" /\ TasksDone(f) /\ FramesClosed(f)
    /\ openLevel' = lvl[parent[f]]
    /\ level' = IF level > lvl[parent[f]] THEN lvl[parent[f]] ELSE level
    /\ stage' = [stage EXCEPT ![f] = "closed"]
    /\ UNCHANGED <<parent, lvl, place, context, wants, waits, bound, ready, settled,
                   wire, answers, db>>

(* The callback throws: ROLLBACK TO is sent. *)
FailFrame(f) ==
    /\ stage[f] = "running" /\ TasksDone(f) /\ FramesClosed(f)
    /\ Calm => \A t \in Tasks : ~ InFlight(t)
    /\ Send("rollback", f)
    /\ stage' = [stage EXCEPT ![f] = "undoing"]
    /\ UNCHANGED <<parent, lvl, place, context, wants, waits, record, answers, db>>

-----------------------------------------------------------------------------
(* PostgreSQL runs the next statement. *)

CutTo(f) == SubSeq(log, 1, CHOOSE i \in DOMAIN log : log[i].by = f /\ log[i].set = NoId)

Execute ==
    /\ wire # <<>>
    /\ LET s == Head(wire) IN
       /\ log' = CASE s.op = "set" -> Append(log, [set |-> wants[s.by], by |-> s.by])
                   [] s.op = "savepoint" -> Append(log, [set |-> NoId, by |-> s.by])
                   [] s.op = "rollback" -> CutTo(s.by)
                   [] s.op = "query" -> log
       /\ ranUnder' = IF s.op = "query"
                      THEN [ranUnder EXCEPT ![s.by] = SettingIn(log)] ELSE ranUnder
       /\ answers' = Append(answers, s)
    /\ wire' = Tail(wire)
    /\ UNCHANGED <<calls, record>>

-----------------------------------------------------------------------------
(* Node.js handles the next answer, with every continuation it sets off. *)

Answered(o, a) ==
    /\ answers # <<>>
    /\ Head(answers) = [op |-> o, by |-> a]
    /\ answers' = Tail(answers)

(* A set_config is in place: whoever awaited it sends its query, or runs the *)
(* nested callback.                                                          *)
SetAnswered(a) ==
    /\ Answered("set", a)
    /\ settled' = settled \cup {a}
    /\ LET waiting == {t \in Tasks : place[t] = "claiming" /\ waits[t] = a}
           frames  == {f \in Frames : stage[f] = "binding" /\ waits[f] = a}
       IN /\ place' = [t \in Tasks |-> IF t \in waiting THEN "querying" ELSE place[t]]
          /\ stage' = [f \in Frames |-> IF f \in frames THEN "running" ELSE stage[f]]
          /\ \E order \in [1 .. Cardinality(waiting) -> waiting] :
               /\ \A i, j \in DOMAIN order : order[i] = order[j] => i = j
               /\ wire' = wire \o [i \in DOMAIN order |-> [op |-> "query", by |-> order[i]]]
    /\ UNCHANGED <<parent, lvl, context, wants, waits, bound, level, openLevel, ready, db>>

QueryAnswered(t) ==
    /\ Answered("query", t)
    /\ place' = [place EXCEPT ![t] = "done"]
    /\ UNCHANGED <<stage, parent, lvl, context, wants, waits, record, wire, db>>

(* The SAVEPOINT is taken: a frame with { tenant } claims first.             *)
SavepointAnswered(f) ==
    /\ Answered("savepoint", f)
    /\ \/ /\ wants[f] = NoId
          /\ stage' = [stage EXCEPT ![f] = "running"]
          /\ UNCHANGED <<waits, record, wire>>
       \/ /\ wants[f] # NoId
          /\ ClaimFirst(f, wants[f]) \/ ClaimShared(f, wants[f])
          /\ stage' = [stage EXCEPT ![f] = "binding"]
       \/ /\ wants[f] # NoId
          /\ ClaimReady(wants[f])
          /\ stage' = [stage EXCEPT ![f] = "running"]
          /\ UNCHANGED wire
       \/ /\ wants[f] # NoId
          /\ Refuses(wants[f])
          /\ stage' = [stage EXCEPT ![f] = "undoing"]
          /\ Send("rollback", f)
          /\ UNCHANGED <<waits, record>>
    /\ UNCHANGED <<parent, lvl, place, context, wants, db>>

(* The frame is rolled back: discardBindingClaims. *)
RollbackAnswered(f) ==
    /\ Answered("rollback", f)
    /\ openLevel' = lvl[parent[f]]
    /\ IF bound # NoId /\ level > lvl[parent[f]]
       THEN bound' = NoId /\ level' = 0 /\ ready' = Nobody
       ELSE UNCHANGED <<bound, level, ready>>
    /\ stage' = [stage EXCEPT ![f] = "closed"]
    /\ UNCHANGED <<parent, lvl, place, context, wants, waits, settled, wire, db>>

-----------------------------------------------------------------------------

Next ==
    \/ \E t \in Tasks, c \in Contexts, id \in Ids : Start(t, c, id)
    \/ \E f \in Frames, c \in Contexts, id \in Tenants : CallFrame(f, c, id)
    \/ \E f \in Frames : OpenFrame(f) \/ ReleaseFrame(f) \/ FailFrame(f)
    \/ Execute
    \/ \E t \in Tasks : QueryAnswered(t)
    \/ \E a \in Actors : SetAnswered(a)
    \/ \E f \in Frames : SavepointAnswered(f) \/ RollbackAnswered(f)

Spec == Init /\ [][Next]_vars

-----------------------------------------------------------------------------
(* Properties *)

(* A query of a TenantRepository call runs under the tenant it was made for  *)
(* (session.ts, R3/R4), whoever else used the connection since its claim.    *)
QueriesRunBound ==
    \A t \in Tasks : place[t] = "done" => ranUnder[t] = wants[t]

(* When nothing is on its way, the record is what PostgreSQL would answer,   *)
(* and its level is that of the innermost open SAVEPOINT whose ROLLBACK TO   *)
(* would undo the setting.                                                   *)
Quiet == wire = <<>> /\ answers = <<>>
PositionOf(f) == CHOOSE i \in DOMAIN log : log[i].by = f /\ log[i].set = NoId
SetAfter(f)   == \E i \in DOMAIN log : i > PositionOf(f) /\ log[i].set # NoId
RecordInStep ==
    Quiet =>
        /\ bound = SettingIn(log)
        /\ bound # NoId =>
             \A f \in Frames : HasSavepoint(f) => (SetAfter(f) <=> lvl[f] <= level)
=============================================================================
