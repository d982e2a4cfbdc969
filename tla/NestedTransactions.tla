------------------------ MODULE NestedTransactions ------------------------
(* What packages/core promises of nested runInTransaction() calls            *)
(* (src/db/transaction/README.md, "Nested transactions"): a call's writes    *)
(* are its own until it settles.  If it resolves they become its parent's,   *)
(* if it rejects they are gone, and only the root's COMMIT makes what it     *)
(* then holds durable.  There is no connection here, no SAVEPOINT and no     *)
(* queue: each frame keeps a set of writes.                                  *)
EXTENDS FiniteSets

CONSTANTS Frames, NoFrame, Writes

VARIABLES
    parent,   \* the frame a call was nested into, NoFrame for a root
    outcome,  \* "unopened", "open", "resolved" or "rejected"
    work,     \* the writes a frame would hand on if it resolved now
    durable   \* the writes a COMMIT made durable

absVars == <<parent, outcome, work, durable>>

Init ==
    /\ parent = [f \in Frames |-> NoFrame]
    /\ outcome = [f \in Frames |-> "unopened"]
    /\ work = [f \in Frames |-> {}]
    /\ durable = {}

OpenRoot(f) ==
    /\ outcome[f] = "unopened"
    /\ outcome' = [outcome EXCEPT ![f] = "open"]
    /\ UNCHANGED <<parent, work, durable>>

OpenNested(f, g) ==
    /\ outcome[f] = "open"
    /\ outcome[g] = "unopened"
    /\ ~ \E h \in Frames : outcome[h] = "open" /\ parent[h] = f
    /\ outcome' = [outcome EXCEPT ![g] = "open"]
    /\ parent' = [parent EXCEPT ![g] = f]
    /\ UNCHANGED <<work, durable>>

(* A call that never got its SAVEPOINT rejects without having done anything. *)
Refuse(g) ==
    /\ outcome[g] = "unopened"
    /\ outcome' = [outcome EXCEPT ![g] = "rejected"]
    /\ \E f \in Frames : parent' = [parent EXCEPT ![g] = f]
    /\ UNCHANGED <<work, durable>>

Do(f, w) ==
    /\ outcome[f] = "open"
    /\ w \notin durable
    /\ UNCHANGED <<parent, outcome, durable>>
    /\ \A g \in Frames : w \notin work[g]
    /\ work' = [work EXCEPT ![f] = @ \cup {w}]

NoneOpenInside(f) == \A g \in Frames : parent[g] = f => outcome[g] # "open"

Resolve(g) ==
    /\ outcome[g] = "open"
    /\ parent[g] # NoFrame
    /\ NoneOpenInside(g)
    /\ outcome' = [outcome EXCEPT ![g] = "resolved"]
    /\ work' = [work EXCEPT ![g] = {}, ![parent[g]] = @ \cup work[g]]
    /\ UNCHANGED <<parent, durable>>

Reject(g) ==
    /\ outcome[g] = "open"
    /\ NoneOpenInside(g)
    /\ outcome' = [outcome EXCEPT ![g] = "rejected"]
    /\ work' = [work EXCEPT ![g] = {}]
    /\ UNCHANGED <<parent, durable>>

Commit(r) ==
    /\ outcome[r] = "open"
    /\ parent[r] = NoFrame
    /\ NoneOpenInside(r)
    /\ outcome' = [outcome EXCEPT ![r] = "resolved"]
    /\ work' = [work EXCEPT ![r] = {}]
    /\ durable' = durable \cup work[r]
    /\ UNCHANGED parent

(* A step that changes nothing comes first: most steps of an implementation  *)
(* are such.                                                                 *)
Next ==
    \/ UNCHANGED absVars
    \/ \E f \in Frames :
          \/ OpenRoot(f)
          \/ \E g \in Frames : OpenNested(f, g)
          \/ Refuse(f)
          \/ \E w \in Writes : Do(f, w)
          \/ Resolve(f)
          \/ Reject(f)
          \/ Commit(f)

Spec == Init /\ [][Next]_absVars
=============================================================================
