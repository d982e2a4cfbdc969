---------------------------- MODULE EventStreams ----------------------------
(***************************************************************************)
(* The events of @spfn/core on several pods: streams and the transport     *)
(* together.  A key revoked, a permission changed or an event emitted on   *)
(* one pod reaches the streams of all of them.                             *)
(***************************************************************************)
EXTENDS SseConnections, EventTransport

CONSTANTS
    Emits,       \* emit() calls
    At,          \* the pod each operation is called on
    Scenarios    \* bound: which connections and operations there are, and how many faults

ASSUME OperationAssumption ==
    /\ Processes = Pods /\ Messages = Keys \cup Changes \cup Emits /\ KeyCloses = Keys
    /\ Keys \cap Changes = {} /\ Emits \cap (Keys \cup Changes) = {}
    /\ At \in [Messages -> Pods]
    /\ Scenarios \subseteq [some : SUBSET (Conns \cup Messages), faults : 0 .. MaxFaults]

VARIABLES
    todo,      \* operations yet to be called, or under way
    decided,   \* the changes the app has stored, in order
    applied    \* the changes that each pod has applied, in order

history == <<decided, applied>>
vars    == <<connVars, transportVars, todo, history>>

TypeOK ==
    /\ ConnTypeOK /\ TransportTypeOK
    /\ todo \subseteq Messages
    /\ decided \in Seq(Changes)
    /\ applied \in [Pods -> Seq(Changes)]

Init ==
    /\ \E s \in Scenarios :
         /\ ConnInit(s.some \cap Conns) /\ todo = s.some \cap Messages
         /\ TransportInit(MaxFaults - s.faults)
    /\ decided = <<>> /\ applied = [p \in Pods |-> <<>>]

-----------------------------------------------------------------------------
(* Operations *)

(* The key's revocation commits; the hook that closes its streams follows,   *)
(* unless the process dies.                                                  *)
RevokeKey(k) ==
    /\ k \in todo \ revoked
    /\ revoked' = revoked \cup {k}
    /\ UNCHANGED <<at, verdict, recorded, stream, allows, closed, transportVars, todo, history>>

(* closeSSEConnectionsByKey: here first, then everywhere. *)
CloseStreams(k) ==
    /\ k \in todo \cap revoked
    /\ todo' = todo \ {k}
    /\ CloseByKey(At[k], k)
    /\ Publish(At[k], k)
    /\ UNCHANGED history

(* The app stores who may subscribe, one change after the other. *)
Decide(x) ==
    /\ x \in todo /\ ToSet(decided) \cap todo = {}
    /\ decided' = Append(decided, x)
    /\ allows' = IF x \in Grants THEN allows \cup Reach[x] ELSE allows \ Reach[x]
    /\ UNCHANGED <<at, verdict, recorded, stream, revoked, closed, transportVars, todo, applied>>

ApplyAt(p, x) == Change(p, x) /\ applied' = [applied EXCEPT ![p] = Append(@, x)]

(* event.grant() or event.revoke(): here first, then everywhere. *)
ChangeEverywhere(x) ==
    /\ x \in todo \cap ToSet(decided)
    /\ todo' = todo \ {x}
    /\ ApplyAt(At[x], x)
    /\ Publish(At[x], x)
    /\ UNCHANGED decided

(* emit(): the streams of this pod are fed by the echo, or, when Redis is    *)
(* skipped or fails, directly.                                               *)
Emit(e) ==
    LET p == At[e] IN
    /\ e \in todo
    /\ todo' = todo \ {e}
    /\ \/ Skip(p, outbox[p], e) /\ Trigger(p)
       \/ Dispatch(p, outbox[p], e) /\ UNCHANGED connVars
    /\ UNCHANGED history

-----------------------------------------------------------------------------
(* Messages *)

DeliverLocal(p, m) == IF m \in Emits THEN Trigger(p) ELSE UNCHANGED connVars

Answered(p) ==
    /\ \/ /\ Succeeds(p)
          /\ IF p \in linked THEN UNCHANGED connVars
             ELSE DeliverLocal(p, Head(outbox[p].flight))
       \/ Fails(p) /\ DeliverLocal(p, Head(outbox[p].flight))
    /\ UNCHANGED <<todo, history>>

(* The subscriber's handler: a pod skips its own control messages.           *)
Deliver(p) ==
    LET m == Head(inbox[p]) IN
    /\ inbox[p] # <<>>
    /\ inbox' = [inbox EXCEPT ![p] = Tail(@)]
    /\ \/ m \in Emits /\ Trigger(p) /\ UNCHANGED applied
       \/ m \notin Emits /\ At[m] = p /\ UNCHANGED <<connVars, applied>>
       \/ m \in Keys /\ At[m] # p /\ CloseByKey(p, m) /\ UNCHANGED applied
       \/ m \in Changes /\ At[m] # p /\ ApplyAt(p, m)
    /\ UNCHANGED <<outbox, linked, missed, faults, todo, decided>>

-----------------------------------------------------------------------------

(* The network and the clock, and the flush. *)
Progress(p) ==
    \/ Answered(p) \/ Deliver(p)
    \/ Cool(p) /\ UNCHANGED <<connVars, todo, history>>

Flushes(p) == FlushStep(p) /\ UNCHANGED <<connVars, todo, history>>

Next ==
    \/ \E k \in Keys : RevokeKey(k) \/ CloseStreams(k)
    \/ \E x \in Changes : Decide(x) \/ ChangeEverywhere(x)
    \/ \E e \in Emits : Emit(e)
    \/ \E p \in Pods :
         \/ Progress(p) \/ Flushes(p)
         \/ TransportFault(p) /\ UNCHANGED <<connVars, todo, history>>
    \/ \E c \in Conns : ConnStep(c) /\ UNCHANGED <<transportVars, todo, history>>

Spec == Init /\ [][Next]_vars

(* A publish is answered or times out, timers fire, the flush goes on and a  *)
(* connected subscriber reads.                                               *)
FairSpec == Spec /\ \A p \in Pods : WF_vars(Progress(p)) /\ WF_vars(Flushes(p))

-----------------------------------------------------------------------------
(* Properties *)

(* A pod that has applied every stored change, in the order they were stored, *)
(* shows each open stream exactly what the app allows, whenever the stream's  *)
(* permission was read, and whatever was applied while it was being admitted. *)
PermissionInStep ==
    \A p \in Pods : applied[p] = decided =>
      \A c \in Conns : Pod[c] = p /\ stream[c].life = "open"
                         => stream[c].allowed = (c \in allows)

(* A key closed on one pod is closed on every other, however often Redis      *)
(* refuses, unless the list of held closes overflowed, its pod stopped, or    *)
(* the other pod was not listening when Redis broadcast the close.            *)
CloseArrives ==
    \A k \in Keys :
      k \in closed[At[k]] ~>
        \A p \in Pods : k \in closed[p] \cup missed[p] \cup outbox[At[k]].dropped
=============================================================================
