---------------------------- MODULE EventTransport ----------------------------
(***************************************************************************)
(* The pub/sub transport between pods (packages/core/src/event:            *)
(* cache-transport.ts): each pod publishes over one Redis client behind a  *)
(* circuit breaker, listens on a second connection that gets its own echo, *)
(* and holds the key closes Redis did not take, to send them again.        *)
(* Left out: payloads that cannot be serialized, and subscribing at boot.  *)
(***************************************************************************)
EXTENDS Naturals, FiniteSets, SequencesExt

CONSTANTS
    Processes,
    Messages,
    KeyCloses,   \* the messages that are held and sent again
    Cap,         \* PENDING_KEY_CLOSE_CAP
    MaxFaults,   \* bound: publishes that fail, connections that drop, pods that stop
    None

ASSUME TransportAssumption ==
    /\ KeyCloses \subseteq Messages /\ None \notin Messages
    /\ Cap \in Nat \ {0} /\ MaxFaults \in Nat

VARIABLES
    outbox,   \* the publishing side of each pod
    inbox,    \* what Redis has broadcast and a pod's subscriber has not handled
    linked,   \* pods whose subscriber is connected
    missed,   \* key closes a pod was not listening to when Redis took them for good
    faults

transportVars == <<outbox, inbox, linked, missed, faults>>

Outboxes == [
    breaker  : {"closed", "open", "cooled"},   \* cooled: the next publish is the probe
    flight   : Seq(Messages),                  \* publishes that Redis has not answered
    pending  : Seq(KeyCloses),                 \* held, oldest first
    timer    : BOOLEAN,
    flushing : BOOLEAN,
    snapshot : Seq(KeyCloses),                 \* what the flush has still to send
    resent   : KeyCloses \cup {None},          \* the publish the flush awaits
    disposed : BOOLEAN,
    dropped  : SUBSET KeyCloses]               \* given up, see CloseArrives

TransportTypeOK ==
    /\ outbox \in [Processes -> Outboxes]
    /\ \A p \in Processes : Len(outbox[p].pending) <= Cap
    /\ inbox \in [Processes -> Seq(Messages)]
    /\ linked \subseteq Processes
    /\ missed \in [Processes -> SUBSET KeyCloses]
    /\ faults \in 0 .. MaxFaults

(* "faults" may be spent beforehand, for a run without them. *)
TransportInit(spent) ==
    /\ outbox = [p \in Processes |->
         [breaker |-> "closed", flight |-> <<>>, pending |-> <<>>, timer |-> FALSE,
          flushing |-> FALSE, snapshot |-> <<>>, resent |-> None,
          disposed |-> FALSE, dropped |-> {}]]
    /\ inbox = [p \in Processes |-> <<>>]
    /\ linked = Processes
    /\ missed = [p \in Processes |-> {}]
    /\ faults = spent

Fault == faults < MaxFaults /\ faults' = faults + 1

-----------------------------------------------------------------------------
(* Held key closes *)

(* Mutant: nothing is dropped past the cap. *)
DeferUncapped(o, m) ==
    IF m \notin KeyCloses THEN o
    ELSE [o EXCEPT !.pending = Append(@, m), !.timer = TRUE]

Without(q, m) ==
    IF m \in ToSet(q) THEN RemoveAt(q, CHOOSE i \in DOMAIN q : q[i] = m) ELSE q

(* deferIfKeyClose: the close goes to the end, the oldest past the cap goes. *)
Defer(o, m) ==
    LET kept == Append(Without(o.pending, m), m)
    IN IF m \notin KeyCloses THEN o
       ELSE IF o.disposed THEN [o EXCEPT !.dropped = @ \cup {m}]
       ELSE IF Len(kept) <= Cap THEN [o EXCEPT !.pending = kept, !.timer = TRUE]
       ELSE [o EXCEPT !.pending = Tail(kept), !.timer = TRUE,
                      !.dropped = @ \cup {Head(kept)}]

Flush(o) ==
    IF o.flushing \/ o.pending = <<>> THEN o
    ELSE [o EXCEPT !.flushing = TRUE, !.snapshot = o.pending, !.pending = <<>>]

-----------------------------------------------------------------------------
(* Publishing.  "o" is what the caller has made of the pod's outbox.         *)

(* The breaker is open, or the client is not connected. *)
Skip(p, o, m) ==
    /\ IF o.breaker = "open" THEN UNCHANGED faults ELSE Fault
    /\ outbox' = [outbox EXCEPT ![p] = Defer(o, m)]
    /\ UNCHANGED <<inbox, linked, missed>>

(* A probe opens the breaker for the others until it is answered. *)
Dispatch(p, o, m) ==
    /\ o.breaker # "open"
    /\ outbox' = [outbox EXCEPT ![p] =
                    [o EXCEPT !.flight  = Append(@, m),
                              !.breaker = IF @ = "cooled" THEN "open" ELSE @]]
    /\ UNCHANGED <<inbox, linked, missed, faults>>

Publish(p, m) == Skip(p, outbox[p], m) \/ Dispatch(p, outbox[p], m)

(* Redis hands it to every subscriber that is connected, the sender's too.   *)
HandOut(m) ==
    inbox' = [q \in Processes |-> IF q \in linked THEN Append(inbox[q], m) ELSE inbox[q]]

(* Redis says so, and nobody sends it again. *)
Broadcast(m) ==
    /\ HandOut(m)
    /\ missed' = [q \in Processes |-> IF q \in linked THEN missed[q]
                                 ELSE missed[q] \cup ({m} \cap KeyCloses)]

(* The oldest publish is answered, or not; the client keeps their order.     *)
Settled(o) ==
    LET m == Head(o.flight) IN
    [o EXCEPT !.flight = Tail(@), !.resent = IF @ = m THEN None ELSE @]

Succeeds(p) ==
    /\ outbox[p].flight # <<>>
    /\ Broadcast(Head(outbox[p].flight))
    /\ outbox' = [outbox EXCEPT ![p] = Flush([Settled(@) EXCEPT !.breaker = "closed"])]
    /\ UNCHANGED <<linked, faults>>

(* An error or a timeout: Redis may have taken the message all the same.     *)
Fails(p) ==
    /\ outbox[p].flight # <<>>
    /\ Fault
    /\ outbox' = [outbox EXCEPT ![p] =
                    Defer([Settled(@) EXCEPT !.breaker = "open"], Head(@.flight))]
    /\ HandOut(Head(outbox[p].flight)) \/ UNCHANGED inbox
    /\ UNCHANGED <<linked, missed>>

-----------------------------------------------------------------------------
(* Timers and the flush *)

Acts(p, o) ==
    /\ outbox' = [outbox EXCEPT ![p] = o]
    /\ UNCHANGED <<inbox, linked, missed, faults>>

(* degradedUntil has passed: the cooldown, or the time a probe had. *)
Cool(p) ==
    /\ outbox[p].breaker = "open"
    /\ Acts(p, [outbox[p] EXCEPT !.breaker = "cooled"])

TimerFires(p) ==
    /\ outbox[p].timer
    /\ Acts(p, Flush([outbox[p] EXCEPT !.timer = FALSE]))

(* The flush sends one close and awaits it; a skipped one is held again.     *)
Resend(p) ==
    LET o == [outbox[p] EXCEPT !.snapshot = Tail(@)]
        m == Head(outbox[p].snapshot)
    IN /\ outbox[p].snapshot # <<>> /\ outbox[p].resent = None
       /\ Skip(p, o, m) \/ Dispatch(p, [o EXCEPT !.resent = m], m)

FlushOver(p) ==
    outbox[p].flushing /\ outbox[p].snapshot = <<>> /\ outbox[p].resent = None

(* Mutant: the retry is not armed for what failed again. *)
FlushDisarms(p) ==
    /\ FlushOver(p)
    /\ Acts(p, [outbox[p] EXCEPT !.flushing = FALSE, !.timer = FALSE])

FlushEnds(p) ==
    /\ FlushOver(p)
    /\ Acts(p, [outbox[p] EXCEPT !.flushing = FALSE, !.timer = outbox[p].pending # <<>>])

-----------------------------------------------------------------------------
(* Subscribers *)

(* A process will still send it, or send it again. *)
InHand(m) ==
    \E q \in Processes :
        m \in ToSet(outbox[q].flight) \cup ToSet(outbox[q].pending) \cup ToSet(outbox[q].snapshot)

(* What was on its way to p is lost; of that, the closes nobody sends again. *)
LoseInbox(p) ==
    /\ inbox' = [inbox EXCEPT ![p] = <<>>]
    /\ missed' = [missed EXCEPT ![p] = @ \cup {m \in ToSet(inbox[p]) \cap KeyCloses : ~InHand(m)}]

(* The connection drops.  ioredis reconnects.                                *)
Unlink(p) ==
    /\ p \in linked /\ Fault
    /\ linked' = linked \ {p}
    /\ LoseInbox(p)
    /\ UNCHANGED outbox

Relink(p) ==
    /\ p \notin linked /\ ~outbox[p].disposed
    /\ linked' = linked \cup {p}
    /\ UNCHANGED <<outbox, inbox, missed, faults>>

(* closeEventTransport: held closes are given up and the subscriber quits; a *)
(* flush that is under way goes on.                                          *)
Dispose(p) ==
    /\ ~outbox[p].disposed /\ Fault
    /\ outbox' = [outbox EXCEPT ![p].disposed = TRUE, ![p].timer = FALSE, ![p].pending = <<>>,
                                ![p].dropped = @ \cup ToSet(outbox[p].pending)]
    /\ linked' = linked \ {p}
    /\ LoseInbox(p)

FlushStep(p) == TimerFires(p) \/ Resend(p) \/ FlushEnds(p)

TransportFault(p) == Unlink(p) \/ Relink(p) \/ Dispose(p)
=============================================================================
