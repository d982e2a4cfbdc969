------------------------------ MODULE SseStream ------------------------------
(***************************************************************************)
(* One open SSE connection of @spfn/core, as a value: what the initial     *)
(* pass, the frame hold and the bounded writer of one stream do to it      *)
(* (packages/core/src/event/sse: handler.ts, bounded-writer.ts,            *)
(* connection-registry.ts), for one event the client asked for.            *)
(* Left out: pings, which are held and queued like any frame, and payloads.*)
(***************************************************************************)
EXTENDS Naturals, Sequences

CONSTANTS
    MaxQueue,   \* frames a connection may be behind
    Initials    \* how many initial frames the event's producer may answer with

ASSUME StreamAssumption == MaxQueue \in Nat \ {0} /\ Initials \subseteq Nat

Frames == {"subscribed", "denied",   \* connected, listing the event as one or the other
           "initial", "event",
           "granted", "revoked"}

Streams == [
    life      : {"none", "open", "closed"},
    allowed   : BOOLEAN,                   \* else denied
    producing : BOOLEAN,                   \* the initial pass runs: frames are held
    held      : Seq(Frames),
    queue     : Seq(Frames),
    writing   : Frames \cup {"nothing"},   \* the frame the drain loop awaits
    view      : {"none", "on", "off"},     \* whether the client takes itself to be subscribed
    astray    : BOOLEAN]                   \* it got a frame that its view did not let it expect

NoStream == [life |-> "none", allowed |-> FALSE, producing |-> FALSE, held |-> <<>>,
             queue |-> <<>>, writing |-> "nothing", view |-> "none", astray |-> FALSE]

(* cleanup(): no more frames but the one being written. *)
Closed(s) == [s EXCEPT !.life = "closed", !.producing = FALSE, !.held = <<>>, !.queue = <<>>]

(* The drain loop takes the frame at once when it is idle. *)
Enqueue(s, f) ==
    IF Len(s.queue) + 1 > MaxQueue THEN Closed(s)
    ELSE IF s.writing = "nothing" THEN [s EXCEPT !.writing = f]
    ELSE [s EXCEPT !.queue = Append(@, f)]

(* Mutant: a frame about a subscription is not held behind the initial pass. *)
SendAtOnce(s, f) ==
    IF ~s.producing \/ f = "revoked" THEN Enqueue(s, f)
    ELSE IF Len(s.held) + 1 > MaxQueue THEN Closed(s)
    ELSE [s EXCEPT !.held = Append(@, f)]

(* hold.send: while the initial pass runs a frame is held, in its own place  *)
(* of the queue.                                                             *)
Send(s, f) ==
    IF ~s.producing THEN Enqueue(s, f)
    ELSE IF Len(s.held) + 1 > MaxQueue THEN Closed(s)
    ELSE [s EXCEPT !.held = Append(@, f)]

(* runStream up to its wait: connected and the subscription, or the initial  *)
(* pass when the event is allowed and has a producer.                        *)
Opened(allowed) ==
    LET s == [NoStream EXCEPT !.life = "open", !.allowed = allowed] IN
    IF allowed /\ Initials # {} THEN [s EXCEPT !.producing = TRUE]
    ELSE Enqueue(s, IF allowed THEN "subscribed" ELSE "denied")

(* The producer answered n frames, or threw (none): connected, the initial   *)
(* frames, then what was held.                                               *)
Produced(s, n) ==
    LET overflows(k) == k + Len(s.held) > MaxQueue
        connected    == [s EXCEPT !.writing = "subscribed"]
    IN IF overflows(1) THEN Closed(s)
       ELSE IF overflows(n) THEN Closed(connected)
       ELSE [connected EXCEPT !.producing = FALSE, !.held = <<>>,
                              !.queue = [i \in 1 .. n |-> "initial"] \o s.held]

(* grantOn and revokeOn *)
Granted(s) == IF s.allowed THEN s ELSE Send([s EXCEPT !.allowed = TRUE], "granted")
Revoked(s) == IF ~s.allowed THEN s ELSE Send([s EXCEPT !.allowed = FALSE], "revoked")

(* The event is triggered on this pod. *)
Emitted(s) == IF s.life = "open" /\ s.allowed THEN Send(s, "event") ELSE s

(* The client got the frame; the drain loop goes on to the next.             *)
Written(s) ==
    LET f == s.writing IN
    [s EXCEPT
        !.view   = CASE f \in {"subscribed", "granted"} -> "on"
                     [] f \in {"denied", "revoked"}     -> "off"
                     [] OTHER                           -> @,
        !.astray = @ \/ (s.view = "none" /\ f \notin {"subscribed", "denied"})
                     \/ (s.view = "off" /\ f \in {"initial", "event"}),
        !.writing = IF s.queue = <<>> THEN "nothing" ELSE Head(s.queue),
        !.queue   = IF s.queue = <<>> THEN @ ELSE Tail(@)]

WriteFailed(s) == [Closed(s) EXCEPT !.writing = "nothing"]

Drained(s) == s.life = "open" /\ ~s.producing /\ s.writing = "nothing"
=============================================================================
