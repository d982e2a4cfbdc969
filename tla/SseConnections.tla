--------------------------- MODULE SseConnections ---------------------------
(***************************************************************************)
(* The SSE connections of several pods (packages/core/src/event/sse:       *)
(* handler.ts, connection-registry.ts, token-manager.ts), all of one       *)
(* subject: each connects with a token minted for a device key, is pending *)
(* while its key and its permission are read, and opens; grants, revokes   *)
(* and key closes reach the ones that are open and the ones that pend.     *)
(* What the app stores (which keys are revoked, who may subscribe) is read *)
(* here and written by whoever calls these operations.                     *)
(***************************************************************************)
EXTENDS SseStream, FiniteSets

CONSTANTS
    Pods, Keys, Conns,
    Pod, Key,     \* of each connection
    Changes,      \* grant() and revoke() calls
    Grants,       \* the grants among them
    Reach,        \* the connections whose query meets the call's match
    Close         \* a recorded key close

ASSUME ConnectionAssumption ==
    /\ Pod \in [Conns -> Pods] /\ Key \in [Conns -> Keys]
    /\ Grants \subseteq Changes /\ Reach \in [Changes -> SUBSET Conns]
    /\ Close \notin Changes

VARIABLES
    at,         \* where each connect is
    verdict,    \* what canSubscribe answered
    recorded,   \* the changes recorded on a pending admission
    stream,     \* the stream of each connection
    revoked,    \* app data: the revoked keys
    allows,     \* app data: the connections whose user may subscribe
    closed      \* the keys whose close each pod has applied

appData  == <<revoked, allows>>
connVars == <<at, verdict, recorded, stream, appData, closed>>

Pending == {"checking", "live", "answered"}

ConnTypeOK ==
    /\ at \in [Conns -> Pending \cup {"minted", "open", "refused", "gone"}]
    /\ verdict \in [Conns -> BOOLEAN]
    /\ recorded \in [Conns -> Seq(Changes \cup {Close})]
    /\ stream \in [Conns -> Streams]
    /\ revoked \subseteq Keys /\ allows \subseteq Conns
    /\ closed \in [Pods -> SUBSET Keys]

(* Tokens are minted for keys that hold; only some will be used. *)
ConnInit(some) ==
    /\ at = [c \in Conns |-> IF c \in some THEN "minted" ELSE "refused"]
    /\ verdict = [c \in Conns |-> FALSE]
    /\ recorded = [c \in Conns |-> <<>>]
    /\ stream = [c \in Conns |-> NoStream]
    /\ revoked = {} /\ allows \in {{}, Conns}
    /\ closed = [p \in Pods |-> {}]

-----------------------------------------------------------------------------
(* Connecting *)

Moves(c, from, to) == at[c] = from /\ at' = [at EXCEPT ![c] = to]

(* The token leaves the store and the admission is registered, at once.      *)
Take(c) ==
    /\ Moves(c, "minted", "checking")
    /\ UNCHANGED <<verdict, recorded, stream, appData, closed>>

(* Unknown or expired token, unknown event, failed principal, or a throw.    *)
Refuse(c) ==
    /\ at[c] \in {"minted", "checking", "live"}
    /\ at' = [at EXCEPT ![c] = "refused"]
    /\ UNCHANGED <<verdict, recorded, stream, appData, closed>>

(* verifyKey reads the key on the primary; its answer is on its way.         *)
ReadKey(c) ==
    /\ at[c] = "checking"
    /\ at' = [at EXCEPT ![c] = IF Key[c] \in revoked THEN "refused" ELSE "live"]
    /\ UNCHANGED <<verdict, recorded, stream, appData, closed>>

(* Mutant: the admission is registered once the key's answer has come. *)
AskUnregistered(c) ==
    /\ Moves(c, "live", "answered")
    /\ verdict' = [verdict EXCEPT ![c] = c \in allows]
    /\ recorded' = [recorded EXCEPT ![c] = <<>>]
    /\ UNCHANGED <<stream, appData, closed>>

(* The key held; canSubscribe reads app data. *)
Ask(c) ==
    /\ Moves(c, "live", "answered")
    /\ verdict' = [verdict EXCEPT ![c] = c \in allows]
    /\ UNCHANGED <<recorded, stream, appData, closed>>

(* The verdict, overruled by the last change that reached the admission.     *)
Hits(c) == {i \in DOMAIN recorded[c] : recorded[c][i] # Close /\ c \in Reach[recorded[c][i]]}

Admitted(c) ==
    \/ Hits(c) = {} /\ verdict[c]
    \/ \E i \in Hits(c) : recorded[c][i] \in Grants /\ \A j \in Hits(c) : j <= i

KeyClosed(c) == \E i \in DOMAIN recorded[c] : recorded[c][i] = Close

(* Mutant: what was recorded meanwhile is forgotten. *)
OpenAsRead(c) ==
    /\ at[c] = "answered"
    /\ IF KeyClosed(c)
       THEN at' = [at EXCEPT ![c] = "refused"] /\ UNCHANGED stream
       ELSE /\ at' = [at EXCEPT ![c] = "open"]
            /\ stream' = [stream EXCEPT ![c] = Opened(verdict[c])]
    /\ UNCHANGED <<verdict, recorded, appData, closed>>

Open(c) ==
    /\ at[c] = "answered"
    /\ IF KeyClosed(c)
       THEN at' = [at EXCEPT ![c] = "refused"] /\ UNCHANGED stream
       ELSE /\ at' = [at EXCEPT ![c] = "open"]
            /\ stream' = [stream EXCEPT ![c] = Opened(Admitted(c))]
    /\ UNCHANGED <<verdict, recorded, appData, closed>>

(* The client leaves, during its admission or later. *)
Leave(c) ==
    \/ /\ at[c] \in Pending
       /\ at' = [at EXCEPT ![c] = "gone"]
       /\ UNCHANGED <<verdict, recorded, stream, appData, closed>>
    \/ /\ stream[c].life = "open"
       /\ stream' = [stream EXCEPT ![c] = Closed(@)]
       /\ UNCHANGED <<at, verdict, recorded, appData, closed>>

(* One step of the initial pass, or of the writer. *)
Stream(c) ==
    /\ \/ /\ stream[c].producing
          /\ \E n \in Initials \cup {0} : stream' = [stream EXCEPT ![c] = Produced(@, n)]
       \/ /\ stream[c].writing # "nothing"
          /\ stream' = [stream EXCEPT ![c] = Written(@)]
       \/ /\ stream[c].writing # "nothing" /\ stream[c].life = "open"
          /\ stream' = [stream EXCEPT ![c] = WriteFailed(@)]
    /\ UNCHANGED <<at, verdict, recorded, appData, closed>>

ConnStep(c) ==
    Take(c) \/ Refuse(c) \/ ReadKey(c) \/ Ask(c) \/ Open(c) \/ Leave(c) \/ Stream(c)

-----------------------------------------------------------------------------
(* What reaches the connections of one pod *)

Record(there, x) ==
    recorded' = [c \in Conns |-> IF c \in there /\ at[c] \in Pending
                                 THEN Append(recorded[c], x) ELSE recorded[c]]

(* grant() or revoke(): pending admissions record it, whatever its match.    *)
Change(p, x) ==
    /\ Record({c \in Conns : Pod[c] = p}, x)
    /\ stream' = [c \in Conns |->
                    IF Pod[c] = p /\ stream[c].life = "open" /\ c \in Reach[x]
                    THEN IF x \in Grants THEN Granted(stream[c]) ELSE Revoked(stream[c])
                    ELSE stream[c]]
    /\ UNCHANGED <<at, verdict, appData, closed>>

(* closeByKey, on every handler of the process. *)
CloseByKey(p, k) ==
    /\ Record({c \in Conns : Pod[c] = p /\ Key[c] = k}, Close)
    /\ stream' = [c \in Conns |->
                    IF Pod[c] = p /\ Key[c] = k /\ stream[c].life = "open"
                    THEN Closed(stream[c]) ELSE stream[c]]
    /\ closed' = [closed EXCEPT ![p] = @ \cup {k}]
    /\ UNCHANGED <<at, verdict, appData>>

(* The event is triggered on a pod. *)
Trigger(p) ==
    /\ stream' = [c \in Conns |-> IF Pod[c] = p THEN Emitted(stream[c]) ELSE stream[c]]
    /\ UNCHANGED <<at, verdict, recorded, appData, closed>>

-----------------------------------------------------------------------------
(* Connections whose app data changes freely: a key is closed only once it   *)
(* is revoked.                                                               *)

AppData ==
    /\ \/ revoked' \in {revoked \cup {k} : k \in Keys} /\ UNCHANGED allows
       \/ allows' \in SUBSET Conns /\ UNCHANGED revoked
    /\ UNCHANGED <<at, verdict, recorded, stream, closed>>

ConnNext ==
    \/ AppData
    \/ \E c \in Conns : ConnStep(c)
    \/ \E p \in Pods :
         \/ \E x \in Changes : Change(p, x)
         \/ \E k \in revoked : CloseByKey(p, k)
         \/ Trigger(p)

ConnSpec == (\E some \in SUBSET Conns : ConnInit(some)) /\ [][ConnNext]_connVars

(* Once a pod has applied the close of a key, no stream of that key is open  *)
(* on it, and none opens: neither one whose token was minted before, nor one *)
(* whose key was read as live before it was revoked.                         *)
KeyCloseIsFinal ==
    \A c \in Conns : Key[c] \in closed[Pod[c]] => stream[c].life # "open"

(* What the client makes of the frames it got is true: no frame of the event *)
(* comes before connected or after a revoke, through the initial pass, the   *)
(* hold and the queue; and a client that has read everything knows whether   *)
(* it is subscribed.                                                         *)
FramesInStep ==
    \A c \in Conns :
      /\ ~stream[c].astray
      /\ Drained(stream[c]) => stream[c].view = IF stream[c].allowed THEN "on" ELSE "off"
=============================================================================
