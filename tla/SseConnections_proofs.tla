------------------------ MODULE SseConnections_proofs ------------------------
(***************************************************************************)
(* Lemmas about streams and connections, for any number of pods, keys and  *)
(* connections, any bound on the queue and any producer.                   *)
(***************************************************************************)
EXTENDS SseConnections, SequenceTheorems, TLAPS

USE StreamAssumption, ConnectionAssumption

-----------------------------------------------------------------------------
(* Streams as values: what an operation returns is a stream, it reopens none *)
(* and, but for grants and revokes, it leaves the permission alone.          *)

Follows(t, s) ==
    /\ t \in Streams
    /\ t.life \in {s.life, "closed"}

SameAllowed(t, s) == Follows(t, s) /\ t.allowed = s.allowed

LEMMA ClosedStream == \A s \in Streams : SameAllowed(Closed(s), s) /\ Closed(s).life = "closed"
  BY EmptySeq DEF Closed, Streams, SameAllowed, Follows

LEMMA EnqueueStream == \A s \in Streams, f \in Frames : SameAllowed(Enqueue(s, f), s)
  <1> SUFFICES ASSUME NEW s \in Streams, NEW f \in Frames PROVE SameAllowed(Enqueue(s, f), s)
    OBVIOUS
  <1>1. CASE Len(s.queue) + 1 > MaxQueue
    BY <1>1, ClosedStream DEF Enqueue
  <1>2. CASE ~(Len(s.queue) + 1 > MaxQueue)
    <2>1. Append(s.queue, f) \in Seq(Frames)
      BY AppendProperties DEF Streams
    <2> QED BY <1>2, <2>1 DEF Enqueue, Streams, SameAllowed, Follows
  <1> QED BY <1>1, <1>2

LEMMA SendStream == \A s \in Streams, f \in Frames : SameAllowed(Send(s, f), s)
  <1> SUFFICES ASSUME NEW s \in Streams, NEW f \in Frames PROVE SameAllowed(Send(s, f), s)
    OBVIOUS
  <1>1. CASE ~s.producing
    BY <1>1, EnqueueStream DEF Send
  <1>2. CASE s.producing /\ Len(s.held) + 1 > MaxQueue
    BY <1>2, ClosedStream DEF Send
  <1>3. CASE s.producing /\ ~(Len(s.held) + 1 > MaxQueue)
    <2>1. Append(s.held, f) \in Seq(Frames)
      BY AppendProperties DEF Streams
    <2> QED BY <1>3, <2>1 DEF Send, Streams, SameAllowed, Follows
  <1> QED BY <1>1, <1>2, <1>3

LEMMA NoStreamStream == NoStream \in Streams
  BY EmptySeq DEF NoStream, Streams, Frames

LEMMA OpenedStream ==
  \A b \in BOOLEAN : Opened(b) \in Streams /\ Opened(b).allowed = b
  <1> SUFFICES ASSUME NEW b \in BOOLEAN PROVE Opened(b) \in Streams /\ Opened(b).allowed = b
    OBVIOUS
  <1> DEFINE s == [NoStream EXCEPT !.life = "open", !.allowed = b]
  <1>1. s \in Streams /\ s.allowed = b
    BY NoStreamStream DEF Streams, NoStream
  <1>2. [s EXCEPT !.producing = TRUE] \in Streams /\ [s EXCEPT !.producing = TRUE].allowed = b
    BY <1>1 DEF Streams
  <1>3. \A f \in Frames : Enqueue(s, f) \in Streams /\ Enqueue(s, f).allowed = b
    BY <1>1, EnqueueStream DEF SameAllowed, Follows
  <1>4. "subscribed" \in Frames /\ "denied" \in Frames
    BY DEF Frames
  <1> QED BY <1>2, <1>3, <1>4 DEF Opened

LEMMA ProducedStream ==
  \A s \in Streams, n \in Nat : SameAllowed(Produced(s, n), s)
  <1> SUFFICES ASSUME NEW s \in Streams, NEW n \in Nat PROVE SameAllowed(Produced(s, n), s)
    OBVIOUS
  <1> DEFINE connected == [s EXCEPT !.writing = "subscribed"]
  <1>1. connected \in Streams /\ connected.life = s.life /\ connected.allowed = s.allowed
    BY DEF Streams, Frames
  <1>2. SameAllowed(Closed(s), s) /\ SameAllowed(Closed(connected), s)
    BY <1>1, ClosedStream DEF SameAllowed, Follows
  <1>3. [i \in 1 .. n |-> "initial"] \o s.held \in Seq(Frames)
    <2>1. [i \in 1 .. n |-> "initial"] \in Seq(Frames)
      BY IsASeq DEF Frames
    <2> QED BY <2>1, ConcatProperties DEF Streams
  <1>4. SameAllowed([connected EXCEPT !.producing = FALSE, !.held = <<>>,
                                      !.queue = [i \in 1 .. n |-> "initial"] \o s.held], s)
    BY <1>1, <1>3, EmptySeq DEF Streams, SameAllowed, Follows
  <1> QED BY <1>2, <1>4 DEF Produced

LEMMA EmittedStream == \A s \in Streams : SameAllowed(Emitted(s), s)
  BY SendStream DEF Emitted, SameAllowed, Follows, Frames

LEMMA WrittenStream == \A s \in Streams : s.writing # "nothing" => SameAllowed(Written(s), s)
  <1> SUFFICES ASSUME NEW s \in Streams, s.writing # "nothing" PROVE SameAllowed(Written(s), s)
    OBVIOUS
  <1>1. s.queue # <<>> => Head(s.queue) \in Frames /\ Tail(s.queue) \in Seq(Frames)
    BY HeadTailProperties DEF Streams
  <1> QED BY <1>1 DEF Written, Streams, SameAllowed, Follows

LEMMA WriteFailedStream == \A s \in Streams : SameAllowed(WriteFailed(s), s)
  BY EmptySeq DEF WriteFailed, Closed, Streams, SameAllowed, Follows

(* A grant or a revoke that reaches a stream decides its permission. *)
LEMMA ChangedStream ==
  \A s \in Streams : /\ Follows(Granted(s), s) /\ Granted(s).allowed = TRUE
                     /\ Follows(Revoked(s), s) /\ Revoked(s).allowed = FALSE
  <1> SUFFICES ASSUME NEW s \in Streams
               PROVE  /\ Follows(Granted(s), s) /\ Granted(s).allowed = TRUE
                      /\ Follows(Revoked(s), s) /\ Revoked(s).allowed = FALSE
    OBVIOUS
  <1>1. ASSUME NEW b \in BOOLEAN, NEW f \in Frames
        PROVE  LET t == Send([s EXCEPT !.allowed = b], f) IN Follows(t, s) /\ t.allowed = b
    <2>1. /\ [s EXCEPT !.allowed = b] \in Streams
          /\ [s EXCEPT !.allowed = b].life = s.life /\ [s EXCEPT !.allowed = b].allowed = b
      BY DEF Streams
    <2> QED BY <2>1, SendStream DEF SameAllowed, Follows
  <1>2. "granted" \in Frames /\ "revoked" \in Frames /\ s.allowed \in BOOLEAN /\ s.life \in {s.life}
    BY DEF Frames, Streams
  <1> QED BY <1>1, <1>2 DEF Granted, Revoked, Follows

-----------------------------------------------------------------------------
(* Key closes. *)

(* A key is revoked before it is closed, so nobody reads it as live after. *)
ClosedRevoked == \A p \in Pods : closed[p] \subseteq revoked

(* An admission that read its key before has recorded the close. *)
CloseRecorded ==
    \A c \in Conns :
        Key[c] \in closed[Pod[c]] /\ at[c] \in {"live", "answered"} => KeyClosed(c)

ConnInv == ConnTypeOK /\ ClosedRevoked /\ CloseRecorded /\ KeyCloseIsFinal

LEMMA ConnInvInit == ASSUME NEW some \in SUBSET Conns, ConnInit(some) PROVE ConnInv
  <1>1. ConnTypeOK
    BY NoStreamStream, EmptySeq DEF ConnInit, ConnTypeOK, Pending
  <1>2. ClosedRevoked /\ CloseRecorded /\ KeyCloseIsFinal
    BY DEF ConnInit, ClosedRevoked, CloseRecorded, KeyCloseIsFinal, NoStream
  <1> QED BY <1>1, <1>2 DEF ConnInv

(* What a pending admission has recorded is not forgotten. *)
LEMMA RecordKeeps ==
  ASSUME ConnTypeOK, NEW there \in SUBSET Conns, NEW x \in Changes \cup {Close}, Record(there, x)
  PROVE  /\ recorded' \in [Conns -> Seq(Changes \cup {Close})]
         /\ \A c \in Conns :
              /\ KeyClosed(c) => KeyClosed(c)'
              /\ c \in there /\ at[c] \in Pending /\ x = Close => KeyClosed(c)'
  <1> USE DEF ConnTypeOK
  <1>1. \A c \in Conns :
          /\ Append(recorded[c], x) \in Seq(Changes \cup {Close})
          /\ DOMAIN recorded[c] \subseteq DOMAIN Append(recorded[c], x)
          /\ Len(recorded[c]) + 1 \in DOMAIN Append(recorded[c], x)
          /\ Append(recorded[c], x)[Len(recorded[c]) + 1] = x
          /\ \A i \in DOMAIN recorded[c] : Append(recorded[c], x)[i] = recorded[c][i]
    BY AppendProperties, LenProperties
  <1> QED BY <1>1 DEF Record, KeyClosed

(* Streams that no grant or close reaches. *)
LEMMA StreamsFollow ==
  ASSUME ConnInv, NEW t \in [Conns -> Streams], \A c \in Conns : Follows(t[c], stream[c]),
         stream' = t, UNCHANGED <<at, recorded, revoked, closed>>,
         verdict' \in [Conns -> BOOLEAN], allows' \subseteq Conns
  PROVE  ConnInv'
  <1>1. ConnTypeOK'
    BY DEF ConnInv, ConnTypeOK
  <1>2. (ClosedRevoked /\ CloseRecorded)'
    BY DEF ConnInv, ClosedRevoked, CloseRecorded, KeyClosed
  <1>3. KeyCloseIsFinal'
    BY DEF ConnInv, ConnTypeOK, KeyCloseIsFinal, Follows
  <1> QED BY <1>1, <1>2, <1>3 DEF ConnInv

LEMMA ConnectKeeps ==
  ASSUME ConnInv, NEW c \in Conns, ConnStep(c)
  PROVE  ConnInv'
  <1> USE DEF ConnInv
  <1>1. CASE Take(c) \/ Refuse(c) \/ ReadKey(c)
    <2>1. /\ at' \in [Conns -> Pending \cup {"minted", "open", "refused", "gone"}]
          /\ \A d \in Conns : at'[d] \in {"live", "answered"} =>
               at[d] = at'[d] \/ (at[d] = "checking" /\ Key[d] \notin revoked)
      BY <1>1 DEF Take, Refuse, ReadKey, Moves, ConnTypeOK, Pending
    <2>2. UNCHANGED <<verdict, recorded, stream, appData, closed>>
      BY <1>1 DEF Take, Refuse, ReadKey
    <2>3. ConnTypeOK' /\ ClosedRevoked' /\ KeyCloseIsFinal'
      BY <2>1, <2>2 DEF ConnTypeOK, ClosedRevoked, KeyCloseIsFinal, appData
    <2>4. CloseRecorded'
      BY <2>1, <2>2 DEF CloseRecorded, ClosedRevoked, KeyClosed, appData
    <2> QED BY <2>3, <2>4
  <1>2. CASE Ask(c)
    <2>1. ConnTypeOK'
      BY <1>2 DEF Ask, Moves, ConnTypeOK, Pending, appData
    <2>2. ClosedRevoked' /\ CloseRecorded' /\ KeyCloseIsFinal'
      BY <1>2 DEF Ask, Moves, ConnTypeOK, ClosedRevoked, CloseRecorded, KeyClosed, KeyCloseIsFinal,
                  appData
    <2> QED BY <2>1, <2>2
  <1>3. CASE Open(c)
    <2>1. at' \in [Conns -> Pending \cup {"minted", "open", "refused", "gone"}]
      BY <1>3 DEF Open, ConnTypeOK, Pending
    <2>2. Opened(Admitted(c)) \in Streams
      BY OpenedStream DEF Admitted
    <2>3. stream' \in [Conns -> Streams]
      BY <1>3, <2>2 DEF Open, ConnTypeOK
    <2>4. KeyCloseIsFinal' /\ CloseRecorded' /\ ClosedRevoked'
      BY <1>3 DEF Open, ConnTypeOK, KeyCloseIsFinal, CloseRecorded, ClosedRevoked, KeyClosed, appData
    <2>5. ConnTypeOK'
      BY <1>3, <2>1, <2>3 DEF Open, ConnTypeOK, appData
    <2> QED BY <2>4, <2>5
  <1>4. CASE Leave(c)
    <2>1. CASE stream' = stream
      <3>1. ConnTypeOK'
        BY <1>4, <2>1 DEF Leave, ConnTypeOK, appData, Pending, Streams, Closed
      <3>2. KeyCloseIsFinal' /\ CloseRecorded' /\ ClosedRevoked'
        BY <1>4, <2>1 DEF Leave, ConnTypeOK, KeyCloseIsFinal, CloseRecorded, ClosedRevoked,
                          KeyClosed, appData, Pending
      <3> QED BY <3>1, <3>2
    <2>2. CASE /\ stream' = [stream EXCEPT ![c] = Closed(@)]
               /\ UNCHANGED <<at, verdict, recorded, appData, closed>>
      <3>1. \A d \in Conns : Follows(stream'[d], stream[d])
        BY <2>2, ClosedStream DEF ConnTypeOK, SameAllowed, Follows
      <3>2. stream' \in [Conns -> Streams]
        BY <2>2, ClosedStream DEF ConnTypeOK, SameAllowed, Follows
      <3> QED BY <2>2, <3>1, <3>2, StreamsFollow DEF ConnTypeOK, appData
    <2> QED BY <1>4, <2>1, <2>2 DEF Leave
  <1>5. CASE Stream(c)
    <2>1. \E t \in Streams : stream' = [stream EXCEPT ![c] = t] /\ Follows(t, stream[c])
      BY <1>5, ProducedStream, WrittenStream, WriteFailedStream
         DEF Stream, ConnTypeOK, SameAllowed, Follows
    <2>2. stream' \in [Conns -> Streams] /\ \A d \in Conns : Follows(stream'[d], stream[d])
      BY <2>1 DEF ConnTypeOK, Follows
    <2>3. UNCHANGED <<at, verdict, recorded, appData, closed>>
      BY <1>5 DEF Stream
    <2> QED BY <2>2, <2>3, StreamsFollow DEF ConnTypeOK, appData
  <1> QED BY <1>1, <1>2, <1>3, <1>4, <1>5 DEF ConnStep

(* A change or a close reaches the streams and the admissions of one pod. *)
LEMMA ChangeKeeps ==
  ASSUME ConnInv, NEW p \in Pods, NEW x \in Changes, Change(p, x)
  PROVE  ConnInv'
  <1> USE DEF ConnInv
  <1>1. /\ recorded' \in [Conns -> Seq(Changes \cup {Close})]
        /\ \A c \in Conns : KeyClosed(c) => KeyClosed(c)'
    BY RecordKeeps DEF Change
  <1>2. /\ stream' \in [Conns -> Streams]
        /\ \A c \in Conns : Follows(stream'[c], stream[c])
    BY ChangedStream DEF Change, ConnTypeOK, Follows
  <1>3. UNCHANGED <<at, verdict, appData, closed>>
    BY DEF Change
  <1>4. ConnTypeOK' /\ ClosedRevoked'
    BY <1>1, <1>2, <1>3 DEF ConnTypeOK, ClosedRevoked, appData
  <1>5. CloseRecorded'
    BY <1>1, <1>3 DEF CloseRecorded
  <1>6. KeyCloseIsFinal'
    BY <1>2, <1>3 DEF KeyCloseIsFinal, Follows
  <1> QED BY <1>4, <1>5, <1>6

LEMMA CloseKeeps ==
  ASSUME ConnInv, NEW p \in Pods, NEW k \in revoked, CloseByKey(p, k)
  PROVE  ConnInv'
  <1> USE DEF ConnInv
  <1> DEFINE there == {c \in Conns : Pod[c] = p /\ Key[c] = k}
  <1>1. /\ recorded' \in [Conns -> Seq(Changes \cup {Close})]
        /\ \A c \in Conns : /\ KeyClosed(c) => KeyClosed(c)'
                            /\ c \in there /\ at[c] \in Pending => KeyClosed(c)'
    BY RecordKeeps DEF CloseByKey
  <1>2. /\ stream' \in [Conns -> Streams]
        /\ \A c \in Conns : /\ Follows(stream'[c], stream[c])
                            /\ c \in there => stream'[c].life # "open"
    BY ClosedStream DEF CloseByKey, ConnTypeOK, SameAllowed, Follows
  <1>3. UNCHANGED <<at, verdict, appData>> /\ closed' = [closed EXCEPT ![p] = @ \cup {k}]
    BY DEF CloseByKey
  <1>4. \A c \in Conns : Key[c] \in closed'[Pod[c]] => Key[c] \in closed[Pod[c]] \/ c \in there
    BY <1>3 DEF ConnTypeOK
  <1>5. ConnTypeOK' /\ ClosedRevoked'
    BY <1>1, <1>2, <1>3 DEF ConnTypeOK, ClosedRevoked, appData
  <1>6. CloseRecorded'
    BY <1>1, <1>3, <1>4 DEF CloseRecorded, Pending
  <1>7. KeyCloseIsFinal'
    BY <1>2, <1>4 DEF KeyCloseIsFinal, Follows
  <1> QED BY <1>5, <1>6, <1>7

LEMMA ConnInvStep == ConnInv /\ [ConnNext]_connVars => ConnInv'
  <1> SUFFICES ASSUME ConnInv, [ConnNext]_connVars PROVE ConnInv'
    OBVIOUS
  <1>1. CASE AppData
    <2>1. ConnTypeOK' /\ ClosedRevoked'
      BY <1>1 DEF AppData, ConnInv, ConnTypeOK, ClosedRevoked
    <2>2. CloseRecorded' /\ KeyCloseIsFinal'
      BY <1>1 DEF AppData, ConnInv, CloseRecorded, KeyClosed, KeyCloseIsFinal
    <2> QED BY <2>1, <2>2 DEF ConnInv
  <1>2. ASSUME NEW p \in Pods, Trigger(p) PROVE ConnInv'
    <2>1. /\ stream' \in [Conns -> Streams]
          /\ \A c \in Conns : Follows(stream'[c], stream[c])
      BY <1>2, EmittedStream DEF Trigger, ConnInv, ConnTypeOK, SameAllowed, Follows
    <2> QED BY <1>2, <2>1, StreamsFollow DEF Trigger, ConnInv, ConnTypeOK, appData
  <1>3. CASE UNCHANGED connVars
    BY <1>3 DEF connVars, appData, ConnInv, ConnTypeOK, ClosedRevoked, CloseRecorded, KeyClosed,
                KeyCloseIsFinal
  <1> QED BY <1>1, <1>2, <1>3, ConnectKeeps, ChangeKeeps, CloseKeeps DEF ConnNext

(* Whatever the app does with keys and permissions, as long as it revokes a  *)
(* key before it closes it: once a pod has applied the close, no stream of   *)
(* that key is open on it, and none opens (closeByKey, PendingAdmission).    *)
THEOREM ClosedKeyStaysClosed == ConnSpec => []KeyCloseIsFinal
  <1>1. (\E some \in SUBSET Conns : ConnInit(some)) => ConnInv
    BY ConnInvInit
  <1>2. ConnInv => KeyCloseIsFinal
    BY DEF ConnInv
  <1> QED BY <1>1, <1>2, ConnInvStep, PTL DEF ConnSpec

-----------------------------------------------------------------------------
(* Frames.  In step, an initial or event frame comes only to a client that   *)
(* takes itself to be subscribed, so the last frame tells its view.          *)

ViewAfter(f) == IF f \in {"denied", "revoked"} THEN "off" ELSE "on"

Fits(v, f) ==
    /\ v = "none" => f \in {"subscribed", "denied"}
    /\ v = "off" => f \notin {"initial", "event"}

(* The frames of q, in order, lead a client from view v to view w. *)
Leads(v, q, w) ==
    /\ \A i \in 1 .. Len(q) : Fits(IF i = 1 THEN v ELSE ViewAfter(q[i - 1]), q[i])
    /\ w = IF q = <<>> THEN v ELSE ViewAfter(q[Len(q)])

Subscribed(s) == IF s.allowed THEN "on" ELSE "off"

(* What is written, queued and held leads from what the client has got to    *)
(* what is true; during the initial pass, connected and the initial frames   *)
(* are still to come before what is held.                                    *)
StreamInStep(s) ==
    /\ ~s.astray
    /\ s.writing # "nothing" => Fits(s.view, s.writing)
    /\ s.queue # <<>> => s.writing # "nothing"
    /\ s.life # "open" => s.queue = <<>> /\ ~s.producing
    /\ s.life = "open" /\ s.producing =>
         /\ s.writing = "nothing" /\ s.view = "none" /\ s.queue = <<>>
         /\ Leads("on", s.held, Subscribed(s))
    /\ s.life = "open" /\ ~s.producing =>
         /\ s.held = <<>>
         /\ Leads(IF s.writing = "nothing" THEN s.view ELSE ViewAfter(s.writing),
                  s.queue, Subscribed(s))

LEMMA LeadsEmpty == \A v, w : Leads(v, <<>>, w) <=> w = v
  BY EmptySeq DEF Leads

LEMMA LeadsAppend ==
  ASSUME NEW q \in Seq(Frames), NEW f \in Frames, NEW v, NEW w, Leads(v, q, w), Fits(w, f)
  PROVE  Leads(v, Append(q, f), ViewAfter(f))
  <1> DEFINE n == Len(q)
             r == Append(q, f)
  <1>1. /\ n \in Nat /\ r \in Seq(Frames) /\ Len(r) = n + 1 /\ r[n + 1] = f
        /\ \A i \in 1 .. n : r[i] = q[i]
    BY AppendProperties, LenProperties
  <1>2. q = <<>> <=> n = 0
    BY EmptySeq
  <1>3. r # <<>>
    BY <1>1, EmptySeq
  <1>4. /\ \A i \in 1 .. n : Fits(IF i = 1 THEN v ELSE ViewAfter(q[i - 1]), q[i])
        /\ w = IF n = 0 THEN v ELSE ViewAfter(q[n])
    BY <1>2 DEF Leads
  <1> HIDE DEF n, r
  <1>5. ASSUME NEW i \in 1 .. n + 1
        PROVE  Fits(IF i = 1 THEN v ELSE ViewAfter(r[i - 1]), r[i])
    <2>1. CASE i = n + 1
      <3>1. CASE n = 0
        BY <1>1, <1>4, <2>1, <3>1
      <3>2. CASE n # 0
        <4>1. i # 1 /\ i - 1 = n /\ n \in 1 .. n
          BY <1>1, <2>1, <3>2
        <4> QED BY <1>1, <1>4, <2>1, <3>2, <4>1
      <3> QED BY <3>1, <3>2
    <2>2. CASE i # n + 1
      <3>1. i \in 1 .. n /\ (i # 1 => i - 1 \in 1 .. n)
        BY <1>1, <2>2
      <3> QED BY <1>1, <1>4, <3>1
    <2> QED BY <2>1, <2>2
  <1> QED BY <1>1, <1>3, <1>5 DEF Leads, r

LEMMA LeadsTail ==
  ASSUME NEW q \in Seq(Frames), q # <<>>, NEW v, NEW w, Leads(v, q, w)
  PROVE  /\ Head(q) \in Frames /\ Tail(q) \in Seq(Frames)
         /\ Fits(v, Head(q)) /\ Leads(ViewAfter(Head(q)), Tail(q), w)
  <1> DEFINE n == Len(q)
             t == Tail(q)
  <1>1. /\ n \in Nat \ {0} /\ Head(q) = q[1] /\ t \in Seq(Frames) /\ Head(q) \in Frames
        /\ Len(t) = n - 1 /\ \A i \in 1 .. n - 1 : t[i] = q[i + 1]
    BY HeadTailProperties, EmptySeq, LenProperties
  <1>2. t = <<>> <=> n - 1 = 0
    BY <1>1, EmptySeq
  <1>3. /\ \A i \in 1 .. n : Fits(IF i = 1 THEN v ELSE ViewAfter(q[i - 1]), q[i])
        /\ w = ViewAfter(q[n])
    BY DEF Leads
  <1> HIDE DEF n, t
  <1>4. Fits(v, q[1])
    BY <1>1, <1>3
  <1>5. ASSUME NEW i \in 1 .. n - 1
        PROVE  Fits(IF i = 1 THEN ViewAfter(q[1]) ELSE ViewAfter(t[i - 1]), t[i])
    <2>1. i + 1 \in 1 .. n /\ i + 1 # 1 /\ (i + 1) - 1 = i /\ (i # 1 => i - 1 \in 1 .. n - 1)
      BY <1>1
    <2>2. Fits(ViewAfter(q[i]), q[i + 1])
      BY <1>3, <2>1
    <2>3. i # 1 => t[i - 1] = q[(i - 1) + 1] /\ (i - 1) + 1 = i
      BY <1>1, <2>1
    <2> QED BY <1>1, <2>2, <2>3
  <1>6. w = IF t = <<>> THEN ViewAfter(q[1]) ELSE ViewAfter(t[n - 1])
    <2>1. CASE n = 1
      BY <1>2, <1>3, <2>1
    <2>2. CASE n # 1
      <3>1. n - 1 \in 1 .. n - 1 /\ (n - 1) + 1 = n /\ n - 1 # 0
        BY <1>1, <2>2
      <3> QED BY <1>1, <1>2, <1>3, <3>1
    <2> QED BY <2>1, <2>2
  <1>7. Leads(ViewAfter(Head(q)), t, w)
    BY <1>1, <1>5, <1>6 DEF Leads
  <1> QED BY <1>1, <1>4, <1>7 DEF t

(* Initial frames leave a subscribed client as it is. *)
LEMMA LeadsInitial ==
  ASSUME NEW q \in Seq(Frames), NEW n \in Nat, NEW w, Leads("on", q, w)
  PROVE  Leads("on", [i \in 1 .. n |-> "initial"] \o q, w)
  <1> DEFINE m == Len(q)
             a == [i \in 1 .. n |-> "initial"]
             r == a \o q
  <1>1. /\ a \in Seq(Frames) /\ Len(a) = n /\ \A i \in 1 .. n : a[i] = "initial"
        /\ m \in Nat
    BY IsASeq, LenProperties DEF Frames
  <1> HIDE DEF a
  <1>2. /\ r \in Seq(Frames) /\ Len(r) = n + m
        /\ \A i \in 1 .. n + m : r[i] = IF i <= n THEN a[i] ELSE q[i - n]
    <2>1. /\ r \in Seq(Frames) /\ Len(r) = Len(a) + Len(q)
          /\ \A i \in 1 .. Len(a) + Len(q) : r[i] = IF i <= Len(a) THEN a[i] ELSE q[i - Len(a)]
      BY <1>1, ConcatProperties
    <2> HIDE DEF r
    <2> QED BY <1>1, <2>1
  <1>3. (q = <<>> <=> m = 0) /\ (r = <<>> <=> n + m = 0)
    BY <1>1, <1>2, EmptySeq
  <1>4. /\ \A i \in 1 .. m : Fits(IF i = 1 THEN "on" ELSE ViewAfter(q[i - 1]), q[i])
        /\ w = IF m = 0 THEN "on" ELSE ViewAfter(q[m])
    BY <1>3 DEF Leads
  <1>5. ViewAfter("initial") = "on" /\ Fits("on", "initial")
    BY DEF ViewAfter, Fits
  <1> HIDE DEF m, r
  <1>6. \A i \in 1 .. n + m : IF i <= n THEN r[i] = "initial" ELSE r[i] = q[i - n]
    BY <1>1, <1>2
  <1>7. ASSUME NEW i \in 1 .. n + m
        PROVE  Fits(IF i = 1 THEN "on" ELSE ViewAfter(r[i - 1]), r[i])
    <2>1. i # 1 => i - 1 \in 1 .. n + m
      BY <1>1
    <2>2. CASE i <= n
      <3>1. r[i] = "initial" /\ (i # 1 => r[i - 1] = "initial")
        BY <1>1, <1>6, <2>1, <2>2
      <3> QED BY <1>5, <3>1
    <2>3. CASE i = n + 1
      <3>1. r[i] = q[1] /\ 1 \in 1 .. m
        BY <1>1, <1>6, <2>3
      <3>2. i # 1 => r[i - 1] = "initial"
        BY <1>1, <1>6, <2>1, <2>3
      <3> QED BY <1>4, <1>5, <3>1, <3>2
    <2>4. CASE i > n + 1
      <3>1. i - n \in 1 .. m /\ i - n # 1 /\ i # 1 /\ (i - 1) - n = (i - n) - 1
            /\ ~(i <= n) /\ ~(i - 1 <= n)
        BY <1>1, <2>4
      <3>2. r[i] = q[i - n] /\ r[i - 1] = q[(i - n) - 1]
        BY <1>6, <2>1, <3>1
      <3> QED BY <1>4, <3>1, <3>2
    <2> QED BY <1>1, <2>2, <2>3, <2>4
  <1>8. w = IF r = <<>> THEN "on" ELSE ViewAfter(r[n + m])
    <2>1. CASE m = 0
      <3>1. n # 0 => n + m \in 1 .. n + m /\ n + m <= n
        BY <1>1, <2>1
      <3> QED BY <1>3, <1>4, <1>5, <1>6, <2>1, <3>1
    <2>2. CASE m # 0
      <3>1. n + m \in 1 .. n + m /\ ~(n + m <= n) /\ (n + m) - n = m /\ n + m # 0
        BY <1>1, <2>2
      <3> QED BY <1>3, <1>4, <1>6, <2>2, <3>1
    <2> QED BY <2>1, <2>2
  <1>9. Leads("on", r, w)
    BY <1>2, <1>7, <1>8 DEF Leads
  <1> QED BY <1>9 DEF r, a

-----------------------------------------------------------------------------
(* Streams stay in step, whatever happens to them. *)

LEMMA ClosedInStep ==
  ASSUME NEW s \in Streams, ~s.astray, s.writing # "nothing" => Fits(s.view, s.writing)
  PROVE  StreamInStep(Closed(s))
  BY DEF Closed, Streams, StreamInStep

(* A frame that fits what the client will know by then, and tells what is    *)
(* true from now on, may be sent.                                            *)
LEMMA SendInStep ==
  ASSUME NEW s \in Streams, StreamInStep(s), s.life = "open", NEW b \in BOOLEAN, NEW f \in Frames,
         Fits(Subscribed(s), f), ViewAfter(f) = IF b THEN "on" ELSE "off"
  PROVE  StreamInStep(Send([s EXCEPT !.allowed = b], f))
  <1> DEFINE t == [s EXCEPT !.allowed = b]
  <1>1. /\ t \in Streams /\ t.allowed = b /\ t.life = "open"
        /\ t.held = s.held /\ t.queue = s.queue /\ t.writing = s.writing /\ t.view = s.view
        /\ t.producing = s.producing /\ t.astray = s.astray
    BY DEF Streams
  <1>2. Subscribed(t) = ViewAfter(f) /\ f # "nothing"
    BY <1>1 DEF Subscribed, Frames
  <1> HIDE DEF t
  <1>3. StreamInStep(Closed(t))
    BY <1>1, ClosedInStep DEF StreamInStep
  <1>4. CASE s.producing
    <2>1. /\ s.writing = "nothing" /\ s.view = "none" /\ s.queue = <<>> /\ s.held \in Seq(Frames)
          /\ Leads("on", s.held, Subscribed(s))
      BY <1>4 DEF StreamInStep, Streams
    <2>2. Leads("on", Append(t.held, f), ViewAfter(f))
      BY <1>1, <2>1, LeadsAppend
    <2> DEFINE u == [t EXCEPT !.held = Append(@, f)]
    <2>3. /\ u.held = Append(t.held, f) /\ u.allowed = t.allowed /\ u.life = "open"
          /\ u.queue = s.queue /\ u.writing = s.writing /\ u.view = s.view
          /\ u.producing = s.producing /\ u.astray = s.astray
      BY <1>1 DEF Streams
    <2>4. Subscribed(u) = Subscribed(t)
      BY <2>3 DEF Subscribed
    <2> HIDE DEF u
    <2>5. StreamInStep(u)
      BY <1>2, <1>4, <2>1, <2>2, <2>3, <2>4 DEF StreamInStep
    <2> QED BY <1>1, <1>3, <1>4, <2>5 DEF Send, u, t
  <1>5. CASE ~s.producing
    <2>1. /\ s.held = <<>> /\ s.queue \in Seq(Frames)
          /\ Leads(IF s.writing = "nothing" THEN s.view ELSE ViewAfter(s.writing),
                   s.queue, Subscribed(s))
      BY <1>5 DEF StreamInStep, Streams
    <2>2. CASE s.writing = "nothing"
      <3> DEFINE u == [t EXCEPT !.writing = f]
      <3>1. /\ u.writing = f /\ u.allowed = t.allowed /\ u.life = "open" /\ u.held = s.held
            /\ u.queue = s.queue /\ u.view = s.view
            /\ u.producing = s.producing /\ u.astray = s.astray
        BY <1>1 DEF Streams
      <3>2. Subscribed(u) = Subscribed(t)
        BY <3>1 DEF Subscribed
      <3> HIDE DEF u
      <3>3. s.queue = <<>> /\ s.view = Subscribed(s)
        <4>1. s.queue = <<>>
          BY <2>2 DEF StreamInStep
        <4>2. Leads(s.view, <<>>, Subscribed(s))
          BY <2>1, <2>2, <4>1
        <4> QED BY <4>1, <4>2, LeadsEmpty
      <3>4. Leads(ViewAfter(f), <<>>, Subscribed(u))
        BY <1>2, <3>2, LeadsEmpty
      <3>5. StreamInStep(u)
        BY <1>2, <1>5, <2>1, <3>1, <3>3, <3>4 DEF StreamInStep
      <3> QED BY <1>1, <1>3, <1>5, <2>2, <3>5 DEF Send, Enqueue, u, t
    <2>3. CASE s.writing # "nothing"
      <3> DEFINE u == [t EXCEPT !.queue = Append(@, f)]
      <3>1. /\ u.queue = Append(s.queue, f) /\ u.allowed = t.allowed /\ u.life = "open"
            /\ u.writing = s.writing /\ u.view = s.view /\ u.held = s.held
            /\ u.producing = s.producing /\ u.astray = s.astray
        BY <1>1 DEF Streams
      <3>2. Subscribed(u) = Subscribed(t)
        BY <3>1 DEF Subscribed
      <3> HIDE DEF u
      <3>3. Leads(ViewAfter(s.writing), Append(s.queue, f), ViewAfter(f))
        BY <2>1, <2>3, LeadsAppend
      <3>4. StreamInStep(u)
        BY <1>2, <1>5, <2>1, <2>3, <3>1, <3>2, <3>3 DEF StreamInStep
      <3> QED BY <1>1, <1>3, <1>5, <2>3, <3>4 DEF Send, Enqueue, u, t
    <2> QED BY <2>2, <2>3
  <1> QED BY <1>4, <1>5

LEMMA OpenedInStep == ASSUME NEW b \in BOOLEAN PROVE StreamInStep(Opened(b))
  <1> DEFINE s == [NoStream EXCEPT !.life = "open", !.allowed = b]
             f == IF b THEN "subscribed" ELSE "denied"
             t == [s EXCEPT !.writing = f]
             u == [s EXCEPT !.producing = TRUE]
  <1>1. /\ s.queue = <<>> /\ s.writing = "nothing" /\ Len(s.queue) = 0
        /\ s.life = "open" /\ s.allowed = b /\ s.held = <<>> /\ s.view = "none" /\ ~s.astray
        /\ ~s.producing
    BY EmptySeq DEF NoStream
  <1>2. /\ t.writing = f /\ t.queue = <<>> /\ t.life = "open" /\ t.allowed = b
        /\ t.held = <<>> /\ t.view = "none" /\ ~t.astray /\ ~t.producing
        /\ u.writing = "nothing" /\ u.queue = <<>> /\ u.life = "open" /\ u.allowed = b
        /\ u.held = <<>> /\ u.view = "none" /\ ~u.astray /\ u.producing
    BY DEF NoStream
  <1>3. Fits("none", f) /\ ViewAfter(f) = IF b THEN "on" ELSE "off"
    BY DEF Fits, ViewAfter
  <1>4. f # "nothing"
    OBVIOUS
  <1>5. Enqueue(s, f) = t
    BY <1>1 DEF Enqueue
  <1>6. Opened(b) = IF b /\ Initials # {} THEN u ELSE t
    BY <1>5 DEF Opened
  <1>7. Subscribed(t) = ViewAfter(f) /\ (b => Subscribed(u) = "on")
    BY <1>2, <1>3 DEF Subscribed
  <1> HIDE DEF s, f, t, u
  <1>8. StreamInStep(t)
    BY <1>2, <1>3, <1>4, <1>7, LeadsEmpty DEF StreamInStep
  <1>9. b => StreamInStep(u)
    BY <1>2, <1>7, LeadsEmpty DEF StreamInStep
  <1> QED BY <1>6, <1>8, <1>9

LEMMA ProducedInStep ==
  ASSUME NEW s \in Streams, StreamInStep(s), s.producing, NEW n \in Nat
  PROVE  StreamInStep(Produced(s, n))
  <1> DEFINE connected == [s EXCEPT !.writing = "subscribed"]
             all == [i \in 1 .. n |-> "initial"] \o s.held
             u == [connected EXCEPT !.producing = FALSE, !.held = <<>>, !.queue = all]
  <1>1. s.life = "open" /\ s.view = "none" /\ ~s.astray /\ Leads("on", s.held, Subscribed(s))
    BY DEF StreamInStep
  <1>2. /\ connected \in Streams /\ connected.view = "none" /\ ~connected.astray
        /\ connected.writing = "subscribed"
    BY <1>1 DEF Streams, Frames
  <1>3. Fits("none", "subscribed") /\ ViewAfter("subscribed") = "on"
    BY DEF Fits, ViewAfter
  <1>4. /\ u.life = "open" /\ u.view = "none" /\ ~u.astray /\ u.writing = "subscribed"
        /\ u.held = <<>> /\ u.queue = all /\ ~u.producing /\ u.allowed = s.allowed
    BY <1>1 DEF Streams
  <1>5. Leads("on", all, Subscribed(s))
    BY <1>1, LeadsInitial DEF Streams
  <1>6. Subscribed(u) = Subscribed(s)
    BY <1>4 DEF Subscribed
  <1>7. StreamInStep(Closed(s))
    BY <1>1, ClosedInStep DEF StreamInStep
  <1>8. StreamInStep(Closed(connected))
    BY <1>2, <1>3, ClosedInStep
  <1>9. Produced(s, n) \in {Closed(s), Closed(connected), u}
    BY DEF Produced
  <1> HIDE DEF u, all
  <1>10. StreamInStep(u)
    BY <1>3, <1>4, <1>5, <1>6 DEF StreamInStep
  <1> HIDE DEF connected
  <1> QED BY <1>7, <1>8, <1>9, <1>10

LEMMA WrittenInStep ==
  ASSUME NEW s \in Streams, StreamInStep(s), s.writing # "nothing"
  PROVE  StreamInStep(Written(s))
  <1> DEFINE f == s.writing
             u == Written(s)
  <1>1. /\ Fits(s.view, f) /\ f \in Frames /\ ~s.astray /\ s.queue \in Seq(Frames)
        /\ s.view \in {"none", "on", "off"}
    BY DEF StreamInStep, Streams
  <1>2. /\ u.life = s.life /\ u.held = s.held /\ u.producing = s.producing /\ u.allowed = s.allowed
        /\ u.writing = IF s.queue = <<>> THEN "nothing" ELSE Head(s.queue)
        /\ u.queue = IF s.queue = <<>> THEN <<>> ELSE Tail(s.queue)
    BY DEF Written, Streams
  <1>3. u.view = ViewAfter(f)
    BY <1>1 DEF Written, Streams, Frames, Fits, ViewAfter
  <1>4. ~u.astray
    BY <1>1 DEF Written, Streams, Frames, Fits
  <1>5. Subscribed(u) = Subscribed(s)
    BY <1>2 DEF Subscribed
  <1>6. s.life = "open" => ~s.producing /\ s.held = <<>> /\ Leads(ViewAfter(f), s.queue, Subscribed(s))
    BY DEF StreamInStep
  <1>7. s.life # "open" => s.queue = <<>> /\ ~s.producing
    BY DEF StreamInStep
  <1> HIDE DEF u, f
  <1>8. ASSUME s.queue = <<>> PROVE StreamInStep(u)
    BY <1>2, <1>3, <1>4, <1>5, <1>6, <1>7, <1>8 DEF StreamInStep
  <1>9. ASSUME s.queue # <<>> PROVE StreamInStep(u)
    <2>1. /\ Head(s.queue) \in Frames /\ Fits(ViewAfter(f), Head(s.queue))
          /\ Leads(ViewAfter(Head(s.queue)), Tail(s.queue), Subscribed(s))
      BY <1>1, <1>6, <1>7, <1>9, LeadsTail
    <2>2. Head(s.queue) # "nothing"
      BY <2>1 DEF Frames
    <2> QED BY <1>2, <1>3, <1>4, <1>5, <1>6, <1>7, <1>9, <2>1, <2>2 DEF StreamInStep
  <1> QED BY <1>8, <1>9 DEF u

LEMMA WriteFailedInStep ==
  ASSUME NEW s \in Streams, StreamInStep(s)
  PROVE  StreamInStep(WriteFailed(s))
  BY DEF WriteFailed, Closed, Streams, StreamInStep

LEMMA ChangedInStep ==
  ASSUME NEW s \in Streams, StreamInStep(s), s.life = "open"
  PROVE  StreamInStep(Granted(s)) /\ StreamInStep(Revoked(s)) /\ StreamInStep(Emitted(s))
  <1>1. /\ "granted" \in Frames /\ "revoked" \in Frames /\ "event" \in Frames
        /\ s.allowed \in BOOLEAN
    BY DEF Frames, Streams
  <1>2. CASE s.allowed
    <2>1. Subscribed(s) = "on" /\ s = [s EXCEPT !.allowed = TRUE]
      BY <1>2 DEF Subscribed, Streams
    <2>2. /\ Fits("on", "revoked") /\ ViewAfter("revoked") = "off"
          /\ Fits("on", "event") /\ ViewAfter("event") = "on"
      BY DEF Fits, ViewAfter
    <2>3. StreamInStep(Send([s EXCEPT !.allowed = FALSE], "revoked"))
      BY <1>1, <2>1, <2>2, SendInStep
    <2>4. StreamInStep(Send([s EXCEPT !.allowed = TRUE], "event"))
      BY <1>1, <2>1, <2>2, SendInStep
    <2> QED BY <1>2, <2>1, <2>3, <2>4 DEF Granted, Revoked, Emitted
  <1>3. CASE ~s.allowed
    <2>1. Subscribed(s) = "off" /\ Fits("off", "granted") /\ ViewAfter("granted") = "on"
      BY <1>3 DEF Subscribed, Fits, ViewAfter
    <2>2. StreamInStep(Send([s EXCEPT !.allowed = TRUE], "granted"))
      BY <1>1, <2>1, SendInStep
    <2> QED BY <1>3, <2>2 DEF Granted, Revoked, Emitted
  <1> QED BY <1>2, <1>3

(* Every stream in step, in a state of the connections' invariant. *)
StreamsInv == ConnInv /\ \A c \in Conns : StreamInStep(stream[c])

LEMMA NoStreamInStep == StreamInStep(NoStream)
  BY DEF NoStream, StreamInStep

LEMMA StreamsInvStep ==
  ASSUME StreamsInv, [ConnNext]_connVars
  PROVE  StreamsInv'
  <1>0. ConnInv' /\ stream \in [Conns -> Streams] /\ \A c \in Conns : StreamInStep(stream[c])
    BY ConnInvStep DEF StreamsInv, ConnInv, ConnTypeOK
  <1> SUFFICES \A c \in Conns : StreamInStep(stream'[c])
    BY <1>0 DEF StreamsInv
  <1>1. CASE stream' = stream
    BY <1>0, <1>1
  <1>2. ASSUME NEW c \in Conns, ConnStep(c), stream' # stream
        PROVE  \A d \in Conns : StreamInStep(stream'[d])
    <2>1. CASE Open(c)
      <3>1. stream' = [stream EXCEPT ![c] = Opened(Admitted(c))]
        BY <1>2, <2>1 DEF Open
      <3>2. StreamInStep(Opened(Admitted(c)))
        BY OpenedInStep DEF Admitted
      <3> QED BY <1>0, <3>1, <3>2
    <2>2. CASE Leave(c)
      <3>1. stream' = [stream EXCEPT ![c] = Closed(stream[c])]
        BY <1>2, <2>2 DEF Leave
      <3>2. StreamInStep(Closed(stream[c]))
        BY <1>0, ClosedInStep DEF StreamInStep
      <3> QED BY <1>0, <3>1, <3>2
    <2>3. CASE Stream(c)
      <3>1. PICK t : /\ stream' = [stream EXCEPT ![c] = t]
                     /\ \/ /\ stream[c].producing
                           /\ \E n \in Initials \cup {0} : t = Produced(stream[c], n)
                        \/ stream[c].writing # "nothing" /\ t = Written(stream[c])
                        \/ t = WriteFailed(stream[c])
        BY <2>3 DEF Stream
      <3>2. StreamInStep(t)
        <4>1. Initials \cup {0} \subseteq Nat
          BY StreamAssumption
        <4> QED BY <1>0, <3>1, <4>1, ProducedInStep, WrittenInStep, WriteFailedInStep
      <3> QED BY <1>0, <3>1, <3>2
    <2> QED BY <1>2, <2>1, <2>2, <2>3 DEF ConnStep, Take, Refuse, ReadKey, Ask
  <1>3. ASSUME NEW p \in Pods, NEW x \in Changes, Change(p, x)
        PROVE  \A d \in Conns : StreamInStep(stream'[d])
    BY <1>0, <1>3, ChangedInStep DEF Change
  <1>4. ASSUME NEW p \in Pods, NEW k, CloseByKey(p, k)
        PROVE  \A d \in Conns : StreamInStep(stream'[d])
    <2>1. \A d \in Conns : StreamInStep(Closed(stream[d]))
      BY <1>0, ClosedInStep DEF StreamInStep
    <2> QED BY <1>0, <1>4, <2>1 DEF CloseByKey
  <1>5. ASSUME NEW p \in Pods, Trigger(p)
        PROVE  \A d \in Conns : StreamInStep(stream'[d])
    <2>1. \A d \in Conns : StreamInStep(Emitted(stream[d]))
      <3> TAKE d \in Conns
      <3>1. CASE stream[d].life = "open"
        BY <1>0, <3>1, ChangedInStep
      <3>2. CASE stream[d].life # "open"
        BY <1>0, <3>2 DEF Emitted
      <3> QED BY <3>1, <3>2
    <2> QED BY <1>0, <1>5, <2>1 DEF Trigger
  <1>6. CASE AppData \/ UNCHANGED connVars
    BY <1>1, <1>6 DEF AppData, connVars
  <1> QED BY <1>1, <1>2, <1>3, <1>4, <1>5, <1>6 DEF ConnNext

(* Whatever is granted, revoked, triggered and closed, and however slow the  *)
(* client, its producer or the writer: no frame of the event reaches a       *)
(* client that does not take itself to be subscribed, and one that has read  *)
(* everything knows what is true (frame hold, bounded writer, grantOn).      *)
THEOREM FramesStayInStep == ConnSpec => []FramesInStep
  <1>1. (\E some \in SUBSET Conns : ConnInit(some)) => StreamsInv
    <2> SUFFICES ASSUME NEW some \in SUBSET Conns, ConnInit(some) PROVE StreamsInv
      OBVIOUS
    <2>1. \A c \in Conns : stream[c] = NoStream
      BY DEF ConnInit
    <2> QED BY <2>1, ConnInvInit, NoStreamInStep DEF StreamsInv
  <1>2. StreamsInv /\ [ConnNext]_connVars => StreamsInv'
    BY StreamsInvStep
  <1>3. ASSUME StreamsInv PROVE FramesInStep
    <2> SUFFICES ASSUME NEW c \in Conns
                 PROVE  /\ ~stream[c].astray
                        /\ Drained(stream[c]) => stream[c].view = Subscribed(stream[c])
      BY DEF FramesInStep, Subscribed
    <2>1. StreamInStep(stream[c])
      BY <1>3 DEF StreamsInv
    <2>2. ASSUME Drained(stream[c]) PROVE stream[c].view = Subscribed(stream[c])
      <3>1. stream[c].queue = <<>>
        BY <2>1, <2>2 DEF StreamInStep, Drained
      <3>2. Leads(stream[c].view, <<>>, Subscribed(stream[c]))
        BY <2>1, <2>2, <3>1 DEF StreamInStep, Drained
      <3> QED BY <3>2, LeadsEmpty
    <2> QED BY <2>1, <2>2 DEF StreamInStep
  <1> QED BY <1>1, <1>2, <1>3, PTL DEF ConnSpec
=============================================================================
