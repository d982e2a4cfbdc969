------------------------ MODULE EventStreams_proofs ------------------------
(***************************************************************************)
(* What EventStreams promises for any number of pods, keys, connections,   *)
(* operations and faults: what is in transit, that the composition         *)
(* implements SseConnections, and that streams follow what the app stores. *)
(***************************************************************************)
EXTENDS EventStreams, SseConnections_proofs

USE TransportAssumption, OperationAssumption

-----------------------------------------------------------------------------
(* Outboxes and inboxes hold only messages that were published.  M is what   *)
(* may have been published by now: all messages, for the types.              *)

OutboxOf(M) == [
    breaker  : {"closed", "open", "cooled"},
    flight   : Seq(M),
    pending  : Seq(M \cap KeyCloses),
    timer    : BOOLEAN,
    flushing : BOOLEAN,
    snapshot : Seq(M \cap KeyCloses),
    resent   : KeyCloses \cup {None},
    disposed : BOOLEAN,
    dropped  : SUBSET KeyCloses]

Bounded(o) == Len(o.pending) <= Cap

TransitOf(M) ==
    /\ outbox \in [Processes -> OutboxOf(M)]
    /\ \A p \in Processes : Bounded(outbox[p])
    /\ inbox \in [Processes -> Seq(M)]
    /\ linked \subseteq Processes
    /\ missed \in [Processes -> SUBSET KeyCloses]
    /\ faults \in 0 .. MaxFaults

LEMMA WithoutSeq ==
  ASSUME NEW S, NEW q \in Seq(S), NEW m
  PROVE  Without(q, m) \in Seq(S) /\ Len(Without(q, m)) <= Len(q)
  <1>1. CASE m \in ToSet(q)
    <2> DEFINE k == CHOOSE i \in DOMAIN q : q[i] = m
               l == SubSeq(q, 1, k - 1)
               r == SubSeq(q, k + 1, Len(q))
    <2>1. k \in 1 .. Len(q)
      BY <1>1, LenProperties DEF ToSet
    <2>2. Without(q, m) = l \o r
      BY <1>1 DEF Without, RemoveAt
    <2> HIDE DEF k
    <2>3. l \in Seq(S) /\ Len(l) = k - 1
      BY <2>1, LenProperties, ElementOfSeq, SubSeqProperties
    <2>4. r \in Seq(S) /\ Len(r) = Len(q) - k
      BY <2>1, LenProperties, ElementOfSeq, SubSeqProperties
    <2>5. l \o r \in Seq(S) /\ Len(l \o r) = Len(l) + Len(r)
      BY <2>3, <2>4, ConcatProperties
    <2>6. Len(q) \in Nat
      BY LenProperties
    <2> HIDE DEF l, r
    <2> QED BY <2>1, <2>2, <2>3, <2>4, <2>5, <2>6
  <1>2. CASE m \notin ToSet(q)
    BY <1>2, LenProperties DEF Without
  <1> QED BY <1>1, <1>2

LEMMA DeferOver ==
  ASSUME NEW M, NEW o \in OutboxOf(M), Bounded(o), NEW m \in M
  PROVE  /\ Defer(o, m) \in OutboxOf(M) /\ Bounded(Defer(o, m))
         /\ Defer(o, m).flight = o.flight /\ Defer(o, m).snapshot = o.snapshot
  <1> DEFINE kept == Append(Without(o.pending, m), m)
  <1>1. ASSUME m \in KeyCloses
        PROVE  /\ kept \in Seq(M \cap KeyCloses) /\ Len(kept) <= Cap + 1 /\ kept # <<>>
               /\ Head(kept) \in KeyCloses /\ Tail(kept) \in Seq(M \cap KeyCloses)
               /\ Len(Tail(kept)) = Len(kept) - 1
    <2>1. o.pending \in Seq(M \cap KeyCloses)
      BY DEF OutboxOf
    <2>2. /\ Without(o.pending, m) \in Seq(M \cap KeyCloses)
          /\ Len(Without(o.pending, m)) <= Len(o.pending)
      BY <2>1, WithoutSeq
    <2>3. /\ kept \in Seq(M \cap KeyCloses) /\ Len(kept) = Len(Without(o.pending, m)) + 1
          /\ kept # <<>>
      BY <1>1, <2>2, AppendProperties, LenProperties
    <2>4. Head(kept) \in KeyCloses /\ Tail(kept) \in Seq(M \cap KeyCloses)
          /\ Len(Tail(kept)) = Len(kept) - 1
      BY <2>3, HeadTailProperties
    <2> QED BY <2>1, <2>2, <2>3, <2>4, LenProperties DEF Bounded
  <1> HIDE DEF kept
  <1>2. CASE m \notin KeyCloses
    BY <1>2 DEF Defer
  <1>3. CASE m \in KeyCloses /\ o.disposed
    BY <1>3 DEF Defer, OutboxOf, Bounded
  <1>4. CASE m \in KeyCloses /\ ~o.disposed /\ Len(kept) <= Cap
    BY <1>1, <1>4 DEF Defer, OutboxOf, Bounded, kept
  <1>5. CASE m \in KeyCloses /\ ~o.disposed /\ ~(Len(kept) <= Cap)
    <2>1. Len(kept) \in Nat
      BY <1>1, <1>5, LenProperties
    <2> DEFINE t == [o EXCEPT !.pending = Tail(kept), !.timer = TRUE,
                              !.dropped = @ \cup {Head(kept)}]
    <2>2. Defer(o, m) = t
      BY <1>5 DEF Defer, kept
    <2>3. t \in OutboxOf(M) /\ t.pending = Tail(kept)
      BY <1>1, <1>5 DEF OutboxOf
    <2>4. Len(Tail(kept)) <= Cap
      BY <1>1, <1>5, <2>1
    <2> QED BY <2>2, <2>3, <2>4 DEF Bounded, OutboxOf
  <1> QED BY <1>2, <1>3, <1>4, <1>5

LEMMA FlushOverM ==
  ASSUME NEW M, NEW o \in OutboxOf(M), Bounded(o)
  PROVE  Flush(o) \in OutboxOf(M) /\ Bounded(Flush(o))
  <1>1. CASE o.flushing \/ o.pending = <<>>
    BY <1>1 DEF Flush
  <1>2. CASE ~(o.flushing \/ o.pending = <<>>)
    <2>1. Flush(o) \in OutboxOf(M) /\ Flush(o).pending = <<>>
      BY <1>2, EmptySeq DEF Flush, OutboxOf
    <2> QED BY <2>1, EmptySeq DEF Bounded
  <1> QED BY <1>1, <1>2

LEMMA SettledOver ==
  ASSUME NEW M, NEW o \in OutboxOf(M), Bounded(o), o.flight # <<>>
  PROVE  Settled(o) \in OutboxOf(M) /\ Bounded(Settled(o)) /\ Head(o.flight) \in M
  BY HeadTailProperties DEF Settled, OutboxOf, Bounded

(* A pod publishes something. *)
LEMMA SkipOver ==
  ASSUME NEW M, TransitOf(M), NEW p \in Processes, NEW o \in OutboxOf(M), Bounded(o),
         NEW m \in M, Skip(p, o, m)
  PROVE  TransitOf(M)'
  <1>1. Defer(o, m) \in OutboxOf(M) /\ Bounded(Defer(o, m))
    BY DeferOver
  <1> QED BY <1>1 DEF Skip, TransitOf, Fault

LEMMA DispatchOver ==
  ASSUME NEW M, TransitOf(M), NEW p \in Processes, NEW o \in OutboxOf(M), Bounded(o),
         NEW m \in M, Dispatch(p, o, m)
  PROVE  TransitOf(M)'
  <1>1. Append(o.flight, m) \in Seq(M)
    BY AppendProperties DEF OutboxOf
  <1> QED BY <1>1 DEF Dispatch, TransitOf, OutboxOf, Bounded

LEMMA PublishOver ==
  ASSUME NEW M, TransitOf(M), NEW p \in Processes, NEW m \in M, Publish(p, m)
  PROVE  TransitOf(M)'
  BY SkipOver, DispatchOver DEF Publish, TransitOf

LEMMA HandOutOver ==
  ASSUME NEW M, TransitOf(M), NEW m \in M, HandOut(m)
  PROVE  inbox' \in [Processes -> Seq(M)]
  BY AppendProperties DEF HandOut, TransitOf

LEMMA BroadcastOver ==
  ASSUME NEW M, TransitOf(M), NEW m \in M, Broadcast(m)
  PROVE  inbox' \in [Processes -> Seq(M)] /\ missed' \in [Processes -> SUBSET KeyCloses]
  BY HandOutOver DEF Broadcast, TransitOf

LEMMA AnswerOver ==
  ASSUME NEW M, TransitOf(M), NEW p \in Processes, Succeeds(p) \/ Fails(p)
  PROVE  TransitOf(M)'
  <1> DEFINE o == outbox[p]
  <1>1. /\ o \in OutboxOf(M) /\ Bounded(o) /\ o.flight # <<>>
        /\ Settled(o) \in OutboxOf(M) /\ Bounded(Settled(o)) /\ Head(o.flight) \in M
    BY SettledOver DEF TransitOf, Succeeds, Fails
  <1>2. CASE Succeeds(p)
    <2> DEFINE t == Flush([Settled(o) EXCEPT !.breaker = "closed"])
    <2>1. t \in OutboxOf(M) /\ Bounded(t)
      <3>1. /\ [Settled(o) EXCEPT !.breaker = "closed"] \in OutboxOf(M)
            /\ Bounded([Settled(o) EXCEPT !.breaker = "closed"])
        BY <1>1 DEF OutboxOf, Bounded
      <3> QED BY <3>1, FlushOverM
    <2> QED BY <1>1, <1>2, <2>1, BroadcastOver DEF Succeeds, TransitOf
  <1>3. CASE Fails(p)
    <2> DEFINE t == Defer([Settled(o) EXCEPT !.breaker = "open"], Head(o.flight))
    <2>1. t \in OutboxOf(M) /\ Bounded(t)
      <3>1. /\ [Settled(o) EXCEPT !.breaker = "open"] \in OutboxOf(M)
            /\ Bounded([Settled(o) EXCEPT !.breaker = "open"])
        BY <1>1 DEF OutboxOf, Bounded
      <3> QED BY <1>1, <3>1, DeferOver
    <2>2. outbox' = [outbox EXCEPT ![p] = t] /\ UNCHANGED linked /\ faults' \in 0 .. MaxFaults
      BY <1>3 DEF Fails, Fault, TransitOf
    <2>3. inbox' \in [Processes -> Seq(M)] /\ missed' \in [Processes -> SUBSET KeyCloses]
      <3>1. Head(o.flight) \in M /\ missed' = missed
            /\ (HandOut(Head(o.flight)) \/ inbox' = inbox)
        BY <1>1, <1>3 DEF Fails
      <3>2. CASE HandOut(Head(o.flight))
        BY <3>1, <3>2, HandOutOver DEF TransitOf
      <3>3. CASE inbox' = inbox
        BY <3>1, <3>3 DEF TransitOf
      <3> QED BY <3>1, <3>2, <3>3
    <2> QED BY <2>1, <2>2, <2>3 DEF TransitOf
  <1> QED BY <1>2, <1>3

LEMMA FlushStepOver ==
  ASSUME NEW M, TransitOf(M), NEW p \in Processes, FlushStep(p) \/ Cool(p)
  PROVE  TransitOf(M)'
  <1> DEFINE o == outbox[p]
  <1>1. o \in OutboxOf(M) /\ Bounded(o)
    BY DEF TransitOf
  <1>2. ASSUME NEW t \in OutboxOf(M), Bounded(t), Acts(p, t) PROVE TransitOf(M)'
    BY <1>2 DEF Acts, TransitOf
  <1>3. CASE TimerFires(p)
    <2>1. [o EXCEPT !.timer = FALSE] \in OutboxOf(M) /\ Bounded([o EXCEPT !.timer = FALSE])
      BY <1>1 DEF OutboxOf, Bounded
    <2> QED BY <1>2, <1>3, <2>1, FlushOverM DEF TimerFires
  <1>4. CASE Resend(p)
    <2> DEFINE t == [o EXCEPT !.snapshot = Tail(@)]
               m == Head(o.snapshot)
    <2>1. /\ t \in OutboxOf(M) /\ Bounded(t) /\ m \in M /\ m \in KeyCloses
          /\ [t EXCEPT !.resent = m] \in OutboxOf(M) /\ Bounded([t EXCEPT !.resent = m])
      <3>1. o.snapshot \in Seq(M \cap KeyCloses) /\ o.snapshot # <<>>
        BY <1>1, <1>4 DEF Resend, OutboxOf
      <3>2. m \in M \cap KeyCloses /\ Tail(o.snapshot) \in Seq(M \cap KeyCloses)
        BY <3>1, HeadTailProperties
      <3> QED BY <1>1, <3>2 DEF OutboxOf, Bounded
    <2>2. Skip(p, t, m) \/ Dispatch(p, [t EXCEPT !.resent = m], m)
      BY <1>4 DEF Resend
    <2> HIDE DEF t, m
    <2> QED BY <2>1, <2>2, SkipOver, DispatchOver
  <1>5. CASE FlushEnds(p)
    <2> DEFINE t == [o EXCEPT !.flushing = FALSE, !.timer = o.pending # <<>>]
    <2>1. t \in OutboxOf(M) /\ Bounded(t)
      BY <1>1 DEF OutboxOf, Bounded
    <2> QED BY <1>2, <1>5, <2>1 DEF FlushEnds
  <1>6. CASE Cool(p)
    <2>1. [o EXCEPT !.breaker = "cooled"] \in OutboxOf(M) /\ Bounded([o EXCEPT !.breaker = "cooled"])
      BY <1>1 DEF OutboxOf, Bounded
    <2> QED BY <1>2, <1>6, <2>1 DEF Cool
  <1> QED BY <1>3, <1>4, <1>5, <1>6 DEF FlushStep

LEMMA FaultOver ==
  ASSUME NEW M, TransitOf(M), NEW p \in Processes, TransportFault(p)
  PROVE  TransitOf(M)'
  <1>1. CASE Unlink(p)
    BY <1>1, EmptySeq DEF Unlink, LoseInbox, Fault, TransitOf
  <1>2. CASE Relink(p)
    BY <1>2 DEF Relink, TransitOf
  <1>3. CASE Dispose(p)
    <2>1. outbox[p] \in OutboxOf(M) /\ ToSet(outbox[p].pending) \subseteq KeyCloses
      BY ElementOfSeq, LenProperties DEF TransitOf, OutboxOf, ToSet
    <2>2. [outbox[p] EXCEPT !.disposed = TRUE, !.timer = FALSE, !.pending = <<>>,
                            !.dropped = @ \cup ToSet(outbox[p].pending)] \in OutboxOf(M)
      BY <2>1, EmptySeq DEF OutboxOf
    <2> QED BY <1>3, <2>2, EmptySeq DEF Dispose, LoseInbox, Fault, TransitOf, Bounded
  <1> QED BY <1>1, <1>2, <1>3 DEF TransportFault

-----------------------------------------------------------------------------
(* The composition. *)

(* What may be on its way: closes of revoked keys, changes that were stored. *)
Posted == {m \in Messages : /\ m \in Keys => m \in revoked
                            /\ m \in Changes => m \in ToSet(decided)}

Typed ==
    /\ ConnTypeOK /\ TransitOf(Posted)
    /\ todo \subseteq Messages
    /\ decided \in Seq(Changes)
    /\ applied \in [Pods -> Seq(Changes)]

LEMMA TransitMonotone ==
  ASSUME NEW M, NEW N, M \subseteq N, TransitOf(M)
  PROVE  TransitOf(N)
  <1>1. OutboxOf(M) \subseteq OutboxOf(N) /\ Seq(M) \subseteq Seq(N)
    BY SeqMonotonic DEF OutboxOf
  <1> QED BY <1>1 DEF TransitOf

LEMMA TypedIsTypeOK == Typed => TypeOK
  <1>1. OutboxOf(Messages) = Outboxes
    <2>1. Messages \cap KeyCloses = KeyCloses
      OBVIOUS
    <2> QED BY <2>1 DEF OutboxOf, Outboxes
  <1>2. Posted \subseteq Messages
    BY DEF Posted
  <1> QED BY <1>1, <1>2, TransitMonotone DEF Typed, TypeOK, TransportTypeOK, TransitOf, Bounded

LEMMA ToSetAppend ==
  ASSUME NEW S, NEW q \in Seq(S), NEW x \in S
  PROVE  ToSet(Append(q, x)) = ToSet(q) \cup {x}
  <1>1. /\ DOMAIN Append(q, x) = 1 .. Len(q) + 1 /\ DOMAIN q = 1 .. Len(q) /\ Len(q) \in Nat
        /\ Append(q, x)[Len(q) + 1] = x
        /\ \A i \in 1 .. Len(q) : Append(q, x)[i] = q[i]
    BY AppendProperties, LenProperties
  <1> QED BY <1>1 DEF ToSet

(* What was posted stays posted. *)
LEMMA PostedGrows ==
  ASSUME Typed, [Next]_vars
  PROVE  Posted \subseteq Posted'
  <1> USE DEF Typed, ConnTypeOK
  <1>1. CASE \E k \in Keys : RevokeKey(k)
    BY <1>1 DEF RevokeKey, Posted, history
  <1>2. CASE \E x \in Changes : Decide(x)
    <2>1. ToSet(decided) \subseteq ToSet(decided')
      BY <1>2, ToSetAppend DEF Decide
    <2> QED BY <1>2, <2>1 DEF Decide, Posted
  <1>3. CASE ~((\E k \in Keys : RevokeKey(k)) \/ (\E x \in Changes : Decide(x)))
    <2>1. UNCHANGED <<revoked, decided>>
      <3>1. CASE \E k \in Keys : CloseStreams(k)
        BY <3>1 DEF CloseStreams, CloseByKey, appData, history
      <3>2. CASE \E x \in Changes : ChangeEverywhere(x)
        BY <3>2 DEF ChangeEverywhere, ApplyAt, Change, appData
      <3>3. CASE \E e \in Emits : Emit(e)
        BY <3>3 DEF Emit, Trigger, connVars, appData, history
      <3>4. CASE \E p \in Pods : Answered(p)
        BY <3>4 DEF Answered, DeliverLocal, Trigger, connVars, appData, history
      <3>5. CASE \E p \in Pods : Deliver(p)
        BY <3>5 DEF Deliver, Trigger, CloseByKey, ApplyAt, Change, connVars, appData
      <3>6. CASE \/ \E p \in Pods : \/ Cool(p) /\ UNCHANGED <<connVars, todo, history>>
                                    \/ Flushes(p)
                                    \/ TransportFault(p) /\ UNCHANGED <<connVars, todo, history>>
                 \/ UNCHANGED vars
        BY <3>6 DEF Flushes, vars, connVars, appData, history
      <3>7. CASE \E c \in Conns : ConnStep(c) /\ UNCHANGED <<transportVars, todo, history>>
        BY <3>7 DEF ConnStep, Take, Refuse, ReadKey, Ask, Open, Leave, Stream, appData, history
      <3> QED BY <1>3, <3>1, <3>2, <3>3, <3>4, <3>5, <3>6, <3>7 DEF Next, Progress
    <2> QED BY <2>1 DEF Posted
  <1> QED BY <1>1, <1>2, <1>3

(* Every step of the whole is a step of the connections, or none of theirs:  *)
(* only closes of revoked keys are delivered.                                *)
LEMMA StepComposes ==
  ASSUME Typed, [Next]_vars
  PROVE  [ConnNext]_connVars
  <1> USE DEF Typed, ConnTypeOK
  <1>1. CASE \E k \in Keys : RevokeKey(k)
    BY <1>1 DEF RevokeKey, ConnNext, AppData
  <1>2. CASE \E x \in Changes : Decide(x)
    <2>1. PICK x \in Changes : Decide(x)
      BY <1>2
    <2>2. allows' \in SUBSET Conns
      <3>1. Reach[x] \subseteq Conns /\ allows \subseteq Conns
        BY ConnectionAssumption
      <3> QED BY <2>1, <3>1 DEF Decide
    <2>3. UNCHANGED <<at, verdict, recorded, stream, revoked, closed>>
      BY <2>1 DEF Decide
    <2> QED BY <2>2, <2>3 DEF ConnNext, AppData
  <1>3. CASE \E k \in Keys : CloseStreams(k)
    BY <1>3 DEF CloseStreams, ConnNext
  <1>4. CASE \E x \in Changes : ChangeEverywhere(x)
    BY <1>4 DEF ChangeEverywhere, ApplyAt, ConnNext
  <1>5. CASE \E e \in Emits : Emit(e)
    BY <1>5 DEF Emit, ConnNext
  <1>6. CASE \E p \in Pods : Answered(p)
    BY <1>6 DEF Answered, DeliverLocal, ConnNext
  <1>7. CASE \E p \in Pods : Deliver(p)
    <2>1. PICK p \in Pods : Deliver(p)
      BY <1>7
    <2>2. inbox[p] # <<>> /\ inbox[p] \in Seq(Posted)
      BY <2>1 DEF Deliver, TransitOf
    <2>3. Head(inbox[p]) \in Posted
      BY <2>2, HeadTailProperties
    <2>4. Head(inbox[p]) \in Keys => Head(inbox[p]) \in revoked
      BY <2>3 DEF Posted
    <2> QED BY <2>1, <2>4 DEF Deliver, ApplyAt, ConnNext
  <1>8. CASE \/ \E p \in Pods : \/ Cool(p) /\ UNCHANGED <<connVars, todo, history>>
                                \/ Flushes(p)
                                \/ TransportFault(p) /\ UNCHANGED <<connVars, todo, history>>
             \/ UNCHANGED vars
    BY <1>8 DEF Flushes, vars
  <1>9. CASE \E c \in Conns : ConnStep(c)
    BY <1>9 DEF ConnNext
  <1> QED BY <1>1, <1>2, <1>3, <1>4, <1>5, <1>6, <1>7, <1>8, <1>9 DEF Next, Progress

-----------------------------------------------------------------------------
(* Every reachable state is typed. *)

LEMMA TypedInit == Init => Typed
  <1> SUFFICES ASSUME Init PROVE Typed
    OBVIOUS
  <1>1. PICK s \in Scenarios :
          /\ ConnInit(s.some \cap Conns) /\ todo = s.some \cap Messages
          /\ TransportInit(MaxFaults - s.faults)
    BY DEF Init
  <1>2. s.some \subseteq Conns \cup Messages /\ MaxFaults - s.faults \in 0 .. MaxFaults
    OBVIOUS
  <1>3. ConnTypeOK
    BY <1>1, ConnInvInit DEF ConnInv
  <1>4. TransitOf(Posted)
    <2> DEFINE o == [breaker |-> "closed", flight |-> <<>>, pending |-> <<>>, timer |-> FALSE,
                     flushing |-> FALSE, snapshot |-> <<>>, resent |-> None,
                     disposed |-> FALSE, dropped |-> {}]
    <2>1. o \in OutboxOf(Posted) /\ Bounded(o)
      BY EmptySeq DEF OutboxOf, Bounded
    <2> HIDE DEF o
    <2>2. outbox = [p \in Processes |-> o]
      BY <1>1 DEF TransportInit, o
    <2> QED BY <1>1, <1>2, <2>1, <2>2, EmptySeq DEF TransportInit, TransitOf
  <1> QED BY <1>1, <1>3, <1>4, EmptySeq DEF Init, Typed

(* One step leaves only what was posted on its way. *)
LEMMA TransitStep ==
  ASSUME Typed, [Next]_vars
  PROVE  TransitOf(Posted)'
  <1>1. PICK M : M = Posted'
    OBVIOUS
  <1>2. TransitOf(M)
    BY <1>1, PostedGrows, TransitMonotone DEF Typed
  <1>3. SUFFICES TransitOf(M)'
    BY <1>1 DEF TransitOf, OutboxOf
  <1>4. ASSUME UNCHANGED transportVars PROVE TransitOf(M)'
    BY <1>2, <1>4 DEF transportVars, TransitOf
  <1>5. CASE \E k \in Keys : RevokeKey(k)
    BY <1>4, <1>5 DEF RevokeKey
  <1>6. CASE \E x \in Changes : Decide(x)
    BY <1>4, <1>6 DEF Decide
  <1>7. CASE \E k \in Keys : CloseStreams(k)
    <2>1. PICK k \in Keys : CloseStreams(k)
      BY <1>7
    <2>2. k \in M
      BY <1>1, <2>1 DEF CloseStreams, CloseByKey, appData, Posted
    <2>3. Publish(At[k], k) /\ At[k] \in Processes
      BY <2>1 DEF CloseStreams
    <2> QED BY <1>2, <2>2, <2>3, PublishOver
  <1>8. CASE \E x \in Changes : ChangeEverywhere(x)
    <2>1. PICK x \in Changes : ChangeEverywhere(x)
      BY <1>8
    <2>2. x \in M
      BY <1>1, <2>1 DEF ChangeEverywhere, Posted
    <2>3. Publish(At[x], x) /\ At[x] \in Processes
      BY <2>1 DEF ChangeEverywhere
    <2> QED BY <1>2, <2>2, <2>3, PublishOver
  <1>9. CASE \E e \in Emits : Emit(e)
    <2>1. PICK e \in Emits : Emit(e)
      BY <1>9
    <2>2. e \in M /\ At[e] \in Processes
      BY <1>1 DEF Posted
    <2>3. outbox[At[e]] \in OutboxOf(M) /\ Bounded(outbox[At[e]])
      BY <1>2, <2>2 DEF TransitOf
    <2>4. Skip(At[e], outbox[At[e]], e) \/ Dispatch(At[e], outbox[At[e]], e)
      BY <2>1 DEF Emit
    <2> QED BY <1>2, <2>2, <2>3, <2>4, SkipOver, DispatchOver
  <1>10. CASE \E p \in Pods : Answered(p)
    BY <1>2, <1>10, AnswerOver DEF Answered
  <1>11. CASE \E p \in Pods : Deliver(p)
    <2>1. PICK p \in Pods : Deliver(p)
      BY <1>11
    <2>2. Tail(inbox[p]) \in Seq(M)
      BY <1>2, <2>1, HeadTailProperties DEF TransitOf, Deliver
    <2> QED BY <1>2, <2>1, <2>2 DEF TransitOf, Deliver
  <1>12. CASE \E p \in Pods : Cool(p) \/ Flushes(p)
    BY <1>2, <1>12, FlushStepOver DEF Flushes
  <1>13. CASE \E p \in Pods : TransportFault(p)
    BY <1>2, <1>13, FaultOver
  <1>14. CASE (\E c \in Conns : ConnStep(c) /\ UNCHANGED <<transportVars, todo, history>>)
              \/ UNCHANGED vars
    BY <1>4, <1>14 DEF vars
  <1> QED BY <1>5, <1>6, <1>7, <1>8, <1>9, <1>10, <1>11, <1>12, <1>13, <1>14 DEF Next, Progress

(* The histories of the composition. *)
LEMMA HistoryStep ==
  ASSUME Typed, [Next]_vars
  PROVE  /\ todo' \subseteq Messages
         /\ decided' \in Seq(Changes)
         /\ applied' \in [Pods -> Seq(Changes)]
  <1> USE DEF Typed
  <1>1. ASSUME NEW p \in Pods, NEW x \in Changes, ApplyAt(p, x)
        PROVE  applied' \in [Pods -> Seq(Changes)]
    BY <1>1, AppendProperties DEF ApplyAt
  <1>2. CASE \E k \in Keys : RevokeKey(k) \/ CloseStreams(k)
    BY <1>2 DEF RevokeKey, CloseStreams, history
  <1>3. CASE \E x \in Changes : Decide(x)
    BY <1>3, AppendProperties DEF Decide
  <1>4. CASE \E x \in Changes : ChangeEverywhere(x)
    BY <1>1, <1>4 DEF ChangeEverywhere
  <1>5. CASE \E e \in Emits : Emit(e)
    BY <1>5 DEF Emit, history
  <1>6. CASE \E p \in Pods : Answered(p)
    BY <1>6 DEF Answered, history
  <1>7. CASE \E p \in Pods : Deliver(p)
    <2>1. PICK p \in Pods : Deliver(p)
      BY <1>7
    <2>2. applied' \in [Pods -> Seq(Changes)]
      <3>1. CASE UNCHANGED applied
        BY <3>1
      <3>2. CASE ~(UNCHANGED applied)
        BY <1>1, <2>1, <3>2 DEF Deliver
      <3> QED BY <3>1, <3>2
    <2> QED BY <2>1, <2>2 DEF Deliver
  <1>8. CASE \/ \E p \in Pods : \/ Cool(p) /\ UNCHANGED <<connVars, todo, history>>
                                \/ Flushes(p)
                                \/ TransportFault(p) /\ UNCHANGED <<connVars, todo, history>>
             \/ \E c \in Conns : ConnStep(c) /\ UNCHANGED <<transportVars, todo, history>>
             \/ UNCHANGED vars
    BY <1>8 DEF Flushes, vars, history
  <1> QED BY <1>2, <1>3, <1>4, <1>5, <1>6, <1>7, <1>8 DEF Next, Progress

EventInv == Typed /\ ConnInv

LEMMA EventInvStep == EventInv /\ [Next]_vars => EventInv'
  <1> SUFFICES ASSUME EventInv, [Next]_vars PROVE EventInv'
    OBVIOUS
  <1>1. ConnInv'
    BY StepComposes, ConnInvStep DEF EventInv
  <1> QED BY <1>1, TransitStep, HistoryStep DEF EventInv, Typed, ConnInv

LEMMA EventInvariant == Spec => []EventInv
  <1>1. Init => EventInv
    BY TypedInit, ConnInvInit DEF EventInv, Init
  <1> QED BY <1>1, EventInvStep, PTL DEF Spec

(* On any number of pods, whatever is published, refused, lost and sent      *)
(* again, each pod's outbox, inbox and streams keep their form, and no pod   *)
(* holds more than Cap closes (cache-transport.ts: PENDING_KEY_CLOSE_CAP).   *)
THEOREM TypeCorrect == Spec => []TypeOK
  BY EventInvariant, TypedIsTypeOK, PTL DEF EventInv

(* Whatever the transport does to a close or a change on its way, the pods'  *)
(* connections take only steps of SseConnections: a close reaches a pod only *)
(* for a key that is already revoked (closeSSEConnectionsByKey is called     *)
(* once the revocation has committed).                                       *)
THEOREM StreamsImplementConnections == Spec => ConnSpec
  <1>1. Init => \E some \in SUBSET Conns : ConnInit(some)
    BY DEF Init
  <1>2. EventInv /\ [Next]_vars => [ConnNext]_connVars
    BY StepComposes DEF EventInv
  <1> QED BY <1>1, <1>2, EventInvariant, PTL DEF Spec, ConnSpec

(* Once a pod has applied the close of a key, no stream of that key is open  *)
(* on it and none opens, however the close reached it                        *)
(* (connection-registry.ts: closeByKey; handler.ts: the admission check).    *)
THEOREM ClosedKeyStaysClosedOnEveryPod == Spec => []KeyCloseIsFinal
  BY StreamsImplementConnections, ClosedKeyStaysClosed, PTL

(* On every pod, what reaches a client tells it whether it is subscribed,    *)
(* through the initial pass, the hold and the queue, whatever order grants,  *)
(* revokes and triggers reach the pods in.                                   *)
THEOREM FramesStayInStepOnEveryPod == Spec => []FramesInStep
  BY StreamsImplementConnections, FramesStayInStep, PTL

-----------------------------------------------------------------------------
(* Permissions: streams follow what the app stores. *)

(* What the changes in q amount to for a connection. *)

(* The permission of c after the first k changes of q, of those in A before. *)
After(q, A, k, c) ==
    \/ c \in A /\ \A i \in 1 .. k : c \notin Reach[q[i]]
    \/ \E i \in 1 .. k : /\ c \in Reach[q[i]] /\ q[i] \in Grants
                         /\ \A j \in 1 .. k : c \in Reach[q[j]] => j <= i

LEMMA AfterNext ==
  ASSUME NEW q, NEW A, NEW k \in Nat, NEW c
  PROVE  After(q, A, k + 1, c) <=> IF c \in Reach[q[k + 1]] THEN q[k + 1] \in Grants
                                   ELSE After(q, A, k, c)
  <1>1. CASE c \in Reach[q[k + 1]]
    <2>1. k + 1 \in 1 .. k + 1 /\ \A j \in 1 .. k + 1 : j <= k + 1
      OBVIOUS
    <2>2. \A i \in 1 .. k + 1 : (\A j \in 1 .. k + 1 : c \in Reach[q[j]] => j <= i) => i = k + 1
      BY <1>1, <2>1
    <2> QED BY <1>1, <2>1, <2>2 DEF After
  <1>2. CASE c \notin Reach[q[k + 1]]
    <2>1. \A i \in 1 .. k + 1 : c \in Reach[q[i]] => i \in 1 .. k
      BY <1>2
    <2>2. 1 .. k \subseteq 1 .. k + 1
      OBVIOUS
    <2> QED BY <1>2, <2>1, <2>2 DEF After
  <1> QED BY <1>1, <1>2

LEMMA AfterAppend ==
  ASSUME NEW S, NEW q \in Seq(S), NEW x \in S, NEW A, NEW c
  PROVE  /\ \A k \in 0 .. Len(q) : After(Append(q, x), A, k, c) <=> After(q, A, k, c)
         /\ Len(q) \in Nat /\ Len(Append(q, x)) = Len(q) + 1
         /\ Append(q, x)[Len(q) + 1] = x
         /\ \A i \in 1 .. Len(q) : Append(q, x)[i] = q[i]
  <1>1. /\ Len(q) \in Nat /\ Len(Append(q, x)) = Len(q) + 1
        /\ Append(q, x)[Len(q) + 1] = x
        /\ \A i \in 1 .. Len(q) : Append(q, x)[i] = q[i]
    BY AppendProperties, LenProperties
  <1>2. ASSUME NEW k \in 0 .. Len(q)
        PROVE  After(Append(q, x), A, k, c) <=> After(q, A, k, c)
    <2>1. \A i \in 1 .. k : Append(q, x)[i] = q[i]
      BY <1>1
    <2> QED BY <2>1 DEF After
  <1> QED BY <1>1, <1>2

(* What one more recorded change or close does to an admission. *)
LEMMA RecordedOnce ==
  ASSUME ConnTypeOK, NEW c \in Conns, NEW x \in Changes \cup {Close},
         recorded'[c] = Append(recorded[c], x), verdict'[c] = verdict[c]
  PROVE  /\ x # Close /\ c \in Reach[x] => Hits(c)' # {} /\ (Admitted(c)' <=> x \in Grants)
         /\ ~(x # Close /\ c \in Reach[x])
              => Hits(c)' = Hits(c) /\ (Admitted(c)' <=> Admitted(c))
  <1> DEFINE r == recorded[c]
             n == Len(r)
  <1>1. r \in Seq(Changes \cup {Close})
    BY DEF ConnTypeOK
  <1>2. /\ n \in Nat /\ DOMAIN r = 1 .. n /\ DOMAIN Append(r, x) = 1 .. n + 1
        /\ Append(r, x)[n + 1] = x /\ \A i \in 1 .. n : Append(r, x)[i] = r[i]
    BY <1>1, AppendProperties, LenProperties
  <1> HIDE DEF n
  <1>3. Hits(c) = {i \in 1 .. n : r[i] # Close /\ c \in Reach[r[i]]}
    BY <1>2 DEF Hits
  <1>4. Hits(c)' = Hits(c) \cup (IF x # Close /\ c \in Reach[x] THEN {n + 1} ELSE {})
    <2>1. Hits(c)' = {i \in 1 .. n + 1 : Append(r, x)[i] # Close /\ c \in Reach[Append(r, x)[i]]}
      BY <1>2 DEF Hits
    <2> QED BY <1>2, <1>3, <2>1
  <1>5. \A i \in Hits(c) : i \in 1 .. n /\ recorded'[c][i] = r[i]
    BY <1>2, <1>3
  <1>6. CASE x # Close /\ c \in Reach[x]
    <2>1. n + 1 \in Hits(c)' /\ \A j \in Hits(c)' : j <= n + 1
      BY <1>2, <1>4, <1>5, <1>6
    <2>2. \A i \in Hits(c)' : (\A j \in Hits(c)' : j <= i) => i = n + 1
      BY <1>2, <1>4, <1>5, <2>1
    <2>3. recorded'[c][n + 1] = x
      BY <1>2
    <2> QED BY <1>6, <2>1, <2>2, <2>3 DEF Admitted
  <1>7. CASE ~(x # Close /\ c \in Reach[x])
    <2>1. Hits(c)' = Hits(c)
      BY <1>4, <1>7
    <2>2. \A i \in Hits(c) : recorded'[c][i] = recorded[c][i]
      BY <1>5
    <2>3. Admitted(c)' <=> Admitted(c)
      BY <2>1, <2>2 DEF Admitted
    <2> QED BY <1>7, <2>1, <2>3
  <1> QED BY <1>6, <1>7

-----------------------------------------------------------------------------
(* The invariant, for the permissions A that the app began with. *)

(* The pod has applied the first changes that were stored, and no others.    *)
InOrder(p) ==
    /\ Len(applied[p]) <= Len(decided)
    /\ \A i \in 1 .. Len(applied[p]) : applied[p][i] = decided[i]

(* b is what the app allowed c at some time since its pod's last change.     *)
Agrees(A, c, b) ==
    \E m \in Len(applied[Pod[c]]) .. Len(decided) : b <=> After(decided, A, m, c)

(* An open stream, and an admission that was answered, may be ahead of their *)
(* pod; one that was not yet answered has only what its pod has applied.     *)
Tracks(A, c) ==
    InOrder(Pod[c]) =>
      /\ stream[c].life = "open" => Agrees(A, c, stream[c].allowed)
      /\ at[c] = "answered" => Agrees(A, c, Admitted(c))
      /\ at[c] \in {"checking", "live"} /\ Hits(c) # {}
           => (Admitted(c) <=> After(decided, A, Len(applied[Pod[c]]), c))
      /\ at[c] = "minted" => Hits(c) = {}

Permitted(A) ==
    /\ \A p \in Pods : ToSet(applied[p]) \subseteq ToSet(decided)
    /\ \A c \in Conns : /\ c \in allows <=> After(decided, A, Len(decided), c)
                        /\ Tracks(A, c)

LEMMA PermittedInit == Init => \E A : Permitted(A)
  <1> SUFFICES ASSUME Init PROVE Permitted(allows)
    OBVIOUS
  <1>1. /\ \A p \in Pods : applied[p] = <<>> /\ Len(applied[p]) = 0
        /\ decided = <<>> /\ Len(decided) = 0
    BY EmptySeq DEF Init
  <1>2. \A c \in Conns : /\ at[c] \in {"minted", "refused"} /\ recorded[c] = <<>>
                         /\ stream[c].life = "none"
    BY DEF Init, ConnInit, NoStream
  <1>3. \A c \in Conns : Hits(c) = {}
    BY <1>2, EmptySeq DEF Hits
  <1>4. \A c \in Conns : c \in allows <=> After(decided, allows, 0, c)
    BY DEF After
  <1>5. \A p \in Pods : ToSet(applied[p]) \subseteq ToSet(decided)
    BY <1>1
  <1>6. \A c \in Conns : Tracks(allows, c)
    BY <1>2, <1>3 DEF Tracks
  <1> QED BY <1>1, <1>4, <1>5, <1>6 DEF Permitted

(* Steps that touch neither what is stored nor what is applied. *)
LEMMA TracksKept ==
  ASSUME NEW A, NEW c \in Conns, Tracks(A, c),
         decided' = decided, applied'[Pod[c]] = applied[Pod[c]],
         stream'[c].life = "open" => /\ stream[c].life = "open"
                                     /\ stream'[c].allowed = stream[c].allowed,
         \/ /\ Hits(c)' = Hits(c) /\ (Admitted(c)' <=> Admitted(c))
            /\ \/ at'[c] = at[c]
               \/ at[c] \in {"minted", "checking"} /\ at'[c] \in {"checking", "live"}
         \/ at'[c] \notin {"minted", "checking", "live", "answered"}
  PROVE  Tracks(A, c)'
  <1> DEFINE n == Len(applied[Pod[c]])
             N == Len(decided)
  <1>1. /\ InOrder(Pod[c])' <=> InOrder(Pod[c])
        /\ n' = n /\ N' = N
        /\ \A m : After(decided, A, m, c)' <=> After(decided, A, m, c)
    BY DEF InOrder
  <1>2. ASSUME InOrder(Pod[c]), stream'[c].life = "open"
        PROVE  Agrees(A, c, stream[c].allowed)'
    <2>1. stream[c].life = "open" /\ stream'[c].allowed = stream[c].allowed
      BY <1>2
    <2> QED BY <1>1, <1>2, <2>1 DEF Tracks, Agrees
  <1>3. ASSUME InOrder(Pod[c]), at'[c] = "answered"
        PROVE  Agrees(A, c, Admitted(c))'
    <2>1. at[c] = "answered" /\ (Admitted(c)' <=> Admitted(c))
      BY <1>3
    <2>2. \E m \in n .. N : Admitted(c) <=> After(decided, A, m, c)
      BY <1>3, <2>1 DEF Tracks, Agrees
    <2> QED BY <1>1, <2>1, <2>2 DEF Agrees
  <1>4. ASSUME InOrder(Pod[c]), at'[c] \in {"checking", "live"}, Hits(c)' # {}
        PROVE  Admitted(c)' <=> After(decided, A, n, c)'
    <2>1. at[c] \in {"checking", "live"} /\ Hits(c) # {} /\ (Admitted(c)' <=> Admitted(c))
      <3>1. Hits(c)' = Hits(c) /\ (Admitted(c)' <=> Admitted(c))
        BY <1>4
      <3>2. at[c] # "minted"
        BY <1>4, <3>1 DEF Tracks
      <3> QED BY <1>4, <3>1, <3>2
    <2> QED BY <1>1, <1>4, <2>1 DEF Tracks
  <1>5. ASSUME InOrder(Pod[c]), at'[c] = "minted"
        PROVE  Hits(c)' = {}
    BY <1>5 DEF Tracks
  <1> QED BY <1>1, <1>2, <1>3, <1>4, <1>5 DEF Tracks

(* The app stores a change. *)
LEMMA DecidePermits ==
  ASSUME Typed, NEW A, Permitted(A), NEW x \in Changes, Decide(x)
  PROVE  Permitted(A)'
  <1> DEFINE N == Len(decided)
  <1> USE DEF Typed, ConnTypeOK
  <1>1. /\ decided' = Append(decided, x) /\ x \notin ToSet(decided)
        /\ UNCHANGED <<at, verdict, recorded, stream, applied>>
    BY DEF Decide
  <1>2. \A c : /\ \A k \in 0 .. N : After(decided, A, k, c)' <=> After(decided, A, k, c)
               /\ N \in Nat /\ N' = N + 1 /\ decided'[N + 1] = x
               /\ \A i \in 1 .. N : decided'[i] = decided[i]
    <2> TAKE c
    <2>1. decided \in Seq(Changes)
      OBVIOUS
    <2>2. /\ \A k \in 0 .. N : After(Append(decided, x), A, k, c) <=> After(decided, A, k, c)
          /\ N \in Nat /\ Len(Append(decided, x)) = N + 1
          /\ Append(decided, x)[N + 1] = x
          /\ \A i \in 1 .. N : Append(decided, x)[i] = decided[i]
      BY <2>1, AfterAppend
    <2> QED BY <1>1, <2>2
  <1>3. ToSet(decided)' = ToSet(decided) \cup {x}
    BY <1>1, ToSetAppend
  <1>4. ASSUME NEW p \in Pods, InOrder(p)' PROVE InOrder(p)
    <2> DEFINE n == Len(applied[p])
    <2>1. n \in Nat /\ DOMAIN applied[p] = 1 .. n
      BY LenProperties
    <2>2. n # N + 1
      <3> SUFFICES ASSUME n = N + 1 PROVE FALSE
        OBVIOUS
      <3>1. applied[p][n] = x /\ n \in DOMAIN applied[p]
        BY <1>1, <1>2, <1>4, <2>1 DEF InOrder
      <3>2. x \in ToSet(applied[p])
        BY <3>1 DEF ToSet
      <3> QED BY <1>1, <3>2 DEF Permitted
    <2>3. n <= N + 1 /\ \A i \in 1 .. n : applied[p][i] = decided'[i]
      BY <1>1, <1>2, <1>4 DEF InOrder
    <2>4. N \in Nat /\ \A i \in 1 .. N : decided'[i] = decided[i]
      BY <1>2
    <2>5. n <= N
      <3> HIDE DEF n, N
      <3> QED BY <2>1, <2>2, <2>3, <2>4
    <2>6. \A i \in 1 .. n : i \in 1 .. N
      <3> HIDE DEF n, N
      <3> QED BY <2>1, <2>4, <2>5
    <2>7. \A i \in 1 .. n : applied[p][i] = decided[i]
      BY <2>3, <2>4, <2>6
    <2> HIDE DEF Typed
    <2> QED BY <2>5, <2>7 DEF InOrder
  <1>5. ASSUME NEW c \in Conns PROVE c \in allows' <=> After(decided, A, N, c)'
    <2>1. c \in allows <=> After(decided, A, N, c)
      BY DEF Permitted
    <2>2. After(decided, A, N, c)'
            <=> IF c \in Reach[x] THEN x \in Grants ELSE After(decided, A, N, c)
      <3>1. After(decided', A, N + 1, c) <=> IF c \in Reach[decided'[N + 1]]
                 THEN decided'[N + 1] \in Grants ELSE After(decided', A, N, c)
        BY <1>2, AfterNext
      <3> QED BY <1>2, <3>1
    <2> QED BY <2>1, <2>2 DEF Decide
  <1>6. ASSUME NEW c \in Conns, InOrder(Pod[c])'
        PROVE  /\ stream[c].life = "open" => Agrees(A, c, stream[c].allowed)'
               /\ at[c] = "answered" => Agrees(A, c, Admitted(c))'
               /\ at[c] \in {"checking", "live"} /\ Hits(c)' # {}
                    => (Admitted(c)' <=> After(decided, A, Len(applied[Pod[c]]), c)')
               /\ at[c] = "minted" => Hits(c)' = {}
    <2> DEFINE n == Len(applied[Pod[c]])
    <2>1. Pod[c] \in Pods /\ InOrder(Pod[c]) /\ Tracks(A, c)
      BY <1>4, <1>6, ConnectionAssumption DEF Permitted
    <2>2. n \in Nat /\ n <= N /\ n' = n
      BY <1>1, <2>1, LenProperties DEF InOrder
    <2>3. Hits(c)' = Hits(c) /\ (Admitted(c)' <=> Admitted(c))
      BY <1>1 DEF Hits, Admitted
    <2>4. n .. N \subseteq n' .. N' /\ \A m \in n .. N : m \in 0 .. N
      BY <1>2, <2>2
    <2>5. ASSUME stream[c].life = "open" PROVE Agrees(A, c, stream[c].allowed)'
      BY <1>1, <1>2, <2>1, <2>4, <2>5 DEF Tracks, Agrees
    <2>6. ASSUME at[c] = "answered" PROVE Agrees(A, c, Admitted(c))'
      <3>1. \E m \in n .. N : Admitted(c) <=> After(decided, A, m, c)
        BY <2>1, <2>6 DEF Tracks, Agrees
      <3> QED BY <1>2, <2>3, <2>4, <3>1 DEF Agrees
    <2>7. ASSUME at[c] \in {"checking", "live"}, Hits(c)' # {}
          PROVE  Admitted(c)' <=> After(decided, A, n, c)'
      BY <1>2, <2>1, <2>2, <2>3, <2>7 DEF Tracks
    <2> QED BY <2>1, <2>3, <2>5, <2>6, <2>7 DEF Tracks
  <1>7. \A p \in Pods : ToSet(applied[p])' \subseteq ToSet(decided)'
    BY <1>1, <1>3 DEF Permitted
  <1>8. \A c \in Conns : Tracks(A, c)'
    BY <1>1, <1>6 DEF Tracks
  <1> QED BY <1>5, <1>7, <1>8 DEF Permitted

(* A pod applies a change that was stored. *)
LEMMA ApplyPermits ==
  ASSUME Typed, NEW A, Permitted(A), NEW p \in Pods, NEW x \in Changes, x \in ToSet(decided),
         ApplyAt(p, x), decided' = decided
  PROVE  Permitted(A)'
  <1> DEFINE n == Len(applied[p])
             N == Len(decided)
  <1> USE DEF Typed, ConnTypeOK
  <1>1. /\ applied' = [applied EXCEPT ![p] = Append(applied[p], x)]
        /\ UNCHANGED <<at, verdict, allows, decided>>
    BY DEF ApplyAt, Change, appData
  <1>2. /\ n \in Nat /\ N \in Nat /\ DOMAIN decided = 1 .. N
        /\ applied'[p] = Append(applied[p], x) /\ Len(applied'[p]) = n + 1
        /\ applied'[p][n + 1] = x /\ \A i \in 1 .. n : applied'[p][i] = applied[p][i]
    BY <1>1, AppendProperties, LenProperties
  <1>3. \A q \in Pods : ToSet(applied[q])' \subseteq ToSet(decided)'
    <2>1. ToSet(applied'[p]) = ToSet(applied[p]) \cup {x}
      BY <1>2, ToSetAppend
    <2> QED BY <1>1, <2>1 DEF Permitted
  <1>4. ASSUME NEW c \in Conns, Pod[c] # p PROVE Tracks(A, c)'
    <2>1. recorded'[c] = recorded[c] /\ stream'[c] = stream[c]
      BY <1>4 DEF ApplyAt, Change, Record
    <2>2. Hits(c)' = Hits(c) /\ (Admitted(c)' <=> Admitted(c))
      BY <1>1, <2>1 DEF Hits, Admitted
    <2>3. Tracks(A, c) /\ applied'[Pod[c]] = applied[Pod[c]]
      BY <1>1, <1>4, ConnectionAssumption DEF Permitted
    <2> QED BY <1>1, <2>1, <2>2, <2>3, TracksKept
  <1>5. ASSUME NEW c \in Conns, Pod[c] = p, InOrder(p)'
        PROVE  /\ stream'[c].life = "open" => Agrees(A, c, stream[c].allowed)'
               /\ at[c] = "answered" => Agrees(A, c, Admitted(c))'
               /\ at[c] \in {"checking", "live"} /\ Hits(c)' # {}
                    => (Admitted(c)' <=> After(decided, A, n + 1, c))
               /\ at[c] = "minted" => Hits(c)' = {}
    <2>1. InOrder(p) /\ n + 1 <= N /\ decided[n + 1] = x
      <3>1. n + 1 <= N /\ \A i \in 1 .. n + 1 : applied'[p][i] = decided[i]
        BY <1>1, <1>2, <1>5 DEF InOrder
      <3>2. n <= N /\ n + 1 \in 1 .. n + 1 /\ \A i \in 1 .. n : i \in 1 .. n + 1
        <4> HIDE DEF n, N
        <4> QED BY <1>2, <3>1
      <3> QED BY <1>2, <3>1, <3>2 DEF InOrder
    <2>2. After(decided, A, n + 1, c)
            <=> IF c \in Reach[x] THEN x \in Grants ELSE After(decided, A, n, c)
      BY <1>2, <2>1, AfterNext
    <2>3. Tracks(A, c)
      BY DEF Permitted
    <2>4. n + 1 \in n + 1 .. N /\ \A m \in n .. N : m = n \/ m \in n + 1 .. N
      <3> HIDE DEF n, N
      <3> QED BY <1>2, <2>1
    <2>5. \A m : After(decided, A, m, c)' <=> After(decided, A, m, c)
      BY <1>1
    <2>6. ASSUME at[c] \in Pending
          PROVE  /\ c \in Reach[x] => Hits(c)' # {} /\ (Admitted(c)' <=> x \in Grants)
                 /\ c \notin Reach[x] => Hits(c)' = Hits(c) /\ (Admitted(c)' <=> Admitted(c))
      <3>1. recorded'[c] = Append(recorded[c], x) /\ x # Close /\ verdict'[c] = verdict[c]
        BY <1>1, <1>5, <2>6, ConnectionAssumption DEF ApplyAt, Change, Record
      <3> QED BY <3>1, RecordedOnce
    <2>7. ASSUME stream'[c].life = "open" PROVE Agrees(A, c, stream[c].allowed)'
      <3>1. stream[c].life = "open" /\ stream[c] \in Streams
        BY <1>5, <2>7 DEF ApplyAt, Change
      <3>2. CASE c \in Reach[x]
        <4>1. stream'[c].allowed <=> x \in Grants
          BY <1>5, <3>1, <3>2, ChangedStream DEF ApplyAt, Change
        <4> QED BY <1>1, <1>2, <1>5, <2>2, <2>4, <2>5, <3>2, <4>1 DEF Agrees
      <3>3. CASE c \notin Reach[x]
        <4>1. stream'[c] = stream[c]
          BY <1>5, <3>3 DEF ApplyAt, Change
        <4>2. \E m \in n .. N : stream[c].allowed <=> After(decided, A, m, c)
          BY <1>5, <2>1, <2>3, <3>1 DEF Tracks, Agrees
        <4>3. \E m \in n + 1 .. N : stream'[c].allowed <=> After(decided, A, m, c)
          BY <2>2, <2>4, <3>3, <4>1, <4>2
        <4> QED BY <1>1, <1>2, <1>5, <2>5, <4>3 DEF Agrees
      <3> QED BY <3>2, <3>3
    <2>8. ASSUME at[c] = "answered" PROVE Agrees(A, c, Admitted(c))'
      <3>1. CASE c \in Reach[x]
        <4>1. Admitted(c)' <=> x \in Grants
          BY <2>6, <2>8, <3>1 DEF Pending
        <4> QED BY <1>1, <1>2, <1>5, <2>2, <2>4, <2>5, <3>1, <4>1 DEF Agrees
      <3>2. CASE c \notin Reach[x]
        <4>1. Admitted(c)' <=> Admitted(c)
          BY <2>6, <2>8, <3>2 DEF Pending
        <4>2. \E m \in n .. N : Admitted(c) <=> After(decided, A, m, c)
          BY <1>5, <2>1, <2>3, <2>8 DEF Tracks, Agrees
        <4>3. \E m \in n + 1 .. N : Admitted(c)' <=> After(decided, A, m, c)
          BY <2>2, <2>4, <3>2, <4>1, <4>2
        <4> QED BY <1>1, <1>2, <1>5, <2>5, <4>3 DEF Agrees
      <3> QED BY <3>1, <3>2
    <2>9. ASSUME at[c] \in {"checking", "live"}, Hits(c)' # {}
          PROVE  Admitted(c)' <=> After(decided, A, n + 1, c)
      BY <1>5, <2>1, <2>2, <2>3, <2>6, <2>9 DEF Tracks, Pending
    <2>10. ASSUME at[c] = "minted" PROVE Hits(c)' = {}
      <3>1. recorded'[c] = recorded[c]
        BY <2>10 DEF ApplyAt, Change, Record, Pending
      <3>2. Hits(c)' = Hits(c)
        BY <3>1 DEF Hits
      <3> QED BY <1>5, <2>1, <2>3, <2>10, <3>2 DEF Tracks
    <2> QED BY <2>7, <2>8, <2>9, <2>10
  <1>6. \A c \in Conns : Tracks(A, c)'
    BY <1>1, <1>2, <1>4, <1>5 DEF Tracks
  <1> QED BY <1>1, <1>3, <1>6 DEF Permitted

(* A connection takes a step of its own. *)
LEMMA ConnStepTracks ==
  ASSUME Typed, NEW A, Permitted(A), NEW c \in Conns, ConnStep(c), UNCHANGED <<decided, applied>>,
         NEW d \in Conns
  PROVE  Tracks(A, d)'
  <1> USE DEF Typed, ConnTypeOK
  <1>1. Tracks(A, d) /\ UNCHANGED <<recorded, allows>>
    BY DEF Permitted, ConnStep, Take, Refuse, ReadKey, Ask, Open, Leave, Stream, appData
  <1>2. Hits(d)' = Hits(d)
    BY <1>1 DEF Hits
  <1>3. verdict'[d] = verdict[d] => (Admitted(d)' <=> Admitted(d))
    BY <1>1, <1>2 DEF Admitted
  <1>4. CASE Take(c) \/ Refuse(c) \/ ReadKey(c)
    <2>1. UNCHANGED <<verdict, stream>>
      BY <1>4 DEF Take, Refuse, ReadKey
    <2>2. \/ at'[d] = at[d]
          \/ at[d] \in {"minted", "checking"} /\ at'[d] \in {"checking", "live"}
          \/ at'[d] = "refused"
      BY <1>4 DEF Take, Refuse, ReadKey, Moves
    <2> QED BY <1>1, <1>2, <1>3, <2>1, <2>2, TracksKept
  <1>5. CASE Ask(c) /\ d = c
    <2> DEFINE n == Len(applied[Pod[c]])
               N == Len(decided)
    <2>1. at[c] = "live" /\ at'[c] = "answered" /\ verdict'[c] = (c \in allows) /\ stream' = stream
      BY <1>5 DEF Ask, Moves
    <2>2. \A m : After(decided, A, m, c)' <=> After(decided, A, m, c)
      OBVIOUS
    <2>3. (c \in allows <=> After(decided, A, N, c)) /\ n' = n /\ N' = N
      BY DEF Permitted
    <2>4. ASSUME InOrder(Pod[c])'
          PROVE  /\ Agrees(A, c, Admitted(c))'
                 /\ stream'[c].life = "open" => Agrees(A, c, stream[c].allowed)'
      <3>1. InOrder(Pod[c]) /\ n \in n .. N /\ N \in n .. N
        <4>1. InOrder(Pod[c]) /\ n <= N
          BY <2>4 DEF InOrder
        <4>2. n \in Nat /\ N \in Nat
          BY LenProperties, ConnectionAssumption
        <4> HIDE DEF n, N
        <4> QED BY <4>1, <4>2
      <3>2. CASE Hits(c) = {}
        <4>1. Admitted(c)' <=> After(decided, A, N, c)
          <5>1. Hits(c)' = {}
            BY <1>2, <1>5, <3>2
          <5>2. Admitted(c)' <=> verdict'[c]
            BY <5>1 DEF Admitted
          <5> QED BY <5>2, <2>1, <2>3
        <4>2. \E m \in n .. N : Admitted(c)' <=> After(decided, A, m, c)
          BY <3>1, <4>1
        <4> QED BY <1>1, <1>5, <2>1, <2>2, <2>3, <3>1, <4>2 DEF Agrees, Tracks
      <3>3. CASE Hits(c) # {}
        <4>1. Admitted(c)' <=> Admitted(c)
          BY <1>1, <1>2, <1>5, <3>3 DEF Admitted
        <4>2. Admitted(c) <=> After(decided, A, n, c)
          BY <1>1, <1>5, <2>1, <3>1, <3>3 DEF Tracks
        <4>3. \E m \in n .. N : Admitted(c)' <=> After(decided, A, m, c)
          BY <3>1, <4>1, <4>2
        <4> QED BY <1>1, <1>5, <2>1, <2>2, <2>3, <3>1, <4>3 DEF Agrees, Tracks
      <3> QED BY <3>2, <3>3
    <2> QED BY <1>5, <2>1, <2>4 DEF Tracks
  <1>6. CASE Open(c) /\ d = c
    <2>1. at[c] = "answered" /\ at'[c] \in {"open", "refused"} /\ UNCHANGED verdict
      BY <1>6 DEF Open
    <2>2. CASE stream' = stream
      BY <1>1, <1>2, <1>3, <1>6, <2>1, <2>2, TracksKept
    <2>3. CASE ~(stream' = stream)
      <3>1. stream'[c] = Opened(Admitted(c))
        BY <1>6, <2>3 DEF Open
      <3>2. Admitted(c) \in BOOLEAN
        BY DEF Admitted
      <3>3. stream'[c].allowed <=> Admitted(c)
        BY <3>1, <3>2, OpenedStream
      <3>4. ASSUME InOrder(Pod[c])' PROVE Agrees(A, c, stream[c].allowed)'
        <4>1. \E m \in Len(applied[Pod[c]]) .. Len(decided) :
                 Admitted(c) <=> After(decided, A, m, c)
          BY <1>1, <1>6, <2>1, <3>4 DEF Tracks, Agrees, InOrder
        <4> QED BY <3>3, <4>1 DEF Agrees
      <3> QED BY <1>6, <2>1, <3>4 DEF Tracks
    <2> QED BY <2>2, <2>3
  <1>7. CASE (Ask(c) \/ Open(c)) /\ d # c
    <2>1. at'[d] = at[d] /\ verdict'[d] = verdict[d] /\ stream'[d] = stream[d]
      BY <1>7 DEF Ask, Open, Moves
    <2> QED BY <1>1, <1>2, <1>3, <2>1, TracksKept
  <1>8. CASE Leave(c)
    <2>1. verdict' = verdict /\ (at'[d] = at[d] \/ at'[d] = "gone")
      BY <1>8 DEF Leave
    <2>2. stream'[d].life = "open"
          => stream[d].life = "open" /\ stream'[d].allowed = stream[d].allowed
      BY <1>8, ClosedStream DEF Leave, SameAllowed, Follows
    <2> QED BY <1>1, <1>2, <1>3, <2>1, <2>2, TracksKept
  <1>9. CASE Stream(c)
    <2>1. at' = at /\ verdict' = verdict
      BY <1>9 DEF Stream
    <2>2. stream'[d] = stream[d] \/ SameAllowed(stream'[d], stream[d])
      BY <1>9, ProducedStream, WrittenStream, WriteFailedStream, StreamAssumption DEF Stream
    <2>3. stream'[d].life = "open"
          => stream[d].life = "open" /\ stream'[d].allowed = stream[d].allowed
      BY <2>2 DEF SameAllowed, Follows
    <2> QED BY <1>1, <1>2, <1>3, <2>1, <2>3, TracksKept
  <1> QED BY <1>4, <1>5, <1>6, <1>7, <1>8, <1>9 DEF ConnStep

(* An event, or the close of a key, reaches a pod. *)
LEMMA ReachTracks ==
  ASSUME Typed, NEW A, Permitted(A), NEW p \in Pods, UNCHANGED <<decided, applied>>,
         Trigger(p) \/ \E k \in Keys : CloseByKey(p, k),
         NEW d \in Conns
  PROVE  Tracks(A, d)'
  <1> USE DEF Typed, ConnTypeOK
  <1>1. Tracks(A, d) /\ UNCHANGED <<at, verdict>>
    BY DEF Permitted, Trigger, CloseByKey
  <1>2. stream'[d].life = "open"
          => stream[d].life = "open" /\ stream'[d].allowed = stream[d].allowed
    <2>1. stream[d] \in Streams
      OBVIOUS
    <2>2. stream'[d] \in {stream[d], Emitted(stream[d]), Closed(stream[d])}
      BY DEF Trigger, CloseByKey
    <2> QED BY <2>1, <2>2, EmittedStream, ClosedStream DEF SameAllowed, Follows
  <1>3. Hits(d)' = Hits(d) /\ (Admitted(d)' <=> Admitted(d))
    <2>1. CASE recorded'[d] = recorded[d]
      BY <1>1, <2>1 DEF Hits, Admitted
    <2>2. CASE recorded'[d] # recorded[d]
      <3>1. recorded'[d] = Append(recorded[d], Close)
        BY <2>2 DEF Trigger, CloseByKey, Record
      <3> QED BY <1>1, <3>1, RecordedOnce
    <2> QED BY <2>1, <2>2
  <1> QED BY <1>1, <1>2, <1>3, TracksKept

(* A step that leaves all that permissions depend on. *)
LEMMA PermittedIdle ==
  ASSUME NEW A, Permitted(A), UNCHANGED <<decided, applied, allows>>,
         \A d \in Conns : Tracks(A, d)'
  PROVE  Permitted(A)'
  BY DEF Permitted

LEMMA PermittedStep ==
  ASSUME EventInv, [Next]_vars, \E A : Permitted(A)
  PROVE  \E A : Permitted(A)'
  <1>1. PICK A : Permitted(A)
    OBVIOUS
  <1>2. Typed
    BY DEF EventInv
  <1>3. SUFFICES Permitted(A)'
    OBVIOUS
  <1>4. ASSUME UNCHANGED <<at, verdict, recorded, stream, allows, history>> PROVE Permitted(A)'
    <2>1. \A d \in Conns : Tracks(A, d)'
      BY <1>1, <1>4, TracksKept DEF Permitted, history, Hits, Admitted
    <2> QED BY <1>1, <1>4, <2>1, PermittedIdle DEF history
  <1>5. ASSUME UNCHANGED <<connVars, history>> PROVE Permitted(A)'
    BY <1>4, <1>5 DEF connVars, appData
  <1>6. ASSUME NEW p \in Pods, Trigger(p) \/ \E k \in Keys : CloseByKey(p, k), UNCHANGED history
        PROVE  Permitted(A)'
    <2>1. \A d \in Conns : Tracks(A, d)'
      BY <1>1, <1>2, <1>6, ReachTracks DEF history
    <2>2. UNCHANGED allows
      BY <1>6 DEF Trigger, CloseByKey, appData
    <2> QED BY <1>1, <1>6, <2>1, <2>2, PermittedIdle DEF history
  <1>7. CASE \E k \in Keys : RevokeKey(k)
    BY <1>4, <1>7 DEF RevokeKey
  <1>8. CASE \E k \in Keys : CloseStreams(k)
    <2>1. PICK k \in Keys : CloseStreams(k)
      BY <1>8
    <2>2. At[k] \in Pods /\ CloseByKey(At[k], k) /\ UNCHANGED history
      BY <2>1, OperationAssumption DEF CloseStreams
    <2> QED BY <1>6, <2>2
  <1>9. CASE \E x \in Changes : Decide(x)
    BY <1>1, <1>2, <1>9, DecidePermits
  <1>10. CASE \E x \in Changes : ChangeEverywhere(x)
    <2>1. PICK x \in Changes : ChangeEverywhere(x)
      BY <1>10
    <2>2. /\ At[x] \in Pods /\ x \in ToSet(decided)
          /\ ApplyAt(At[x], x) /\ UNCHANGED decided
      BY <2>1, OperationAssumption DEF ChangeEverywhere
    <2> QED BY <1>1, <1>2, <2>2, ApplyPermits
  <1>11. CASE \E e \in Emits : Emit(e)
    <2>1. PICK e \in Emits : Emit(e)
      BY <1>11
    <2>2. At[e] \in Pods /\ UNCHANGED history /\ (Trigger(At[e]) \/ UNCHANGED connVars)
      BY <2>1, OperationAssumption DEF Emit
    <2> QED BY <1>5, <1>6, <2>2
  <1>12. CASE \E p \in Pods : Answered(p)
    <2>1. PICK p \in Pods : Answered(p)
      BY <1>12
    <2>2. UNCHANGED history /\ (Trigger(p) \/ UNCHANGED connVars)
      BY <2>1 DEF Answered, DeliverLocal
    <2> QED BY <1>5, <1>6, <2>2
  <1>13. CASE \E p \in Pods : Deliver(p)
    <2>1. PICK p \in Pods : Deliver(p)
      BY <1>13
    <2> DEFINE m == Head(inbox[p])
    <2>2. m \in Posted
      BY <1>2, <2>1, OperationAssumption, HeadTailProperties DEF Typed, TransitOf, Deliver
    <2>3. CASE m \in Changes /\ ApplyAt(p, m)
      <3>1. m \in ToSet(decided) /\ UNCHANGED decided
        BY <2>1, <2>2, <2>3 DEF Posted, Deliver
      <3> QED BY <1>1, <1>2, <2>3, <3>1, ApplyPermits
    <2>4. CASE ~(m \in Changes /\ ApplyAt(p, m))
      <3>1. /\ UNCHANGED history
            /\ \/ Trigger(p) \/ UNCHANGED connVars
               \/ m \in Keys /\ CloseByKey(p, m)
        BY <2>1, <2>4 DEF Deliver, history
      <3> QED BY <1>5, <1>6, <3>1
    <2> QED BY <2>3, <2>4
  <1>14. CASE \E p \in Pods : \/ Cool(p) /\ UNCHANGED <<connVars, todo, history>>
                              \/ Flushes(p)
                              \/ TransportFault(p) /\ UNCHANGED <<connVars, todo, history>>
    BY <1>5, <1>14 DEF Flushes
  <1>15. CASE \E c \in Conns : ConnStep(c) /\ UNCHANGED <<transportVars, todo, history>>
    <2>1. PICK c \in Conns : ConnStep(c) /\ UNCHANGED <<transportVars, todo, history>>
      BY <1>15
    <2>2. \A d \in Conns : Tracks(A, d)'
      BY <1>1, <1>2, <2>1, ConnStepTracks DEF history
    <2>3. UNCHANGED allows
      BY <2>1 DEF ConnStep, Take, Refuse, ReadKey, Ask, Open, Leave, Stream, appData
    <2> QED BY <1>1, <2>1, <2>2, <2>3, PermittedIdle DEF history
  <1>16. CASE UNCHANGED vars
    BY <1>5, <1>16 DEF vars
  <1> QED BY <1>7, <1>8, <1>9, <1>10, <1>11, <1>12, <1>13, <1>14, <1>15, <1>16 DEF Next, Progress

LEMMA PermittedInStep ==
  ASSUME Typed, NEW A, Permitted(A)
  PROVE  PermissionInStep
  <1> SUFFICES ASSUME NEW p \in Pods, applied[p] = decided,
                      NEW c \in Conns, Pod[c] = p, stream[c].life = "open"
               PROVE  stream[c].allowed = (c \in allows)
    BY DEF PermissionInStep
  <1> DEFINE N == Len(decided)
  <1>1. N \in Nat /\ InOrder(p)
    BY LenProperties DEF Typed, InOrder
  <1>2. \E m \in N .. N : stream[c].allowed <=> After(decided, A, m, c)
    BY <1>1 DEF Permitted, Tracks, Agrees
  <1>3. \A m \in N .. N : m = N
    <2> HIDE DEF N
    <2> QED BY <1>1
  <1>4. stream[c].allowed <=> c \in allows
    BY <1>2, <1>3 DEF Permitted
  <1>5. stream[c].allowed \in BOOLEAN
    BY DEF Typed, ConnTypeOK, Streams
  <1> QED BY <1>4, <1>5

(* Whatever races with an admission, and whatever the transport loses: a pod *)
(* that has applied every stored change, in their order, shows each open     *)
(* stream what the app allows (handler.ts: the changes that a pending        *)
(* admission records overrule the answer of canSubscribe).                   *)
THEOREM PermissionAlwaysInStep == Spec => []PermissionInStep
  <1>1. Init => \E A : Permitted(A)
    BY PermittedInit
  <1>2. EventInv /\ [Next]_vars /\ (\E A : Permitted(A)) => (\E A : Permitted(A))'
    BY PermittedStep
  <1>3. EventInv /\ (\E A : Permitted(A)) => PermissionInStep
    BY PermittedInStep DEF EventInv
  <1> QED BY <1>1, <1>2, <1>3, EventInvariant, PTL DEF Spec
=============================================================================
