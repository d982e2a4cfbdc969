---------------------- MODULE TransactionFrames_proofs ----------------------
(* Theorems about TransactionFrames, for any number of calls, writes and     *)
(* hooks and whatever the shape of the nesting.  Those about the gates and   *)
(* what COMMIT makes durable hold with or without FailFast; those about the  *)
(* order of the savepoints, the work and the hooks hold when user code waits *)
(* for the calls it made, and are stated for ~ FailFast.                     *)
EXTENDS TransactionFrames, FiniteSetTheorems, SequenceTheorems, TLAPS

Pending(g) == phase[g] \notin {"idle", "resolved", "rejected"}

(* A context object exists once the frames it stands for have been called.   *)
Called(q) == /\ q[1] \in Frames /\ phase[q[1]] # "idle"
             /\ ContextAt(q) \in Frames /\ phase[ContextAt(q)] # "idle"

(* The chain of contexts from a frame to its root: a frame not called yet is *)
(* a root in nobody's chain but its own, a nested call has a caller and an   *)
(* owner other than itself, the context it was made in, and the context a    *)
(* call was made in is that of a frame called before.                        *)
ChainOK ==
    /\ \A c \in Frames : c \in enclosing[c] /\ \E r \in enclosing[c] : IsRoot(r)
    /\ \A c \in Frames : \A e \in enclosing[c] : e # c => phase[e] # "idle"
    /\ \A f \in Frames : phase[f] = "idle" => IsRoot(f)
    /\ \A f \in Frames : ~ IsRoot(f) =>
         /\ owner[f] \in enclosing[f] \ {f}
         /\ caller[f] \in Frames /\ phase[caller[f]] # "idle"
         /\ site[f] \in Gates /\ owner[f] = ContextAt(site[f])
    /\ \A f \in Frames : site[f] \in Gates => Called(site[f])

(* Every nested call that has not settled stands once in the queue of its    *)
(* gate, and nothing else does.                                              *)
GateMembers ==
    /\ \A q \in Gates : \A i \in 1 .. Len(gate[q]) :
         LET g == gate[q][i] IN ~ IsRoot(g) /\ Pending(g) /\ site[g] = q
    /\ \A q \in Gates : \A i, j \in 1 .. Len(gate[q]) : gate[q][i] = gate[q][j] => i = j
    /\ \A g \in Frames : ~ IsRoot(g) /\ Pending(g) =>
         \E i \in 1 .. Len(gate[site[g]]) : gate[site[g]][i] = g

(* Only the first call in the queue of a gate has opened.                    *)
GateHead ==
    \A g \in Frames : ~ IsRoot(g) /\ Pending(g) /\ phase[g] # "queued" =>
        gate[site[g]] # <<>> /\ Head(gate[site[g]]) = g

(* Only a root runs beforeCommit callbacks, and only a nested call queues.   *)
RootPhases ==
    \A f \in Frames : /\ phase[f] = "finishing" => IsRoot(f)
                      /\ phase[f] = "queued" => ~ IsRoot(f)

(* The four together are inductive.                                          *)
Structure == ChainOK /\ RootPhases /\ GateMembers /\ GateHead

-----------------------------------------------------------------------------
(* The chain of contexts *)

(* A context runs on the connection of one frame, a root.                    *)
LEMMA ConnIsFrame ==
    ASSUME TypeOK, ChainOK, NEW c \in Frames
    PROVE  Conn(c) \in Frames /\ Conn(c) \in enclosing[c] /\ IsRoot(Conn(c))
  <1>1. PICK r \in enclosing[c] : IsRoot(r)
    BY DEF ChainOK
  <1>2. Conn(c) \in enclosing[c] /\ IsRoot(Conn(c))
    BY <1>1, Zenon DEF Conn
  <1> QED BY <1>2 DEF TypeOK

(* So is the context user code runs in, if it runs in any. *)
LEMMA SiteCalled ==
    ASSUME TypeOK, ChainOK, NEW f \in Frames, UserCodeIn(f)
    PROVE  /\ SiteOf(f) \in Gates \cup {NoGate}
           /\ SiteOf(f) \in Gates => Called(SiteOf(f))
  <1>1. phase[f] # "idle"
    BY DEF UserCodeIn
  <1>2. CASE phase[f] # "compensating"
    <2>1. SiteOf(f) = <<f, "own">>
      BY <1>2 DEF SiteOf
    <2> QED BY <1>1, <2>1 DEF Gates, Called, ContextAt
  <1>3. CASE phase[f] = "compensating" /\ IsRoot(f)
    <2>1. SiteOf(f) = site[f]
      BY <1>3 DEF SiteOf
    <2> QED BY <2>1, SMTT(60) DEF TypeOK, ChainOK
  <1>4. CASE phase[f] = "compensating" /\ ~ IsRoot(f)
    <2>1. SiteOf(f) = <<f, "fresh">>
      BY <1>4 DEF SiteOf
    <2>2. owner[f] \in Frames /\ phase[owner[f]] # "idle"
      BY <1>4 DEF ChainOK, TypeOK
    <2> QED BY <1>1, <2>1, <2>2 DEF Gates, Called, ContextAt
  <1> QED BY <1>2, <1>3, <1>4

(* User code that runs acts in one context, which has been called.           *)
LEMMA ActingContext ==
    ASSUME TypeOK, ChainOK, NEW f \in Frames, NEW c \in Frames, ActsIn(f, c)
    PROVE  /\ phase[f] # "idle" /\ phase[c] # "idle"
           /\ SiteOf(f) \in Gates /\ c = ContextAt(SiteOf(f))
  <1>1. phase[f] # "idle" /\ UserCodeIn(f) /\ c = ContextAt(SiteOf(f))
    BY DEF ActsIn, UserCodeIn
  <1>2. SiteOf(f) # NoGate
    BY <1>1, FramesAssumption DEF NoGate, ContextAt
  <1> QED BY <1>1, <1>2, SiteCalled DEF Called

(* A step that calls nothing new leaves the chain as it is.                  *)
LEMMA ChainFrame ==
    ASSUME TypeOK, ChainOK, UNCHANGED <<caller, site, owner, enclosing>>,
           \A f \in Frames : phase'[f] = "idle" <=> phase[f] = "idle"
    PROVE  ChainOK'
  <1>1. \A f \in Frames : site[f] \in Gates =>
          site[f][1] \in Frames /\ ContextAt(site[f])' = ContextAt(site[f])
    BY DEF Gates, ContextAt
  <1>2. ASSUME NEW f \in Frames, site[f] \in Gates PROVE Called(site[f])'
    BY <1>1, <1>2 DEF ChainOK, Called
  <1>3. ASSUME NEW f \in Frames, ~ IsRoot(f)
        PROVE  (site[f] \in Gates /\ owner[f] = ContextAt(site[f]))'
    BY <1>1, <1>3 DEF ChainOK
  <1> QED BY <1>2, <1>3, ZenonT(60) DEF TypeOK, ChainOK, IsRoot

(* A context object that exists goes on standing for the same frames. *)
LEMMA CalledKept ==
    ASSUME TypeOK, ChainOK, NEW q \in Gates, Called(q),
           \A d \in Frames : phase[d] # "idle" => phase'[d] # "idle" /\ owner'[d] = owner[d]
    PROVE  Called(q)' /\ ContextAt(q)' = ContextAt(q)
  <1>1. ContextAt(q)' = ContextAt(q)
    BY DEF Called, ContextAt
  <1> QED BY <1>1 DEF Called

(* Nor does any step but a call. *)
LEMMA NotACall ==
    ASSUME TypeOK, NEW f \in Frames,
           \/ Open(f) \/ OpenFails(f) \/ Resolve(f) \/ Reject(f)
           \/ RollbackTo(f) \/ SettleRejected(f)
           \/ Finish(f) \/ Commit(f) \/ FinishFails(f) \/ Rollback(f)
           \/ Write(f) \/ StatementFails(f)
           \/ BeforeCommitEnds(f) \/ AfterRollbackEnds(f)
           \/ \E k \in HookKinds : Register(f, k)
    PROVE  /\ UNCHANGED <<caller, site, owner, enclosing>>
           /\ \A g \in Frames : phase'[g] = "idle" <=> phase[g] = "idle"
  <1> USE DEF TypeOK
  <1>1. CASE Open(f) BY <1>1 DEF Open
  <1>2. CASE OpenFails(f) BY <1>2 DEF OpenFails
  <1>3. CASE Resolve(f) BY <1>3 DEF Resolve
  <1>4. CASE Reject(f) BY <1>4 DEF Reject
  <1>5. CASE RollbackTo(f) BY <1>5 DEF RollbackTo
  <1>6. CASE SettleRejected(f) BY <1>6 DEF SettleRejected
  <1>7. CASE Finish(f) BY <1>7 DEF Finish
  <1>8. CASE Commit(f) BY <1>8 DEF Commit
  <1>9. CASE FinishFails(f) BY <1>9 DEF FinishFails
  <1>10. CASE Rollback(f) BY <1>10 DEF Rollback
  <1>11. CASE Write(f) BY <1>11 DEF Write, control
  <1>12. CASE StatementFails(f) BY <1>12 DEF StatementFails, control
  <1>13. CASE BeforeCommitEnds(f) BY <1>13 DEF BeforeCommitEnds, control
  <1>14. CASE AfterRollbackEnds(f) BY <1>14 DEF AfterRollbackEnds, control
  <1>15. CASE \E k \in HookKinds : Register(f, k) BY <1>15 DEF Register, control
  <1> QED BY <1>1, <1>2, <1>3, <1>4, <1>5, <1>6, <1>7, <1>8, <1>9, <1>10, <1>11,
             <1>12, <1>13, <1>14, <1>15

(* A nested call hangs its frame under the context it was made in. *)
LEMMA ChainCallNested ==
    ASSUME TypeOK, ChainOK, NEW f \in Frames, NEW g \in Frames, CallNested(f, g)
    PROVE  ChainOK'
  <1>1. PICK c \in Frames :
          /\ ActsIn(f, c)
          /\ owner' = [owner EXCEPT ![g] = c]
          /\ enclosing' = [enclosing EXCEPT ![g] = {g} \cup enclosing[c]]
    BY DEF CallNested
  <1>2. phase[g] = "idle" /\ caller' = [caller EXCEPT ![g] = f]
        /\ phase' = [phase EXCEPT ![g] = "queued"]
    BY DEF CallNested
  <1>3. phase[f] # "idle" /\ phase[c] # "idle" /\ c # g
    BY <1>1, <1>2, ActingContext
  <1>4. ASSUME NEW d \in Frames
        PROVE  d \in enclosing'[d] /\ \E r \in enclosing'[d] : owner'[r] = NoFrame
    <2>1. CASE d # g
      <3>1. PICK r \in enclosing[d] : IsRoot(r)
        BY DEF ChainOK
      <3>2. r # g
        BY <1>2, <2>1, <3>1 DEF ChainOK
      <3> QED BY <1>1, <2>1, <3>1, <3>2 DEF ChainOK, IsRoot, TypeOK
    <2>2. CASE d = g
      <3>1. PICK r \in enclosing[c] : IsRoot(r)
        BY DEF ChainOK
      <3>2. r # g
        BY <1>2, <1>3, <3>1 DEF ChainOK
      <3> QED BY <1>1, <2>2, <3>1, <3>2 DEF IsRoot, TypeOK
    <2> QED BY <2>1, <2>2
  <1>5. ASSUME NEW d \in Frames, NEW e \in enclosing'[d], e # d
        PROVE  phase'[e] # "idle"
    <2>1. e \in Frames
      BY <1>1 DEF TypeOK
    <2>2. CASE d # g
      BY <1>1, <1>2, <1>5, <2>1, <2>2 DEF ChainOK, TypeOK
    <2>3. CASE d = g
      BY <1>1, <1>2, <1>3, <1>5, <2>1, <2>3 DEF ChainOK, TypeOK
    <2> QED BY <2>2, <2>3
  <1>6. ASSUME NEW d \in Frames, phase'[d] = "idle" PROVE owner'[d] = NoFrame
    BY <1>1, <1>2, <1>6 DEF ChainOK, IsRoot, TypeOK
  <1>7. ASSUME NEW d \in Frames, owner'[d] # NoFrame
        PROVE  /\ owner'[d] \in enclosing'[d] \ {d}
               /\ caller'[d] \in Frames /\ phase'[caller'[d]] # "idle"
    <2>1. CASE d # g
      BY <1>1, <1>2, <1>7, <2>1 DEF ChainOK, IsRoot, TypeOK
    <2>2. CASE d = g
      BY <1>1, <1>2, <1>3, <2>2 DEF ChainOK, TypeOK
    <2> QED BY <2>1, <2>2
  <1>8. /\ site' = [site EXCEPT ![g] = SiteOf(f)]
        /\ SiteOf(f) \in Gates /\ c = ContextAt(SiteOf(f)) /\ Called(SiteOf(f))
    BY <1>1, ActingContext, SiteCalled DEF CallNested, ActsIn
  <1>9. \A d \in Frames : phase[d] # "idle" => phase'[d] # "idle" /\ owner'[d] = owner[d]
    BY <1>1, <1>2 DEF TypeOK
  <1>10. \A q \in Gates : Called(q) => Called(q)' /\ ContextAt(q)' = ContextAt(q)
    BY <1>9, CalledKept
  <1>11. ASSUME NEW d \in Frames
         PROVE  /\ site'[d] \in Gates => Called(site[d])'
                /\ owner'[d] # NoFrame => site'[d] \in Gates /\ owner'[d] = ContextAt(site[d])'
    <2>1. CASE d = g
      <3>1. PICK q \in Gates : q = SiteOf(f)
        BY <1>8
      <3>2. site'[d] = q /\ Called(q)' /\ ContextAt(q)' = c /\ owner'[d] = c
        BY <1>1, <1>8, <1>10, <2>1, <3>1 DEF TypeOK
      <3> QED BY <3>2 DEF Called, ContextAt
    <2>2. CASE d # g
      <3>1. site'[d] = site[d] /\ owner'[d] = owner[d]
        BY <1>1, <1>8, <2>2 DEF TypeOK
      <3>2. ASSUME site[d] \in Gates PROVE Called(site[d])' /\ ContextAt(site[d])' = ContextAt(site[d])
        <4>1. PICK q \in Gates : q = site[d]
          BY <3>2
        <4>2. Called(q)' /\ ContextAt(q)' = ContextAt(q)
          BY <1>10, <4>1 DEF ChainOK
        <4> QED BY <3>1, <4>1, <4>2 DEF Called, ContextAt
      <3> QED BY <3>1, <3>2 DEF ChainOK, IsRoot
    <2> QED BY <2>1, <2>2
  <1> QED BY <1>4, <1>5, <1>6, <1>7, <1>11 DEF ChainOK, IsRoot

(* A call of a root leaves every chain as it is. *)
LEMMA ChainCallRoot ==
    ASSUME TypeOK, ChainOK, NEW f \in Frames, NEW g \in Frames,
           Begin \/ CallRequiresNew(f, g)
    PROVE  ChainOK'
  <1>1. /\ \A d \in Frames : phase[d] # "idle" => phase'[d] # "idle"
        /\ \A d \in Frames : phase'[d] = "idle" => phase[d] = "idle"
        /\ UNCHANGED <<owner, enclosing>>
    BY FramesAssumption, SMTT(60) DEF Begin, CallRequiresNew, TypeOK
  <1>2. \A d \in Frames : ~ IsRoot(d) => caller'[d] = caller[d]
    <2>1. CASE Begin
      BY <2>1 DEF Begin
    <2>2. CASE CallRequiresNew(f, g)
      <3>1. IsRoot(g)
        BY <2>2 DEF CallRequiresNew, ChainOK
      <3> QED BY <2>2, <3>1 DEF CallRequiresNew, TypeOK
    <2> QED BY <2>1, <2>2
  <1>3. ASSUME NEW d \in Frames, ~ IsRoot(d)
        PROVE  caller'[d] \in Frames /\ phase'[caller'[d]] # "idle"
    BY <1>1, <1>2, <1>3 DEF ChainOK
  <1>4. ASSUME NEW c \in Frames, NEW e \in enclosing[c], e # c PROVE phase'[e] # "idle"
    BY <1>1, <1>4 DEF ChainOK, TypeOK
  <1>5. \A q \in Gates : Called(q) => Called(q)' /\ ContextAt(q)' = ContextAt(q)
    BY <1>1, CalledKept
  <1>6. ASSUME NEW d \in Frames
        PROVE  /\ site'[d] \in Gates => Called(site[d])'
               /\ owner'[d] # NoFrame => site'[d] \in Gates /\ owner'[d] = ContextAt(site[d])'
    <2>1. CASE site'[d] = site[d]
      <3>1. ASSUME site[d] \in Gates PROVE Called(site[d])' /\ ContextAt(site[d])' = ContextAt(site[d])
        <4>1. PICK q \in Gates : q = site[d]
          BY <3>1
        <4>2. Called(q)' /\ ContextAt(q)' = ContextAt(q)
          BY <1>5, <4>1 DEF ChainOK
        <4> QED BY <2>1, <4>1, <4>2 DEF Called, ContextAt
      <3> QED BY <1>1, <2>1, <3>1 DEF ChainOK, IsRoot
    <2>2. CASE site'[d] # site[d]
      <3>1. CallRequiresNew(f, g) /\ d = g /\ site'[d] = SiteOf(f) /\ IsRoot(d) /\ UserCodeIn(f)
        <4>1. CallRequiresNew(f, g)
          BY <2>2 DEF Begin
        <4>2. /\ site' = [site EXCEPT ![g] = SiteOf(f)] /\ UserCodeIn(f) /\ phase[g] = "idle"
              /\ site \in [Frames -> Gates \cup {NoGate}]
          BY <4>1 DEF CallRequiresNew, TypeOK
        <4>3. IsRoot(g)
          BY <4>2 DEF ChainOK
        <4> QED BY <2>2, <4>1, <4>2, <4>3
      <3>2. ASSUME site'[d] \in Gates PROVE Called(site[d])'
        <4>1. PICK q \in Gates : q = SiteOf(f)
          BY <3>1, <3>2
        <4>2. Called(q)' /\ site'[d] = q
          BY <1>5, <3>1, <4>1, SiteCalled
        <4> QED BY <4>2 DEF Called, ContextAt
      <3> QED BY <1>1, <3>1, <3>2 DEF IsRoot
    <2> QED BY <2>1, <2>2
  <1> QED BY <1>1, <1>3, <1>4, <1>6 DEF ChainOK, IsRoot

(* The chain survives every step. *)
LEMMA ChainStep == TypeOK /\ ChainOK /\ [Next]_vars => ChainOK'
  <1> SUFFICES ASSUME TypeOK, ChainOK, [Next]_vars PROVE ChainOK'
    OBVIOUS
  <1>1. CASE Begin
    BY <1>1, FramesAssumption, ChainCallRoot
  <1>2. ASSUME NEW f \in Frames, NEW g \in Frames, CallNested(f, g) PROVE ChainOK'
    BY <1>2, ChainCallNested
  <1>3. ASSUME NEW f \in Frames, NEW g \in Frames, CallRequiresNew(f, g) PROVE ChainOK'
    BY <1>3, ChainCallRoot
  <1>4. ASSUME NEW f \in Frames,
               \/ Open(f) \/ OpenFails(f) \/ Resolve(f) \/ Reject(f)
               \/ RollbackTo(f) \/ SettleRejected(f)
               \/ Finish(f) \/ Commit(f) \/ FinishFails(f) \/ Rollback(f)
               \/ Write(f) \/ StatementFails(f)
               \/ BeforeCommitEnds(f) \/ AfterRollbackEnds(f)
               \/ \E k \in HookKinds : Register(f, k)
        PROVE  ChainOK'
    BY <1>4, NotACall, ChainFrame
  <1>5. CASE Terminated \/ UNCHANGED vars
    BY <1>5, ChainFrame DEF Terminated, vars, control
  <1> QED BY <1>1, <1>2, <1>3, <1>4, <1>5 DEF Next, Step

-----------------------------------------------------------------------------
(* Gates *)

(* The gate of a nested call is one of the gates. *)
LEMMA GateIsGate ==
    ASSUME TypeOK, ChainOK, NEW g \in Frames, ~ IsRoot(g)
    PROVE  site[g] \in Gates
  BY DEF ChainOK

(* A nested call that is pending is in the queue of its gate. *)
LEMMA GateNotEmpty ==
    ASSUME TypeOK, ChainOK, GateMembers, NEW g \in Frames, ~ IsRoot(g), Pending(g)
    PROVE  Len(gate[site[g]]) >= 1
  <1>1. gate[site[g]] \in Seq(Frames)
    BY GateIsGate DEF TypeOK
  <1> QED BY <1>1 DEF GateMembers

(* A step that starts, opens and settles no nested call leaves the gates. *)
LEMMA GateFrame ==
    ASSUME TypeOK, GateMembers, GateHead, UNCHANGED <<owner, gate>>,
           \A g \in Frames : ~ IsRoot(g) =>
               /\ site'[g] = site[g]
               /\ Pending(g) <=> Pending(g)'
               /\ phase'[g] = "queued" <=> phase[g] = "queued"
    PROVE  GateMembers' /\ GateHead'
  <1>1. \A g \in Frames : ~ IsRoot(g) => site'[g] = site[g]
    OBVIOUS
  <1>2. \A g \in Frames : IsRoot(g)' = IsRoot(g)
    BY DEF IsRoot
  <1>3. ASSUME NEW p \in Gates, NEW i \in 1 .. Len(gate[p])
        PROVE  (LET h == gate[p][i] IN ~ IsRoot(h) /\ Pending(h) /\ site[h] = p)'
    <2>1. PICK h \in Frames : h = gate[p][i]
      BY DEF TypeOK
    <2>2. ~ IsRoot(h) /\ Pending(h) /\ site[h] = p
      BY <2>1 DEF GateMembers
    <2> QED BY <2>1, <2>2 DEF IsRoot, Pending
  <1>4. GateMembers'
    BY <1>1, <1>2, <1>3 DEF GateMembers
  <1>5. GateHead'
    BY <1>1, <1>2 DEF GateHead
  <1> QED BY <1>4, <1>5

(* A nested call that leaves its gate lets the next one be first. *)
LEMMA GateLeft ==
    ASSUME TypeOK, ChainOK, GateMembers, GateHead, NEW g \in Frames,
           ~ IsRoot(g), Pending(g), Head(gate[site[g]]) = g, LeaveGate(g),
           UNCHANGED <<site, owner>>, ~ Pending(g)',
           \A f \in Frames : f # g => phase'[f] = phase[f]
    PROVE  GateMembers' /\ GateHead'
  <1> DEFINE q == site[g]
  <1>1. q \in Gates /\ gate[q] \in Seq(Frames) /\ Len(gate[q]) >= 1
    BY GateIsGate, GateNotEmpty DEF TypeOK
  <1>2. gate' = [gate EXCEPT ![q] = Tail(gate[q])]
    BY DEF LeaveGate
  <1>3. /\ Len(gate'[q]) = Len(gate[q]) - 1
        /\ \A i \in 1 .. Len(gate'[q]) : gate'[q][i] = gate[q][i + 1]
    BY <1>1, <1>2 DEF TypeOK
  <1>4. \A p \in Gates : p # q => gate'[p] = gate[p]
    BY <1>2 DEF TypeOK
  <1>5. \A f : site'[f] = site[f] /\ IsRoot(f)' = IsRoot(f)
    BY DEF IsRoot
  <1>6. \A p \in Gates : \A i \in 1 .. Len(gate'[p]) :
           /\ gate'[p][i] \in Frames \ {g}
           /\ \E j \in 1 .. Len(gate[p]) : gate'[p][i] = gate[p][j]
    <2> SUFFICES ASSUME NEW p \in Gates, NEW i \in 1 .. Len(gate'[p])
                 PROVE  /\ gate'[p][i] \in Frames \ {g}
                        /\ \E j \in 1 .. Len(gate[p]) : gate'[p][i] = gate[p][j]
      OBVIOUS
    <2>0. gate[p] \in Seq(Frames)
      BY DEF TypeOK
    <2>1. CASE p = q
      <3>0. Len(gate[q]) \in Nat /\ i \in 1 .. Len(gate[q]) - 1
        BY <1>1, <1>3, <2>1
      <3>1. i + 1 \in 1 .. Len(gate[q]) /\ gate'[q][i] = gate[q][i + 1] /\ i + 1 # 1
        <4>1. i \in 1 .. Len(gate'[q])
          BY <2>1
        <4>2. gate'[q][i] = gate[q][i + 1]
          BY <1>3, <4>1
        <4>3. i + 1 \in 1 .. Len(gate[q]) /\ i + 1 # 1
          BY <3>0
        <4> QED BY <4>2, <4>3
      <3>2. gate[q][1] = g /\ 1 \in 1 .. Len(gate[q])
        BY <1>1
      <3> QED BY <1>1, <2>1, <3>1, <3>2 DEF GateMembers
    <2>2. CASE p # q
      <3>1. gate[p][i] # g
        BY <1>4, <2>2 DEF GateMembers
      <3> QED BY <1>4, <2>0, <2>2, <3>1
    <2> QED BY <2>1, <2>2
  <1>7. ASSUME NEW p \in Gates, NEW i \in 1 .. Len(gate'[p])
        PROVE  LET h == gate'[p][i]
               IN  /\ owner'[h] # NoFrame
                   /\ phase'[h] \notin {"idle", "resolved", "rejected"}
                   /\ site'[h] = p
    <2>1. PICK h \in Frames \ {g} : h = gate'[p][i]
      BY <1>6
    <2>2. ~ IsRoot(h) /\ Pending(h) /\ site[h] = p
      BY <1>6, <2>1 DEF GateMembers
    <2>3. phase'[h] = phase[h]
      BY <2>1
    <2> QED BY <2>1, <2>2, <2>3 DEF IsRoot, Pending
  <1>8. \A p \in Gates : \A i, j \in 1 .. Len(gate'[p]) : gate'[p][i] = gate'[p][j] => i = j
    <2> SUFFICES ASSUME NEW p \in Gates, NEW i \in 1 .. Len(gate'[p]),
                        NEW j \in 1 .. Len(gate'[p]), gate'[p][i] = gate'[p][j]
                 PROVE  i = j
      OBVIOUS
    <2>1. CASE p = q
      <3>1. i + 1 \in 1 .. Len(gate[q]) /\ j + 1 \in 1 .. Len(gate[q])
        BY <1>1, <1>3, <2>1
      <3>2. gate[q][i + 1] = gate[q][j + 1]
        BY <1>3, <2>1
      <3>3. i + 1 = j + 1
        BY <1>1, <3>1, <3>2 DEF GateMembers
      <3> QED BY <1>1, <1>3, <2>1, <3>3
    <2>2. CASE p # q
      BY <1>4, <2>2 DEF GateMembers
    <2> QED BY <2>1, <2>2
  <1>9. ASSUME NEW f \in Frames, ~ IsRoot(f), Pending(f), f # g
        PROVE  \E i \in 1 .. Len(gate'[site[f]]) : gate'[site[f]][i] = f
    <2>1. PICK i \in 1 .. Len(gate[site[f]]) : gate[site[f]][i] = f
      BY <1>9 DEF GateMembers
    <2>2. CASE site[f] = q
      <3>1. i # 1
        BY <1>1, <1>9, <2>1, <2>2
      <3>2. i - 1 \in 1 .. Len(gate'[q]) /\ gate'[q][i - 1] = gate[q][(i - 1) + 1]
        BY <1>1, <1>3, <2>1, <2>2, <3>1
      <3>3. (i - 1) + 1 = i
        BY <1>1, <2>1, <2>2
      <3> QED BY <2>1, <2>2, <3>2, <3>3
    <2>3. CASE site[f] # q
      BY <1>4, <1>9, <2>1, <2>3, GateIsGate
    <2> QED BY <2>2, <2>3
  <1>10. GateMembers'
    <2>1. \A p \in Gates : \A i \in 1 .. Len(gate'[p]) :
             (LET h == gate[p][i] IN ~ IsRoot(h) /\ Pending(h) /\ site[h] = p)'
      BY <1>7 DEF IsRoot, Pending
    <2>2. \A f \in Frames : ~ IsRoot(f)' /\ Pending(f)' =>
             \E i \in 1 .. Len(gate'[site[f]]) : gate'[site[f]][i] = f
      BY <1>5, <1>9 DEF Pending
    <2> QED BY <1>5, <1>8, <2>1, <2>2 DEF GateMembers
  <1>11. GateHead'
    <2> SUFFICES ASSUME NEW f \in Frames, ~ IsRoot(f)', Pending(f)', phase'[f] # "queued"
                 PROVE  gate'[site[f]] # <<>> /\ Head(gate'[site[f]]) = f
      BY <1>5 DEF GateHead
    <2>1. f # g /\ ~ IsRoot(f) /\ Pending(f) /\ phase[f] # "queued"
      BY <1>5 DEF Pending
    <2>2. site[f] \in Gates /\ Head(gate[site[f]]) = f /\ gate[site[f]] # <<>>
      BY <2>1, GateIsGate DEF GateHead
    <2>3. site[f] # q
      BY <2>1, <2>2
    <2> QED BY <1>4, <2>2, <2>3
  <1> QED BY <1>10, <1>11

(* A nested call joins the queue of its gate at the end. *)
LEMMA GateJoined ==
    ASSUME TypeOK, ChainOK, GateMembers, GateHead, NEW f \in Frames, NEW g \in Frames,
           CallNested(f, g)
    PROVE  GateMembers' /\ GateHead'
  <1> DEFINE q == SiteOf(f)
  <1>1. PICK c \in Frames : /\ ActsIn(f, c)
                            /\ owner' = [owner EXCEPT ![g] = c]
                            /\ site' = [site EXCEPT ![g] = q]
                            /\ gate' = [gate EXCEPT ![q] = Append(@, g)]
    BY DEF CallNested
  <1>2. /\ phase[g] = "idle" /\ IsRoot(g)
        /\ caller' = [caller EXCEPT ![g] = f]
        /\ phase' = [phase EXCEPT ![g] = "queued"]
    BY DEF CallNested, ChainOK
  <1>3. q \in Gates /\ gate[q] \in Seq(Frames)
    BY <1>1, ActingContext DEF TypeOK
  <1> HIDE DEF q
  <1>4. /\ Len(gate'[q]) = Len(gate[q]) + 1
        /\ gate'[q][Len(gate[q]) + 1] = g
        /\ \A i \in 1 .. Len(gate[q]) : gate'[q][i] = gate[q][i]
    BY <1>1, <1>3 DEF TypeOK
  <1>5. \A p \in Gates : p # q => gate'[p] = gate[p]
    BY <1>1 DEF TypeOK
  <1>6. \A p \in Gates : \A i \in 1 .. Len(gate[p]) :
           gate[p][i] \in Frames \ {g} /\ gate'[p][i] = gate[p][i]
    <2>1. \A p \in Gates : \A i \in 1 .. Len(gate[p]) : gate[p][i] \in Frames
      BY SMTT(60) DEF TypeOK
    <2> QED BY <1>2, <1>4, <1>5, <2>1 DEF GateMembers
  <1>7. \A h \in Frames \ {g} : /\ owner'[h] = owner[h] /\ site'[h] = site[h]
                               /\ phase'[h] = phase[h]
    BY <1>1, <1>2 DEF TypeOK
  <1>8. owner'[g] = c /\ site'[g] = q /\ phase'[g] = "queued" /\ c # NoFrame
    BY <1>1, <1>2, FramesAssumption DEF TypeOK
  <1>9. ASSUME NEW p \in Gates, NEW i \in 1 .. Len(gate'[p])
        PROVE  (LET h == gate[p][i] IN ~ IsRoot(h) /\ Pending(h) /\ site[h] = p)'
    <2>1. CASE p = q /\ i = Len(gate[q]) + 1
      BY <1>3, <1>4, <1>8, <2>1 DEF IsRoot, Pending
    <2>2. CASE ~ (p = q /\ i = Len(gate[q]) + 1)
      <3>1. i \in 1 .. Len(gate[p])
        <4>1. CASE p # q
          BY <1>5, <4>1
        <4>2. CASE p = q
          <5>1. Len(gate[q]) \in Nat
            BY <1>3
          <5>2. i \in 1 .. Len(gate[q]) + 1 /\ i # Len(gate[q]) + 1
            BY <1>4, <2>2, <4>2
          <5> QED BY <4>2, <5>1, <5>2
        <4> QED BY <4>1, <4>2
      <3>2. PICK h \in Frames \ {g} : h = gate[p][i]
        BY <1>6, <3>1
      <3>3. ~ IsRoot(h) /\ Pending(h) /\ site[h] = p
        BY <3>1, <3>2 DEF GateMembers
      <3>4. h = gate'[p][i]
        BY <1>6, <3>1, <3>2
      <3> QED BY <1>7, <3>3, <3>4 DEF IsRoot, Pending
    <2> QED BY <2>1, <2>2
  <1>10. ASSUME NEW p \in Gates, NEW i \in 1 .. Len(gate'[p]), NEW j \in 1 .. Len(gate'[p]),
                gate'[p][i] = gate'[p][j]
         PROVE  i = j
    <2>1. CASE p # q
      BY <1>5, <1>10, <2>1 DEF GateMembers
    <2>2. CASE p = q /\ i \in 1 .. Len(gate[q]) /\ j \in 1 .. Len(gate[q])
      <3>1. gate[q][i] = gate[q][j]
        BY <1>4, <1>10, <2>2
      <3> QED BY <1>3, <2>2, <3>1 DEF GateMembers
    <2>3. CASE p = q /\ ~ (i \in 1 .. Len(gate[q]) /\ j \in 1 .. Len(gate[q]))
      <3>1. i = Len(gate[q]) + 1 \/ j = Len(gate[q]) + 1
        BY <1>3, <1>4, <2>3
      <3>2. gate'[p][i] = g
        BY <1>4, <1>10, <2>3, <3>1
      <3>3. gate'[p][j] = g
        BY <1>10, <3>2
      <3> QED BY <1>3, <1>4, <1>6, <2>3, <3>2, <3>3, SMTT(60)
    <2> QED BY <2>1, <2>2, <2>3
  <1>11. ASSUME NEW h \in Frames, ~ IsRoot(h)', Pending(h)'
         PROVE  (\E i \in 1 .. Len(gate[site[h]]) : gate[site[h]][i] = h)'
    <2>1. CASE h = g
      <3>1. site'[h] = q
        BY <1>8, <2>1
      <3> QED BY <1>3, <1>4, <2>1, <3>1
    <2>2. CASE h # g
      <3>1. ~ IsRoot(h) /\ Pending(h) /\ site'[h] = site[h]
        BY <1>7, <1>11, <2>2 DEF IsRoot, Pending
      <3>2. PICK i \in 1 .. Len(gate[site[h]]) : gate[site[h]][i] = h
        BY <3>1 DEF GateMembers
      <3>3. site[h] \in Gates
        BY <3>1, GateIsGate
      <3>4. gate'[site[h]][i] = h
        BY <1>6, <3>2, <3>3
      <3>5. i \in 1 .. Len(gate'[site[h]])
        BY <1>3, <1>4, <1>5, <3>3
      <3> QED BY <3>1, <3>4, <3>5
    <2> QED BY <2>1, <2>2
  <1>12. GateMembers'
    BY <1>9, <1>10, <1>11 DEF GateMembers
  <1>13. ASSUME NEW h \in Frames, ~ IsRoot(h)', Pending(h)', phase'[h] # "queued"
         PROVE  (gate[site[h]] # <<>> /\ Head(gate[site[h]]) = h)'
    <2>1. h # g
      BY <1>8, <1>13
    <2>2. ~ IsRoot(h) /\ Pending(h) /\ phase[h] # "queued" /\ site'[h] = site[h]
      BY <1>7, <1>13, <2>1 DEF IsRoot, Pending
    <2>3. site[h] \in Gates /\ gate[site[h]] # <<>> /\ Head(gate[site[h]]) = h
      BY <2>2, GateIsGate DEF GateHead
    <2>4. gate[site[h]] \in Seq(Frames) /\ Len(gate[site[h]]) >= 1
      BY <2>3 DEF TypeOK
    <2>5. CASE site[h] = q
      <3>1. gate'[q] = Append(gate[q], g)
        BY <1>1, <1>3 DEF TypeOK
      <3> QED BY <1>3, <2>2, <2>3, <2>4, <2>5, <3>1
    <2>6. CASE site[h] # q
      BY <1>5, <2>2, <2>3, <2>6
    <2> QED BY <2>5, <2>6
  <1>14. GateHead'
    BY <1>13 DEF GateHead
  <1> QED BY <1>12, <1>14

(* The first call in the queue of a gate opens. *)
LEMMA GateOpened ==
    ASSUME TypeOK, ChainOK, GateMembers, GateHead, NEW g \in Frames, Open(g)
    PROVE  GateMembers' /\ GateHead'
  <1>1. /\ phase[g] = "queued" /\ Head(gate[site[g]]) = g
        /\ phase' = [phase EXCEPT ![g] = "running"]
        /\ UNCHANGED <<site, owner, gate>>
    BY DEF Open
  <1>2. \A f \in Frames : /\ site'[f] = site[f] /\ IsRoot(f)' = IsRoot(f)
                          /\ Pending(f)' <=> Pending(f)
    BY <1>1 DEF IsRoot, Pending, TypeOK
  <1>3. ASSUME NEW p \in Gates, NEW i \in 1 .. Len(gate[p])
        PROVE  (LET h == gate[p][i] IN ~ IsRoot(h) /\ Pending(h) /\ site[h] = p)'
    <2>1. PICK h \in Frames : h = gate[p][i]
      BY DEF TypeOK
    <2>2. ~ IsRoot(h) /\ Pending(h) /\ site[h] = p
      BY <2>1 DEF GateMembers
    <2> QED BY <1>1, <2>1, <2>2 DEF IsRoot, Pending, TypeOK
  <1>4. GateMembers'
    BY <1>1, <1>2, <1>3 DEF GateMembers
  <1>5. ASSUME NEW f \in Frames, ~ IsRoot(f)', Pending(f)', phase'[f] # "queued"
        PROVE  gate[site[f]] # <<>> /\ Head(gate[site[f]]) = f
    <2>1. CASE f = g
      <3>1. ~ IsRoot(g) /\ Pending(g)
        BY <1>2, <1>5, <2>1
      <3>2. Len(gate[site[g]]) >= 1 /\ site[g] \in Gates
        BY <3>1, GateNotEmpty, GateIsGate
      <3> QED BY <1>1, <2>1, <3>2 DEF TypeOK
    <2>2. CASE f # g
      <3>1. ~ IsRoot(f) /\ Pending(f) /\ phase[f] # "queued"
        BY <1>1, <1>2, <1>5, <2>2 DEF TypeOK
      <3> QED BY <3>1 DEF GateHead
    <2> QED BY <2>1, <2>2
  <1>6. GateHead'
    BY <1>1, <1>2, <1>5 DEF GateHead
  <1> QED BY <1>4, <1>6

(* The first in the queue of its gate: a nested call that is open. *)
LEMMA OpenIsFirst ==
    ASSUME TypeOK, ChainOK, GateHead, NEW g \in Frames,
           ~ IsRoot(g), Pending(g), phase[g] # "queued"
    PROVE  Head(gate[site[g]]) = g
  BY DEF GateHead

(* The gates survive every step. *)
LEMMA GateStep == TypeOK /\ Structure /\ [Next]_vars => GateMembers' /\ GateHead'
  <1> SUFFICES ASSUME TypeOK, ChainOK, RootPhases, GateMembers, GateHead, [Next]_vars
               PROVE  GateMembers' /\ GateHead'
    BY DEF Structure
  <1>1. CASE Begin
    <2>1. IsRoot(Top)
      BY <1>1, FramesAssumption DEF Begin, ChainOK
    <2> QED BY <1>1, <2>1, GateFrame DEF Begin, Pending, TypeOK
  <1>2. ASSUME NEW f \in Frames, NEW g \in Frames, CallNested(f, g)
        PROVE  GateMembers' /\ GateHead'
    BY <1>2, GateJoined
  <1>3. ASSUME NEW f \in Frames, NEW g \in Frames, CallRequiresNew(f, g)
        PROVE  GateMembers' /\ GateHead'
    <2>1. IsRoot(g)
      BY <1>3 DEF CallRequiresNew, ChainOK
    <2> QED BY <1>3, <2>1, GateFrame DEF CallRequiresNew, Pending, TypeOK
  <1>4. ASSUME NEW f \in Frames, Open(f) PROVE GateMembers' /\ GateHead'
    BY <1>4, GateOpened
  <1>5. ASSUME NEW f \in Frames, OpenFails(f) PROVE GateMembers' /\ GateHead'
    <2>1. ~ IsRoot(f) /\ Pending(f)
      BY <1>5 DEF OpenFails, Pending, RootPhases
    <2> QED BY <1>5, <2>1, GateLeft DEF OpenFails, Pending, TypeOK
  <1>6. ASSUME NEW f \in Frames, Resolve(f) PROVE GateMembers' /\ GateHead'
    <2>1. ~ IsRoot(f) /\ Pending(f) /\ Head(gate[site[f]]) = f
      BY <1>6, OpenIsFirst DEF Resolve, Pending
    <2> QED BY <1>6, <2>1, GateLeft DEF Resolve, Pending, TypeOK
  <1>7. ASSUME NEW f \in Frames, SettleRejected(f) PROVE GateMembers' /\ GateHead'
    <2>1. CASE IsRoot(f)
      BY <1>7, <2>1, GateFrame DEF SettleRejected, Pending, TypeOK
    <2>2. CASE ~ IsRoot(f)
      <3>1. Pending(f) /\ Head(gate[site[f]]) = f
        BY <1>7, <2>2, OpenIsFirst DEF SettleRejected, Pending
      <3> QED BY <1>7, <2>2, <3>1, GateLeft DEF SettleRejected, Pending, TypeOK
    <2> QED BY <2>1, <2>2
  <1>8. ASSUME NEW f \in Frames,
               Reject(f) \/ RollbackTo(f) \/ Finish(f) \/ FinishFails(f) \/ Rollback(f)
        PROVE  GateMembers' /\ GateHead'
    BY <1>8, GateFrame
       DEF Reject, RollbackTo, Finish, FinishFails, Rollback, Pending, TypeOK
  <1>9. ASSUME NEW f \in Frames, Commit(f) PROVE GateMembers' /\ GateHead'
    <2>1. IsRoot(f)
      BY <1>9 DEF Commit, RootPhases
    <2> QED BY <1>9, <2>1, GateFrame DEF Commit, Pending, TypeOK
  <1>10. ASSUME UNCHANGED control PROVE GateMembers' /\ GateHead'
    BY <1>10, GateFrame DEF control, Pending
  <1>11. ASSUME NEW f \in Frames,
                \/ Write(f) \/ StatementFails(f) \/ BeforeCommitEnds(f)
                \/ AfterRollbackEnds(f) \/ \E k \in HookKinds : Register(f, k)
         PROVE  UNCHANGED control
    BY <1>11 DEF Write, StatementFails, BeforeCommitEnds, AfterRollbackEnds, Register
  <1>12. CASE Terminated \/ UNCHANGED vars
    BY <1>10, <1>12 DEF Terminated, vars
  <1> QED BY <1>1, <1>2, <1>3, <1>4, <1>5, <1>6, <1>7, <1>8, <1>9, <1>10, <1>11,
             <1>12 DEF Next, Step

(* A call becomes nested when it queues, and only a root finishes. *)
LEMMA RootPhasesStep == TypeOK /\ Structure /\ [Next]_vars => RootPhases'
  <1> SUFFICES ASSUME TypeOK, ChainOK, RootPhases, [Next]_vars,
                      NEW d \in Frames
               PROVE  /\ phase'[d] = "finishing" => owner'[d] = NoFrame
                      /\ phase'[d] = "queued" => owner'[d] # NoFrame
    BY DEF Structure, RootPhases, IsRoot
  <1>1. CASE Begin
    BY <1>1 DEF Begin, RootPhases, IsRoot, TypeOK
  <1>2. ASSUME NEW f \in Frames, NEW g \in Frames,
               CallNested(f, g) \/ CallRequiresNew(f, g)
        PROVE  /\ phase'[d] = "finishing" => owner'[d] = NoFrame
               /\ phase'[d] = "queued" => owner'[d] # NoFrame
    <2>1. CASE CallNested(f, g)
      <3>1. PICK c \in Frames : owner' = [owner EXCEPT ![g] = c]
        BY <2>1 DEF CallNested
      <3>2. phase' = [phase EXCEPT ![g] = "queued"]
        BY <2>1 DEF CallNested
      <3> QED BY <3>1, <3>2, FramesAssumption DEF RootPhases, IsRoot, TypeOK
    <2>2. CASE CallRequiresNew(f, g)
      BY <2>2 DEF CallRequiresNew, RootPhases, IsRoot, TypeOK
    <2> QED BY <1>2, <2>1, <2>2
  <1>3. ASSUME NEW f \in Frames,
               \/ Open(f) \/ OpenFails(f) \/ Resolve(f) \/ Reject(f)
               \/ RollbackTo(f) \/ SettleRejected(f)
               \/ Finish(f) \/ Commit(f) \/ FinishFails(f) \/ Rollback(f)
        PROVE  /\ phase'[d] = "finishing" => owner'[d] = NoFrame
               /\ phase'[d] = "queued" => owner'[d] # NoFrame
    <2>1. owner' = owner
      BY <1>3, NotACall
    <2>2. CASE Finish(f)
      BY <2>1, <2>2 DEF Finish, RootPhases, IsRoot, TypeOK
    <2>3. CASE ~ Finish(f)
      <3>1. phase'[d] = phase[d] \/ phase'[d] \notin {"finishing", "queued"}
        <4>1. CASE Open(f) \/ OpenFails(f) \/ Resolve(f) \/ Reject(f)
          BY <4>1 DEF Open, OpenFails, Resolve, Reject, TypeOK
        <4>2. CASE RollbackTo(f) \/ SettleRejected(f)
          BY <4>2 DEF RollbackTo, SettleRejected, TypeOK
        <4>3. CASE Commit(f) \/ FinishFails(f) \/ Rollback(f)
          BY <4>3 DEF Commit, FinishFails, Rollback, TypeOK
        <4> QED BY <1>3, <2>3, <4>1, <4>2, <4>3
      <3> QED BY <2>1, <3>1 DEF RootPhases, IsRoot
    <2> QED BY <2>2, <2>3
  <1>4. ASSUME NEW f \in Frames,
               \/ Write(f) \/ StatementFails(f) \/ BeforeCommitEnds(f)
               \/ AfterRollbackEnds(f) \/ \E k \in HookKinds : Register(f, k)
        PROVE  /\ phase'[d] = "finishing" => owner'[d] = NoFrame
               /\ phase'[d] = "queued" => owner'[d] # NoFrame
    BY <1>4 DEF Write, StatementFails, BeforeCommitEnds, AfterRollbackEnds, Register,
                control, RootPhases, IsRoot
  <1>5. CASE Terminated \/ UNCHANGED vars
    BY <1>5 DEF Terminated, vars, control, RootPhases, IsRoot
  <1> QED BY <1>1, <1>2, <1>3, <1>4, <1>5 DEF Next, Step

LEMMA StructureStep == TypeOK /\ Structure /\ [Next]_vars => Structure'
  BY ChainStep, GateStep, RootPhasesStep DEF Structure
-----------------------------------------------------------------------------
(* Types *)

(* A call that is pending leaves a gate that holds it. *)
LEMMA LeaveGateType ==
    ASSUME TypeOK, Structure, NEW g \in Frames, ~ IsRoot(g), Pending(g), LeaveGate(g)
    PROVE  gate' \in [Gates -> Seq(Frames)]
  <1>1. /\ site[g] \in Gates /\ Len(gate[site[g]]) >= 1
        /\ gate[site[g]] \in Seq(Frames)
    BY GateIsGate, GateNotEmpty DEF Structure, TypeOK
  <1>2. Tail(gate[site[g]]) \in Seq(Frames)
    BY <1>1
  <1> QED BY <1>1, <1>2 DEF LeaveGate, TypeOK

(* Cutting a log back to a SAVEPOINT that it holds leaves a log. *)
LEMMA CutToType ==
    ASSUME NEW entries \in Seq(Entries), NEW g, Holds(entries, SavepointOf(g))
    PROVE  CutTo(entries, g) \in Seq(Entries)
  <1> DEFINE at == CHOOSE i \in DOMAIN entries : entries[i] = SavepointOf(g)
  <1>1. at \in DOMAIN entries
    BY DEF Holds
  <1>2. at \in 1 .. Len(entries)
    BY <1>1
  <1> HIDE DEF at
  <1>3. at \in Int /\ \A i \in 1 .. at : entries[i] \in Entries
    BY <1>2
  <1>4. SubSeq(entries, 1, at) \in Seq(Entries)
    BY <1>3, SubSeqProperties
  <1> QED BY <1>4 DEF CutTo, at

(* A hook occurs a finite number of times in a queue. *)
LEMMA OccurrencesType ==
    ASSUME NEW queue \in Seq(Hooks), NEW h
    PROVE  Occurrences(queue, h) \in Nat
  <1>1. DOMAIN queue = 1 .. Len(queue) /\ Len(queue) \in Nat
    OBVIOUS
  <1>2. IsFiniteSet(1 .. Len(queue))
    BY <1>1, FS_Interval
  <1>3. {i \in DOMAIN queue : queue[i] = h} \subseteq 1 .. Len(queue)
    BY <1>1
  <1>4. IsFiniteSet({i \in DOMAIN queue : queue[i] = h})
    BY <1>2, <1>3, FS_Subset
  <1> QED BY <1>4, FS_CardinalityType DEF Occurrences

(* What a rollback leaves of the queues of a frame. *)
LEMMA RollbackHooksType ==
    ASSUME TypeOK, NEW f \in Frames
    PROVE  OnlyRollbackHooks(f) \in [Frames -> [Kinds -> Seq(Hooks)]]
  <1>1. <<>> \in Seq(Hooks)
    OBVIOUS
  <1> DEFINE dropped == [hooks EXCEPT ![f]["beforeCommit"] = <<>>]
  <1>2. dropped \in [Frames -> [Kinds -> Seq(Hooks)]]
    BY <1>1 DEF TypeOK
  <1>3. [dropped EXCEPT ![f]["afterCommit"] = <<>>] \in [Frames -> [Kinds -> Seq(Hooks)]]
    BY <1>1, <1>2
  <1> QED BY <1>3 DEF OnlyRollbackHooks

(* Every step keeps the types. *)
LEMMA TypeStep == TypeOK /\ Structure /\ [Next]_vars => TypeOK'
  <1> SUFFICES ASSUME TypeOK, Structure, [Next]_vars PROVE TypeOK'
    OBVIOUS
  <1> USE DEF control, queues, data
  <1>1. CASE Begin
    BY <1>1 DEF Begin, Phases, TypeOK
  <1>2. ASSUME NEW f \in Frames, NEW g \in Frames, CallNested(f, g) PROVE TypeOK'
    <2>1. PICK c \in Frames :
            /\ ActsIn(f, c)
            /\ owner' = [owner EXCEPT ![g] = c]
            /\ enclosing' = [enclosing EXCEPT ![g] = {g} \cup enclosing[c]]
            /\ site' = [site EXCEPT ![g] = SiteOf(f)]
            /\ gate' = [gate EXCEPT ![SiteOf(f)] = Append(@, g)]
      BY <1>2 DEF CallNested
    <2>2. SiteOf(f) \in Gates
      BY <2>1, ActingContext DEF Structure
    <2>3. gate' \in [Gates -> Seq(Frames)]
      BY <2>1, <2>2 DEF TypeOK
    <2>4. enclosing' \in [Frames -> SUBSET Frames]
      BY <2>1 DEF TypeOK
    <2>5. site' \in [Frames -> Gates \cup {NoGate}]
      BY <2>1, <2>2 DEF TypeOK
    <2> QED BY <1>2, <2>1, <2>3, <2>4, <2>5 DEF CallNested, Phases, TypeOK
  <1>3. ASSUME NEW f \in Frames, NEW g \in Frames, CallRequiresNew(f, g) PROVE TypeOK'
    <2>1. SiteOf(f) \in Gates \cup {NoGate}
      BY <1>3, SiteCalled DEF CallRequiresNew, Structure
    <2>2. site' \in [Frames -> Gates \cup {NoGate}]
      BY <1>3, <2>1 DEF CallRequiresNew, TypeOK
    <2> QED BY <1>3, <2>2 DEF CallRequiresNew, Phases, TypeOK
  <1>4. ASSUME NEW g \in Frames, Open(g) PROVE TypeOK'
    <2>1. Conn(g) \in Frames /\ SavepointOf(g) \in Entries
      BY ConnIsFrame DEF Structure, Entries
    <2>2. log' \in [Frames -> Seq(Entries)]
      BY <1>4, <2>1 DEF Open, TypeOK
    <2> QED BY <1>4, <2>2 DEF Open, Phases, TypeOK
  <1>5. ASSUME NEW g \in Frames, OpenFails(g) PROVE TypeOK'
    <2>1. ~ IsRoot(g) /\ Pending(g)
      BY <1>5 DEF OpenFails, Structure, RootPhases, Pending
    <2>2. gate' \in [Gates -> Seq(Frames)]
      BY <1>5, <2>1, LeaveGateType DEF OpenFails
    <2> QED BY <1>5, <2>2 DEF OpenFails, Phases, TypeOK
  <1>6. ASSUME NEW g \in Frames, Resolve(g) PROVE TypeOK'
    <2>1. gate' \in [Gates -> Seq(Frames)]
      BY <1>6, LeaveGateType DEF Resolve, Pending
    <2>2. owner[g] \in Frames
      BY <1>6 DEF Resolve, IsRoot, TypeOK
    <2>3. [k \in Kinds |-> hooks[owner[g]][k] \o hooks[g][k]] \in [Kinds -> Seq(Hooks)]
      BY <2>2 DEF TypeOK
    <2>4. Promoted(g) \in [Frames -> [Kinds -> Seq(Hooks)]]
      <3> DEFINE merged == [k \in Kinds |-> hooks[owner[g]][k] \o hooks[g][k]]
      <3>1. merged \in [Kinds -> Seq(Hooks)] /\ [k \in Kinds |-> <<>>] \in [Kinds -> Seq(Hooks)]
        BY <2>3
      <3>2. Promoted(g) = [hooks EXCEPT ![owner[g]] = merged, ![g] = [k \in Kinds |-> <<>>]]
        BY <2>2 DEF Promoted, TypeOK
      <3> HIDE DEF merged
      <3> QED BY <3>1, <3>2 DEF TypeOK
    <2> QED BY <1>6, <2>1, <2>4 DEF Resolve, Phases, TypeOK
  <1>7. ASSUME NEW f \in Frames, Reject(f) PROVE TypeOK'
    BY <1>7 DEF Reject, Phases, TypeOK
  <1>8. ASSUME NEW g \in Frames, RollbackTo(g) PROVE TypeOK'
    <2> DEFINE r == Conn(g)
    <2>1. r \in Frames
      BY ConnIsFrame DEF Structure
    <2>2. aborted' \subseteq Frames
      BY <1>8, <2>1 DEF RollbackTo, TypeOK
    <2>3. log' \in [Frames -> Seq(Entries)]
      <3>1. CASE InTransaction(r) /\ Holds(log[r], SavepointOf(g))
        <4>1. CutTo(log[r], g) \in Seq(Entries)
          BY <2>1, <3>1, CutToType DEF TypeOK
        <4> QED BY <1>8, <2>1, <3>1, <4>1 DEF RollbackTo, TypeOK
      <3>2. CASE ~ (InTransaction(r) /\ Holds(log[r], SavepointOf(g)))
        BY <1>8, <3>2 DEF RollbackTo, TypeOK
      <3> QED BY <3>1, <3>2
    <2>4. hooks' \in [Frames -> [Kinds -> Seq(Hooks)]]
      BY <1>8, RollbackHooksType DEF RollbackTo
    <2> QED BY <1>8, <2>2, <2>3, <2>4 DEF RollbackTo, Phases, TypeOK
  <1>9. ASSUME NEW f \in Frames, SettleRejected(f) PROVE TypeOK'
    <2>1. gate' \in [Gates -> Seq(Frames)]
      BY <1>9, LeaveGateType DEF SettleRejected, Pending, TypeOK
    <2> QED BY <1>9, <2>1 DEF SettleRejected, Phases, TypeOK
  <1>10. ASSUME NEW r \in Frames, Finish(r) PROVE TypeOK'
    <2>1. hooks[r]["beforeCommit"] \in Seq(Hooks)
      BY DEF Kinds, TypeOK
    <2> QED BY <1>10, <2>1 DEF Finish, Phases, TypeOK
  <1>11. ASSUME NEW r \in Frames, Commit(r) PROVE TypeOK'
    <2>1. hooks[r]["afterCommit"] \in Seq(Hooks)
      BY DEF Kinds, TypeOK
    <2>2. ASSUME NEW h \in Hooks
          PROVE  ran[h] + Occurrences(hooks[r]["afterCommit"], h) \in Nat
      <3>1. Occurrences(hooks[r]["afterCommit"], h) \in Nat
        BY <2>1, OccurrencesType
      <3> QED BY <3>1 DEF TypeOK
    <2>3. ran' \in [Hooks -> Nat]
      BY <1>11, <2>2 DEF Commit
    <2>4. log' \in [Frames -> Seq(Entries)] /\ durable' \subseteq Writes
      BY <1>11 DEF Commit, WritesIn, TypeOK
    <2>5. hooks' \in [Frames -> [Kinds -> Seq(Hooks)]]
      BY <1>11 DEF Commit, TypeOK
    <2> QED BY <1>11, <2>3, <2>4, <2>5 DEF Commit, Phases, TypeOK
  <1>12. ASSUME NEW r \in Frames, FinishFails(r) PROVE TypeOK'
    BY <1>12 DEF FinishFails, Phases, TypeOK
  <1>13. ASSUME NEW r \in Frames, Rollback(r) PROVE TypeOK'
    <2>1. hooks' \in [Frames -> [Kinds -> Seq(Hooks)]]
      BY <1>13, RollbackHooksType DEF Rollback
    <2>2. log' \in [Frames -> Seq(Entries)] /\ aborted' \subseteq Frames
      BY <1>13 DEF Rollback, TypeOK
    <2> QED BY <1>13, <2>1, <2>2 DEF Rollback, Phases, TypeOK
  <1>14. ASSUME NEW f \in Frames, Write(f) PROVE TypeOK'
    <2>1. PICK c \in Frames :
            /\ writes[c] < MaxWrites
            /\ writes' = [writes EXCEPT ![c] = @ + 1]
            /\ log' = [log EXCEPT ![Conn(c)] = Append(@, WriteOf(c, writes[c] + 1))]
            /\ astray' = astray \/ astray' = astray \cup {WriteOf(c, writes[c] + 1)}
            /\ UNCHANGED <<control, queues, aborted, durable>>
      BY <1>14 DEF Write
    <2>2. writes[c] + 1 \in 1 .. MaxWrites
      BY <2>1, FramesAssumption, SMTT(60) DEF TypeOK
    <2>6. astray' \subseteq Writes
      <3>1. WriteOf(c, writes[c] + 1) \in Writes
        BY <2>2 DEF Writes
      <3> QED BY <2>1, <3>1 DEF TypeOK
    <2>3. WriteOf(c, writes[c] + 1) \in Entries /\ Conn(c) \in Frames
      BY <2>2, ConnIsFrame DEF Writes, Entries, Structure
    <2>4. log' \in [Frames -> Seq(Entries)]
      BY <2>1, <2>3 DEF TypeOK
    <2>5. writes' \in [Frames -> 0 .. MaxWrites]
      BY <2>1, <2>2, FramesAssumption, SMTT(60) DEF TypeOK
    <2> QED BY <2>1, <2>4, <2>5, <2>6 DEF TypeOK
  <1>15. ASSUME NEW f \in Frames, StatementFails(f) PROVE TypeOK'
    BY <1>15, ConnIsFrame DEF StatementFails, Structure, TypeOK
  <1>16. ASSUME NEW r \in Frames, BeforeCommitEnds(r) PROVE TypeOK'
    <2>1. Head(snapshot[r]) \in Hooks /\ Tail(snapshot[r]) \in Seq(Hooks)
      BY <1>16 DEF BeforeCommitEnds, TypeOK
    <2> QED BY <1>16, <2>1, SMTT(60) DEF BeforeCommitEnds, TypeOK
  <1>17. ASSUME NEW f \in Frames, AfterRollbackEnds(f) PROVE TypeOK'
    <2> DEFINE queue == hooks[f]["afterRollback"]
    <2>1. queue \in Seq(Hooks) /\ queue # <<>>
      BY <1>17 DEF AfterRollbackEnds, Kinds, TypeOK
    <2>2. Head(queue) \in Hooks /\ Tail(queue) \in Seq(Hooks)
      BY <2>1
    <2>3. hooks' \in [Frames -> [Kinds -> Seq(Hooks)]]
      BY <1>17, <2>2 DEF AfterRollbackEnds, TypeOK
    <2>4. ran' \in [Hooks -> Nat]
      BY <1>17, <2>2, SMTT(60) DEF AfterRollbackEnds, TypeOK
    <2> QED BY <1>17, <2>3, <2>4 DEF AfterRollbackEnds, TypeOK
  <1>18. ASSUME NEW f \in Frames, NEW k \in HookKinds, Register(f, k) PROVE TypeOK'
    <2>1. PICK c \in Frames :
            /\ Len(hooked[c]) < MaxHooks
            /\ hooked' = [hooked EXCEPT ![c] = Append(@, k)]
            /\ hooks' = [hooks EXCEPT ![c][k] = Append(@, <<c, Len(hooked[c]) + 1>>)]
            /\ UNCHANGED <<control, snapshot, ran, data>>
      BY <1>18 DEF Register
    <2>2. k \in Kinds
      BY BoundsAssumption
    <2>3. Len(hooked[c]) + 1 \in 1 .. MaxHooks
      BY <2>1, FramesAssumption, SMTT(60) DEF TypeOK
    <2>4. <<c, Len(hooked[c]) + 1>> \in Hooks
      BY <2>3 DEF Hooks
    <2>5. Append(hooks[c][k], <<c, Len(hooked[c]) + 1>>) \in Seq(Hooks)
      BY <2>2, <2>4 DEF TypeOK
    <2>6. hooks' \in [Frames -> [Kinds -> Seq(Hooks)]]
      BY <2>1, <2>5 DEF TypeOK
    <2>7. hooked' \in [Frames -> Seq(Kinds)]
      BY <2>1, <2>2 DEF TypeOK
    <2> QED BY <2>1, <2>6, <2>7 DEF TypeOK
  <1>19. CASE Terminated \/ UNCHANGED vars
    BY <1>19 DEF Terminated, vars, TypeOK
  <1> QED BY <1>1, <1>2, <1>3, <1>4, <1>5, <1>6, <1>7, <1>8, <1>9, <1>10, <1>11, <1>12,
             <1>13, <1>14, <1>15, <1>16, <1>17, <1>18, <1>19 DEF Next, Step

-----------------------------------------------------------------------------
(* Theorems *)

LEMMA StructureInitially == Init => TypeOK /\ Structure
  <1> SUFFICES ASSUME Init PROVE TypeOK /\ Structure
    OBVIOUS
  <1>1. TypeOK
    BY FramesAssumption DEF Init, TypeOK, Phases
  <1>2. ChainOK /\ RootPhases /\ GateHead
    <2>1. \A f \in Frames : site[f] \notin Gates
      BY FramesAssumption DEF Init, NoGate, Gates
    <2> QED BY <2>1 DEF Init, ChainOK, RootPhases, GateHead, IsRoot
  <1>3. GateMembers
    BY DEF Init, GateMembers, IsRoot
  <1> QED BY <1>1, <1>2, <1>3 DEF Structure

LEMMA StructureAlways == Spec => [](TypeOK /\ Structure)
  <1>1. TypeOK /\ Structure /\ [Next]_vars => (TypeOK /\ Structure)'
    BY TypeStep, StructureStep
  <1> QED BY <1>1, StructureInitially, PTL DEF Spec

(* Every variable keeps its type: no call leaves a gate that is empty, and   *)
(* no statement is sent but on the connection of a root (context.ts,         *)
(* runner.ts).                                                               *)
THEOREM FramesTypeCorrect == Spec => []TypeOK
  BY StructureAlways, PTL

(* Of the nested calls that share a gate, at most one is open. *)
OneOpenPerGate ==
    \A f, g \in Frames :
        /\ ~ IsRoot(f) /\ Pending(f) /\ phase[f] # "queued"
        /\ ~ IsRoot(g) /\ Pending(g) /\ phase[g] # "queued"
        /\ site[f] = site[g]
        => f = g

(* createNestedFrameGate's chain of promises is a mutex, for siblings and    *)
(* for the calls a compensation makes, however many are started at once and  *)
(* whatever order they settle in.                                            *)
THEOREM GateIsMutex == Spec => []OneOpenPerGate
  <1>1. TypeOK /\ Structure => OneOpenPerGate
    BY DEF Structure, GateHead, OneOpenPerGate
  <1> QED BY <1>1, StructureAlways, PTL

-----------------------------------------------------------------------------
(* Savepoints nest *)

(* The frame in whose code, or in whose savepoint's compensation, a call     *)
(* stands by the context it was made in: its caller, unless that is the      *)
(* compensation of a root, which runs in the context of its own caller.      *)
Host(g) == site[g][1]

(* Nobody is his own caller's caller, or his own owner's owner: every set of *)
(* calls has one whose caller, one whose owner and one whose host is not in  *)
(* it.                                                                       *)
WellFounded ==
    \A S \in SUBSET Frames : S # {} =>
        /\ \E x \in S : caller[x] \notin S
        /\ \E x \in S : owner[x] \notin S
        /\ \E x \in S : Host(x) \notin S

(* A frame not called yet has no caller, and is nobody's; a call nobody made *)
(* was made in no context, and only a call with requiresNew is a root made   *)
(* in one.                                                                   *)
IdleUncalled ==
    \A f \in Frames : /\ phase[f] = "idle" => caller[f] = NoFrame
                      /\ caller[f] \in Frames => phase[caller[f]] # "idle"
                      /\ caller[f] \notin Frames => site[f] = NoGate
                      /\ site[f] \in Gates /\ IsRoot(f) => f \in NewRoots \ {Top}

EnclosingIs ==
    \A f \in Frames :
        enclosing[f] = {f} \cup (IF IsRoot(f) THEN {} ELSE enclosing[owner[f]])

(* Who made a call that is pending is still in the code that made it, and    *)
(* that code in the context the call was made in.                            *)
Awaited ==
    \A g \in Frames : Pending(g) /\ caller[g] \in Frames =>
        UserCodeIn(caller[g]) /\ site[g] = SiteOf(caller[g])

Nesting == WellFounded /\ IdleUncalled /\ EnclosingIs /\ Awaited

(* Who opened a frame, and has not settled it. *)
Within(o) == {x \in Frames : ~ IsRoot(x) /\ Pending(x) /\ phase[x] # "queued" /\ owner[x] = o}

(* A context that a pending call was made in is that of code that runs: the  *)
(* callback of its frame, or the compensation of a savepoint.                *)
LEMMA HostRuns ==
    ASSUME TypeOK, Structure, Nesting, NEW g \in Frames, Pending(g), site[g] \in Gates
    PROVE  /\ Host(g) \in Frames /\ UserCodeIn(Host(g))
           /\ \/ site[g] = <<Host(g), "own">> /\ phase[Host(g)] \in {"running", "finishing"}
              \/ /\ site[g] = <<Host(g), "fresh">>
                 /\ phase[Host(g)] = "compensating" /\ ~ IsRoot(Host(g))
  <1> DEFINE Good(d, x) == /\ x \in Frames /\ UserCodeIn(x)
                           /\ \/ site[d] = <<x, "own">> /\ phase[x] \in {"running", "finishing"}
                              \/ /\ site[d] = <<x, "fresh">>
                                 /\ phase[x] = "compensating" /\ ~ IsRoot(x)
             S == {d \in Frames : Pending(d) /\ site[d] \in Gates /\ ~ \E x \in Frames : Good(d, x)}
  <1>1. S = {}
    <2> SUFFICES ASSUME S # {} PROVE FALSE
      OBVIOUS
    <2>1. PICK d \in S : caller[d] \notin S
      BY DEF Nesting, WellFounded
    <2>2. caller[d] \in Frames
      BY <2>1, FramesAssumption DEF Nesting, IdleUncalled, NoGate, Gates
    <2>3. PICK b \in Frames : b = caller[d]
      BY <2>2
    <2>4. UserCodeIn(b) /\ site[d] = SiteOf(b)
      BY <2>1, <2>3 DEF Nesting, Awaited
    <2>5. CASE phase[b] # "compensating"
      BY <2>1, <2>4, <2>5 DEF SiteOf, UserCodeIn
    <2>6. CASE phase[b] = "compensating" /\ ~ IsRoot(b)
      BY <2>1, <2>4, <2>6 DEF SiteOf
    <2>7. CASE phase[b] = "compensating" /\ IsRoot(b)
      <3>1. site[d] = site[b] /\ Pending(b) /\ site[b] \in Gates
        BY <2>1, <2>4, <2>7 DEF SiteOf, Pending
      <3>2. PICK x \in Frames : Good(b, x)
        BY <2>1, <2>3, <3>1
      <3> QED BY <2>1, <3>1, <3>2
    <2> QED BY <2>5, <2>6, <2>7
  <1>2. PICK x \in Frames : Good(g, x)
    BY <1>1
  <1>3. Host(g) = x
    BY <1>2 DEF Host
  <1> QED BY <1>2, <1>3

(* A pending nested call was made by its owner, or by a compensation that    *)
(* runs in its owner's context.                                              *)
LEMMA MadeBy ==
    ASSUME TypeOK, Structure, Nesting, NEW g \in Frames, ~ IsRoot(g), Pending(g)
    PROVE  /\ Host(g) \in Frames /\ owner[g] \in Frames
           /\ UserCodeIn(Host(g))
           /\ \/ /\ Host(g) = owner[g] /\ phase[owner[g]] \in {"running", "finishing"}
                 /\ site[g] = <<Host(g), "own">>
              \/ /\ phase[Host(g)] = "compensating" /\ owner[Host(g)] = owner[g]
                 /\ ~ IsRoot(Host(g)) /\ Host(g) # owner[g]
                 /\ site[g] = <<Host(g), "fresh">>
  <1>1. owner[g] \in Frames /\ site[g] \in Gates /\ owner[g] = ContextAt(site[g])
    BY DEF Structure, ChainOK, TypeOK
  <1>2. PICK x \in Frames : x = Host(g)
    BY <1>1, HostRuns
  <1>3. UserCodeIn(x)
    BY <1>1, <1>2, HostRuns
  <1>4. CASE site[g] = <<x, "own">> /\ phase[x] \in {"running", "finishing"}
    BY <1>1, <1>2, <1>3, <1>4 DEF ContextAt
  <1>5. CASE site[g] = <<x, "fresh">> /\ phase[x] = "compensating" /\ ~ IsRoot(x)
    <2>1. owner[x] = owner[g]
      BY <1>1, <1>5 DEF ContextAt
    <2>2. x # owner[g]
      BY <1>1, <1>5, <2>1 DEF Structure, ChainOK
    <2> QED BY <1>1, <1>2, <1>3, <1>5, <2>1, <2>2
  <1> QED BY <1>1, <1>2, <1>4, <1>5, HostRuns

(* The owner of a nested call runs as long as the call is pending. *)
LEMMA OwnerRuns ==
    ASSUME TypeOK, Structure, Nesting, NEW g \in Frames, ~ IsRoot(g), Pending(g)
    PROVE  phase[owner[g]] \in {"running", "finishing"}
  <1> DEFINE o == owner[g]
             S == {x \in Frames : ~ IsRoot(x) /\ Pending(x) /\ owner[x] = o}
  <1>1. PICK x \in S : Host(x) \notin S
    BY DEF Nesting, WellFounded
  <1>2. CASE Host(x) = o
    BY <1>1, <1>2, MadeBy
  <1>3. CASE Host(x) # o
    BY <1>1, <1>3, MadeBy DEF Pending
  <1> QED BY <1>2, <1>3

(* And so does every frame around the call. *)
LEMMA AllAroundRun ==
    ASSUME TypeOK, Structure, Nesting, NEW g \in Frames, Pending(g),
           NEW e \in enclosing[g], e # g
    PROVE  phase[e] \in {"running", "finishing"}
  <1> DEFINE Bad(x) == \E d \in enclosing[x] \ {x} : phase[d] \notin {"running", "finishing"}
             S == {x \in Frames : Pending(x) /\ Bad(x)}
  <1> SUFFICES ASSUME S # {} PROVE FALSE
    OBVIOUS
  <1>1. PICK x \in S : owner[x] \notin S
    BY DEF Nesting, WellFounded
  <1>2. PICK d \in enclosing[x] \ {x} : phase[d] \notin {"running", "finishing"}
    BY <1>1
  <1>3. ~ IsRoot(x) /\ d \in enclosing[owner[x]]
    BY <1>1, <1>2 DEF Nesting, EnclosingIs
  <1>4. phase[owner[x]] \in {"running", "finishing"} /\ owner[x] \in Frames
    BY <1>1, <1>3, OwnerRuns, MadeBy
  <1>5. d # owner[x] /\ Pending(owner[x])
    BY <1>2, <1>4 DEF Pending
  <1> QED BY <1>1, <1>2, <1>3, <1>4, <1>5

(* A context has one root around it. *)
LEMMA OneRoot ==
    ASSUME TypeOK, Structure, Nesting, NEW c \in Frames, NEW r \in enclosing[c], IsRoot(r)
    PROVE  r = Conn(c)
  <1> DEFINE S == {x \in Frames : \E p, q \in enclosing[x] : IsRoot(p) /\ IsRoot(q) /\ p # q}
  <1>1. S = {}
    <2> SUFFICES ASSUME S # {} PROVE FALSE
      OBVIOUS
    <2>1. PICK x \in S : owner[x] \notin S
      BY DEF Nesting, WellFounded
    <2>2. PICK p \in enclosing[x], q \in enclosing[x] : IsRoot(p) /\ IsRoot(q) /\ p # q
      BY <2>1
    <2>3. ~ IsRoot(x) /\ owner[x] \in Frames
      BY <2>1, <2>2, ZenonT(60) DEF Nesting, EnclosingIs, IsRoot, TypeOK
    <2> QED BY <2>1, <2>2, <2>3 DEF Nesting, EnclosingIs
  <1>2. Conn(c) \in enclosing[c] /\ IsRoot(Conn(c))
    BY ConnIsFrame DEF Structure
  <1> QED BY <1>1, <1>2

(* A nested call runs on the connection of its owner. *)
LEMMA ConnOfOwner ==
    ASSUME TypeOK, Structure, Nesting, NEW c \in Frames, ~ IsRoot(c)
    PROVE  Conn(c) = Conn(owner[c])
  <1>1. owner[c] \in Frames /\ enclosing[owner[c]] \subseteq enclosing[c]
    BY DEF Nesting, EnclosingIs, IsRoot, TypeOK
  <1>2. Conn(owner[c]) \in enclosing[owner[c]] /\ IsRoot(Conn(owner[c]))
    BY <1>1, ConnIsFrame DEF Structure
  <1> QED BY <1>1, <1>2, OneRoot

(* What is around a frame around c is around c. *)
LEMMA EnclosingTransitive ==
    ASSUME TypeOK, Structure, Nesting, NEW c \in Frames, NEW e \in enclosing[c]
    PROVE  enclosing[e] \subseteq enclosing[c]
  <1> DEFINE S == {x \in Frames : \E d \in enclosing[x] : ~ (enclosing[d] \subseteq enclosing[x])}
  <1> SUFFICES ASSUME S # {} PROVE FALSE
    OBVIOUS
  <1>1. PICK x \in S : owner[x] \notin S
    BY DEF Nesting, WellFounded
  <1>2. PICK d \in enclosing[x] : ~ (enclosing[d] \subseteq enclosing[x])
    BY <1>1
  <1>3. d # x /\ x \in Frames
    BY <1>1, <1>2
  <1>4. ~ IsRoot(x) /\ d \in enclosing[owner[x]]
    BY <1>2, <1>3 DEF Nesting, EnclosingIs
  <1>5. owner[x] \in Frames
    BY <1>3, <1>4 DEF IsRoot, TypeOK
  <1> QED BY <1>1, <1>2, <1>4, <1>5 DEF Nesting, EnclosingIs

(* Below a frame around g there is one of its calls, around g or g itself.   *)
LEMMA NextInChain ==
    ASSUME TypeOK, Structure, Nesting, NEW g \in Frames, NEW o \in enclosing[g], o # g
    PROVE  \E y \in enclosing[g] : ~ IsRoot(y) /\ owner[y] = o
  <1> DEFINE S == {x \in Frames : \E d \in enclosing[x] \ {x} :
                      ~ \E y \in enclosing[x] : ~ IsRoot(y) /\ owner[y] = d}
  <1> SUFFICES ASSUME S # {} PROVE FALSE
    OBVIOUS
  <1>1. PICK x \in S : owner[x] \notin S
    BY DEF Nesting, WellFounded
  <1>2. PICK d \in enclosing[x] \ {x} : ~ \E y \in enclosing[x] : ~ IsRoot(y) /\ owner[y] = d
    BY <1>1
  <1>3. ~ IsRoot(x) /\ owner[x] \in Frames /\ d \in enclosing[owner[x]]
        /\ enclosing[x] = {x} \cup enclosing[owner[x]]
    BY <1>1, <1>2, ZenonT(60) DEF Nesting, EnclosingIs, IsRoot, TypeOK
  <1>4. d # owner[x]
    BY <1>2, <1>3
  <1> QED BY <1>1, <1>2, <1>3, <1>4

(* The open calls of a context form one line, each made by the compensation  *)
(* before it: one of them has made no other.                                 *)
LEMMA OneLeaf ==
    ASSUME TypeOK, Structure, Nesting, NEW o \in Frames,
           NEW x \in Within(o), NEW y \in Within(o),
           \A z \in Within(o) : Host(z) # x /\ Host(z) # y
    PROVE  x = y
  <1> SUFFICES ASSUME x # y PROVE FALSE
    OBVIOUS
  <1> DEFINE T == Within(o)
             Closed(B) == \A b \in B : Host(b) \in T => Host(b) \in B
             D == {d \in T : \A B \in SUBSET T : x \in B /\ Closed(B) => d \in B}
  <1>1. \A z \in T : /\ z \in Frames /\ Host(z) \in Frames
                     /\ Host(z) = o \/ (Host(z) \in T /\ phase[Host(z)] = "compensating")
    <2> SUFFICES ASSUME NEW z \in T
                 PROVE  /\ z \in Frames /\ Host(z) \in Frames
                        /\ Host(z) = o \/ (Host(z) \in T /\ phase[Host(z)] = "compensating")
      OBVIOUS
    <2>1. z \in Frames /\ ~ IsRoot(z) /\ Pending(z) /\ owner[z] = o
      BY DEF Within
    <2> QED BY <2>1, MadeBy DEF Within, Pending
  <1>2. \A z, w \in T : Host(z) = Host(w) => z = w
    <2> SUFFICES ASSUME NEW z \in T, NEW w \in T, Host(z) = Host(w) PROVE z = w
      OBVIOUS
    <2>1. site[z] = site[w]
      BY MadeBy DEF Within
    <2> QED BY <2>1 DEF Within, Structure, GateHead
  <1>3. \A z \in T : Host(z) # x /\ Host(z) # y
    OBVIOUS
  <1>4. D \subseteq T /\ x \in D /\ Closed(D)
    OBVIOUS
  <1>5. \A v \in D : v # x => \E u \in D : Host(u) = v
    <2> SUFFICES ASSUME NEW v \in D, v # x, \A u \in D : Host(u) # v PROVE FALSE
      OBVIOUS
    <2>1. x \in D \ {v} /\ Closed(D \ {v}) /\ D \ {v} \in SUBSET T
      BY <1>4
    <2> QED BY <2>1
  <1>6. y \in D
    <2> SUFFICES ASSUME y \notin D PROVE FALSE
      OBVIOUS
    <2>1. T \ D \in SUBSET Frames /\ T \ D # {} /\ D \in SUBSET Frames /\ D # {}
      BY <1>1, <1>4
    <2>2. PICK w \in T \ D : Host(w) \notin T \ D
      BY <2>1 DEF Nesting, WellFounded
    <2>3. PICK u \in D : Host(u) \notin D
      BY <2>1 DEF Nesting, WellFounded
    <2>4. Host(u) = o
      BY <1>1, <1>4, <2>3
    <2>5. CASE Host(w) = o
      BY <1>2, <1>4, <2>2, <2>4, <2>5
    <2>6. CASE Host(w) \in D
      BY <1>2, <1>3, <1>4, <1>5, <2>2, <2>6
    <2> QED BY <1>1, <2>2, <2>5, <2>6
  <1> QED BY <1>3, <1>4, <1>5, <1>6

(* That is the one that holds a SAVEPOINT, for the others compensate.        *)
LEMMA OpenIsLeaf ==
    ASSUME TypeOK, Structure, Nesting, NEW o \in Frames,
           NEW x \in Within(o), HasSavepoint(x), NEW z \in Within(o)
    PROVE  Host(z) # x
  <1>1. o # x
    BY DEF Within, Structure, ChainOK
  <1>2. Host(z) = o \/ phase[Host(z)] = "compensating"
    BY MadeBy DEF Within
  <1> QED BY <1>1, <1>2 DEF HasSavepoint

LEMMA OneOpenPerOwner ==
    ASSUME TypeOK, Structure, Nesting, NEW o \in Frames,
           NEW x \in Within(o), NEW y \in Within(o), HasSavepoint(x), HasSavepoint(y)
    PROVE  x = y
  BY OpenIsLeaf, OneLeaf

(* The frames open on a connection form a chain. *)
LEMMA NestingChain == TypeOK /\ Structure /\ Nesting => SavepointsNest
  <1> SUFFICES ASSUME TypeOK, Structure, Nesting, NEW f \in Frames, NEW g \in Frames,
                      HasSavepoint(f), HasSavepoint(g), Conn(f) = Conn(g),
                      f \notin enclosing[g], g \notin enclosing[f]
               PROVE  FALSE
    BY DEF SavepointsNest
  <1> DEFINE S == enclosing[f] \ enclosing[g]
  <1>1. f \in S /\ S \in SUBSET Frames
    BY DEF Structure, ChainOK, TypeOK
  <1>2. PICK x \in S : owner[x] \notin S
    BY <1>1 DEF Nesting, WellFounded
  <1>3. ~ IsRoot(x)
    BY <1>2, ConnIsFrame, OneRoot DEF Structure
  <1>4. x \in Frames /\ owner[x] \in Frames /\ owner[x] \in enclosing[f]
    <2>1. x \in Frames /\ owner[x] \in enclosing[x]
      BY <1>1, <1>3 DEF Structure, ChainOK
    <2> QED BY <1>1, <2>1, EnclosingTransitive DEF TypeOK
  <1>5. owner[x] \in enclosing[g] /\ owner[x] # g
    BY <1>2, <1>4
  <1>6. PICK y \in enclosing[g] : ~ IsRoot(y) /\ owner[y] = owner[x]
    BY <1>5, NextInChain
  <1>7. \A h \in {f, g} : Pending(h)
    BY DEF HasSavepoint, Pending
  <1>8. y \in Frames /\ HasSavepoint(x) /\ HasSavepoint(y)
    BY <1>6, <1>7, AllAroundRun DEF HasSavepoint, TypeOK
  <1>9. x \in Within(owner[x]) /\ y \in Within(owner[x])
    BY <1>3, <1>4, <1>6, <1>8 DEF Within, HasSavepoint, Pending
  <1> QED BY <1>2, <1>4, <1>6, <1>8, <1>9, OneOpenPerOwner

LEMMA NotEmptied ==
    ASSUME NEW S, NEW s \in Seq(S), NEW e \in S
    PROVE  Append(s, e) # <<>>
  BY AppendProperties

(* A step that calls nothing keeps who waits in the code that waits: user    *)
(* code settles, and a hook's callback returns, only when its calls have.    *)
LEMMA CodeKept ==
    ASSUME ~ FailFast, TypeOK, Structure, NEW f \in Frames,
           \/ Open(f) \/ OpenFails(f) \/ Resolve(f) \/ Reject(f)
           \/ RollbackTo(f) \/ SettleRejected(f)
           \/ Finish(f) \/ Commit(f) \/ FinishFails(f) \/ Rollback(f)
           \/ Write(f) \/ StatementFails(f)
           \/ BeforeCommitEnds(f) \/ AfterRollbackEnds(f)
           \/ \E k \in HookKinds : Register(f, k),
           NEW d \in Frames
    PROVE  /\ Pending(d)' => Pending(d)
           /\ UserCodeIn(d) /\ ~ CallsSettled(d) =>
                UserCodeIn(d)' /\ phase'[d] = phase[d]
  <1> USE DEF TypeOK
  <1>1. CASE Open(f)
    BY <1>1 DEF Open, queues, UserCodeIn, Pending
  <1>2. CASE OpenFails(f)
    BY <1>2 DEF OpenFails, queues, UserCodeIn, Pending
  <1>3. CASE Resolve(f)
    <2>1. f # d /\ UserCodeIn(d) => UserCodeIn(d)' /\ phase'[d] = phase[d]
      <3> SUFFICES ASSUME f # d, UserCodeIn(d) PROVE UserCodeIn(d)' /\ phase'[d] = phase[d]
        OBVIOUS
      <3>1. phase'[d] = phase[d] /\ snapshot' = snapshot /\ hooks' = Promoted(f)
        BY <1>3 DEF Resolve
      <3>2. hooks[d]["afterRollback"] # <<>> => hooks'[d]["afterRollback"] # <<>>
        <4>1. CASE d # owner[f]
          BY <3>1, <4>1 DEF Promoted
        <4>2. CASE d = owner[f]
          <5>1. hooks'[d]["afterRollback"] = hooks[d]["afterRollback"] \o hooks[f]["afterRollback"]
            BY <3>1, <4>2 DEF Promoted, Kinds
          <5>2. hooks[d]["afterRollback"] \in Seq(Hooks) /\ hooks[f]["afterRollback"] \in Seq(Hooks)
            BY DEF Kinds
          <5> QED BY <5>1, <5>2, SMTT(60)
        <4> QED BY <4>1, <4>2
      <3> QED BY <3>1, <3>2 DEF UserCodeIn
    <2>2. f = d => CallsSettled(d)
      BY <1>3 DEF Resolve
    <2>3. Pending(d)' => Pending(d)
      BY <1>3 DEF Resolve, Pending
    <2> QED BY <2>1, <2>2, <2>3
  <1>4. CASE Reject(f)
    BY <1>4 DEF Reject, queues, UserCodeIn, Pending
  <1>5. CASE RollbackTo(f) \/ Rollback(f)
    <2>1. /\ phase[f] = "unwinding" /\ phase' = [phase EXCEPT ![f] = "compensating"]
          /\ snapshot' = snapshot /\ hooks' = OnlyRollbackHooks(f)
      BY <1>5 DEF RollbackTo, Rollback
    <2>2. d # f => hooks'[d] = hooks[d]
      BY <2>1 DEF OnlyRollbackHooks
    <2> QED BY <2>1, <2>2 DEF UserCodeIn, Pending
  <1>6. CASE SettleRejected(f)
    BY <1>6 DEF SettleRejected, queues, UserCodeIn, Pending
  <1>7. CASE Finish(f)
    BY <1>7 DEF Finish, UserCodeIn, Pending
  <1>8. CASE Commit(f)
    BY <1>8 DEF Commit, UserCodeIn, Pending
  <1>9. CASE FinishFails(f)
    BY <1>9 DEF FinishFails, UserCodeIn, Pending
  <1>10. CASE Write(f)
    BY <1>10 DEF Write, control, queues, UserCodeIn, Pending
  <1>11. CASE StatementFails(f)
    BY <1>11 DEF StatementFails, control, queues, UserCodeIn, Pending
  <1>12. CASE BeforeCommitEnds(f)
    BY <1>12 DEF BeforeCommitEnds, control, UserCodeIn, Pending
  <1>13. CASE AfterRollbackEnds(f)
    BY <1>13 DEF AfterRollbackEnds, control, UserCodeIn, Pending
  <1>14. CASE \E k \in HookKinds : Register(f, k)
    <2>1. PICK k \in HookKinds : Register(f, k)
      BY <1>14
    <2>2. PICK c \in Frames :
            /\ Len(hooked[c]) < MaxHooks
            /\ hooks' = [hooks EXCEPT ![c][k] = Append(@, <<c, Len(hooked[c]) + 1>>)]
            /\ UNCHANGED <<control, snapshot, ran, data>>
      BY <2>1 DEF Register
    <2>3. hooks[d]["afterRollback"] # <<>> => hooks'[d]["afterRollback"] # <<>>
      <3>1. hooks[d]["afterRollback"] \in Seq(Hooks)
        BY DEF Kinds
      <3>2. CASE d = c /\ k = "afterRollback"
        <4> DEFINE h == <<c, Len(hooked[c]) + 1>>
        <4>1. hooks' = [hooks EXCEPT ![c][k] = Append(@, h)]
          BY <2>2
        <4>2. Len(hooked[c]) + 1 \in 1 .. MaxHooks
          BY <2>2, FramesAssumption, SMTT(60)
        <4>3. h \in Hooks
          BY <4>2 DEF Hooks
        <4> HIDE DEF h
        <4>4. hooks'[c] = [hooks[c] EXCEPT ![k] = Append(@, h)]
          BY <4>1
        <4>5. hooks[c] \in [Kinds -> Seq(Hooks)] /\ k \in Kinds
          BY <3>2 DEF Kinds
        <4>6. hooks'[c][k] = Append(hooks[c][k], h) /\ hooks[c][k] \in Seq(Hooks)
          BY <4>4, <4>5
        <4>7. Append(hooks[c][k], h) # <<>>
          BY <4>3, <4>6, NotEmptied
        <4> QED BY <3>2, <4>6, <4>7
      <3>3. CASE ~ (d = c /\ k = "afterRollback")
        BY <2>2, <3>3 DEF Kinds
      <3> QED BY <3>2, <3>3
    <2> QED BY <2>2, <2>3 DEF control, UserCodeIn, Pending
  <1> QED BY <1>1, <1>2, <1>3, <1>4, <1>5, <1>6, <1>7, <1>8, <1>9, <1>10, <1>11,
             <1>12, <1>13, <1>14

LEMMA NestingKept ==
    ASSUME ~ FailFast, TypeOK, Structure, Nesting, NEW f \in Frames,
           \/ Open(f) \/ OpenFails(f) \/ Resolve(f) \/ Reject(f)
           \/ RollbackTo(f) \/ SettleRejected(f)
           \/ Finish(f) \/ Commit(f) \/ FinishFails(f) \/ Rollback(f)
           \/ Write(f) \/ StatementFails(f)
           \/ BeforeCommitEnds(f) \/ AfterRollbackEnds(f)
           \/ \E k \in HookKinds : Register(f, k)
    PROVE  Nesting'
  <1>1. /\ UNCHANGED <<caller, site, owner, enclosing>>
        /\ \A g \in Frames : phase'[g] = "idle" <=> phase[g] = "idle"
    BY NotACall
  <1>2. WellFounded' /\ EnclosingIs'
    BY <1>1 DEF Nesting, WellFounded, EnclosingIs, IsRoot, Host
  <1>3. IdleUncalled'
    BY <1>1 DEF Nesting, IdleUncalled, IsRoot
  <1>4. Awaited'
    <2> SUFFICES ASSUME NEW g \in Frames, Pending(g)', NEW h \in Frames, h = caller[g]
                 PROVE  UserCodeIn(h)' /\ site'[g] = SiteOf(h)'
      BY <1>1 DEF Awaited, UserCodeIn, SiteOf, IsRoot
    <2>1. Pending(g) /\ UserCodeIn(h) /\ site[g] = SiteOf(h)
      BY CodeKept DEF Nesting, Awaited
    <2>2. ~ CallsSettled(h)
      BY <2>1 DEF CallsSettled, Pending, Settled
    <2>3. UserCodeIn(h)' /\ phase'[h] = phase[h]
      BY <2>1, <2>2, CodeKept
    <2> QED BY <1>1, <2>1, <2>3 DEF SiteOf, IsRoot
  <1> QED BY <1>2, <1>3, <1>4 DEF Nesting

(* A call hangs a new frame under one that has been called.                  *)
LEMMA NestingCalled ==
    ASSUME TypeOK, Structure, Nesting, NEW f \in Frames, NEW g \in Frames,
           CallNested(f, g) \/ CallRequiresNew(f, g)
    PROVE  Nesting'
  <1>1. /\ phase[g] = "idle" /\ IsRoot(g) /\ UserCodeIn(f) /\ phase[f] # "idle" /\ f # g
        /\ caller' = [caller EXCEPT ![g] = f] /\ UNCHANGED <<hooks, snapshot>>
        /\ site' = [site EXCEPT ![g] = SiteOf(f)]
        /\ phase' \in {[phase EXCEPT ![g] = "queued"], [phase EXCEPT ![g] = "running"]}
    BY DEF CallNested, CallRequiresNew, Structure, ChainOK, ActsIn, UserCodeIn, queues
  <1>2. PICK c \in Frames \cup {NoFrame} :
          /\ owner' = [owner EXCEPT ![g] = c]
          /\ c = NoFrame => g \in NewRoots \ {Top}
          /\ c # NoFrame => /\ phase[c] # "idle" /\ c # g
                            /\ enclosing' = [enclosing EXCEPT ![g] = {g} \cup enclosing[c]]
          /\ c = NoFrame => enclosing' = enclosing
    <2>1. CASE CallNested(f, g)
      <3>1. PICK c \in Frames :
              /\ ActsIn(f, c)
              /\ owner' = [owner EXCEPT ![g] = c]
              /\ enclosing' = [enclosing EXCEPT ![g] = {g} \cup enclosing[c]]
        BY <2>1 DEF CallNested
      <3>2. phase[c] # "idle"
        BY <3>1, ActingContext DEF ActsIn, Structure
      <3>3. c # g /\ c \in Frames \cup {NoFrame} /\ c # NoFrame
        BY <1>1, <3>2, FramesAssumption
      <3> QED BY <3>1, <3>2, <3>3
    <2>2. CASE CallRequiresNew(f, g)
      BY <1>1, <2>2 DEF CallRequiresNew, IsRoot, TypeOK
    <2> QED BY <2>1, <2>2
  <1>3. \A d \in Frames \ {g} : /\ caller'[d] = caller[d] /\ owner'[d] = owner[d]
                               /\ enclosing'[d] = enclosing[d] /\ phase'[d] = phase[d]
                               /\ site'[d] = site[d]
                               /\ caller[d] # g /\ owner[d] # g /\ Host(d) # g
    <2> SUFFICES ASSUME NEW d \in Frames, d # g
                 PROVE  /\ caller'[d] = caller[d] /\ owner'[d] = owner[d]
                        /\ enclosing'[d] = enclosing[d] /\ phase'[d] = phase[d]
                        /\ site'[d] = site[d]
                        /\ caller[d] # g /\ owner[d] # g /\ Host(d) # g
      OBVIOUS
    <2>1. caller'[d] = caller[d] /\ owner'[d] = owner[d] /\ phase'[d] = phase[d]
          /\ site'[d] = site[d]
      BY <1>1, <1>2 DEF TypeOK
    <2>5. ASSUME site[d] \in Gates PROVE Host(d) # g
      <3>1. Called(site[d])
        BY <2>5 DEF Structure, ChainOK
      <3>2. site[d][1] \in Frames /\ phase[site[d][1]] # "idle"
        BY <3>1 DEF Called
      <3> QED BY <1>1, <3>2 DEF Host
    <2>6. ASSUME site[d] = NoGate PROVE Host(d) # g
      <3>1. site[d][1] = NoFrame
        BY <2>6 DEF NoGate
      <3> QED BY <3>1, FramesAssumption DEF Host
    <2>7. Host(d) # g
      BY <2>5, <2>6 DEF TypeOK
    <2>2. enclosing'[d] = enclosing[d]
      BY <1>2 DEF TypeOK
    <2>3. caller[d] # g
      BY <1>1 DEF Nesting, IdleUncalled
    <2>4. owner[d] # g
      BY <1>1, FramesAssumption DEF Structure, ChainOK, IsRoot
    <2> QED BY <2>1, <2>2, <2>3, <2>4, <2>7
  <1>4. caller'[g] = f /\ owner'[g] = c /\ site'[g] = SiteOf(f) /\ site'[g][1] # g
    <2>1. caller'[g] = f /\ owner'[g] = c /\ site'[g] = SiteOf(f)
      BY <1>1, <1>2 DEF TypeOK
    <2>2. SiteOf(f) \in Gates => Called(SiteOf(f))
      BY <1>1, SiteCalled DEF Structure
    <2>3. SiteOf(f) \in Gates \cup {NoGate}
      BY <1>1, SiteCalled DEF Structure
    <2>4. CASE SiteOf(f) \in Gates
      BY <1>1, <2>1, <2>2, <2>4 DEF Called
    <2>5. CASE SiteOf(f) = NoGate
      BY <2>1, <2>5, FramesAssumption DEF NoGate
    <2> QED BY <2>1, <2>3, <2>4, <2>5
  <1>5. WellFounded'
    <2> SUFFICES ASSUME NEW S \in SUBSET Frames, S # {}
                 PROVE  /\ \E x \in S : caller'[x] \notin S
                        /\ \E x \in S : owner'[x] \notin S
                        /\ \E x \in S : site'[x][1] \notin S
      BY DEF WellFounded, Host
    <2>1. CASE S \ {g} = {}
      <3>1. S = {g} /\ c # g
        BY <1>2, <2>1, FramesAssumption
      <3> QED BY <1>1, <1>4, <3>1
    <2>2. CASE S \ {g} # {}
      <3>1. PICK x \in S \ {g} : caller[x] \notin S \ {g}
        BY <2>2 DEF Nesting, WellFounded
      <3>2. PICK y \in S \ {g} : owner[y] \notin S \ {g}
        BY <2>2 DEF Nesting, WellFounded
      <3>3. PICK z \in S \ {g} : Host(z) \notin S \ {g}
        BY <2>2 DEF Nesting, WellFounded
      <3>4. site'[z][1] = Host(z) /\ Host(z) # g
        BY <1>3 DEF Host
      <3> QED BY <1>3, <3>1, <3>2, <3>3, <3>4
    <2> QED BY <2>1, <2>2
  <1>6. IdleUncalled'
    <2> SUFFICES ASSUME NEW d \in Frames
                 PROVE  /\ phase'[d] = "idle" => caller'[d] = NoFrame
                        /\ caller'[d] \in Frames => phase'[caller'[d]] # "idle"
                        /\ caller'[d] \notin Frames => site'[d] = NoGate
                        /\ site'[d] \in Gates /\ owner'[d] = NoFrame => d \in NewRoots \ {Top}
      BY DEF IdleUncalled, IsRoot
    <2>1. phase'[g] # "idle"
      BY <1>1 DEF TypeOK
    <2>2. CASE d = g
      BY <1>1, <1>2, <1>3, <1>4, <2>1, <2>2
    <2>3. CASE d # g
      BY <1>1, <1>3, <2>1, <2>3 DEF Nesting, IdleUncalled, IsRoot
    <2> QED BY <2>2, <2>3
  <1>7. EnclosingIs'
    <2> SUFFICES ASSUME NEW d \in Frames
                 PROVE  enclosing'[d] =
                          {d} \cup (IF owner'[d] = NoFrame THEN {} ELSE enclosing'[owner'[d]])
      BY DEF EnclosingIs, IsRoot
    <2>1. CASE d # g
      <3>1. owner[d] = NoFrame \/ owner[d] \in Frames \ {g}
        BY <1>3, <2>1 DEF TypeOK
      <3> QED BY <1>3, <2>1, <3>1 DEF Nesting, EnclosingIs, IsRoot
    <2>2. CASE d = g
      <3>1. CASE c = NoFrame
        BY <1>1, <1>2, <1>4, <2>2, <3>1 DEF Nesting, EnclosingIs
      <3>2. CASE c # NoFrame
        BY <1>2, <1>3, <1>4, <2>2, <3>2 DEF TypeOK
      <3> QED BY <3>1, <3>2
    <2> QED BY <2>1, <2>2
  <1>8. Awaited'
    <2> SUFFICES ASSUME NEW d \in Frames, Pending(d)', NEW b \in Frames, b = caller'[d]
                 PROVE  UserCodeIn(b)' /\ site'[d] = SiteOf(b)'
      BY DEF Awaited, UserCodeIn, SiteOf, IsRoot
    <2>1. \A h \in Frames \ {g} : /\ UserCodeIn(h) => UserCodeIn(h)'
                                 /\ SiteOf(h)' = SiteOf(h)
      BY <1>1, <1>3 DEF UserCodeIn, SiteOf, IsRoot
    <2>2. CASE d = g
      BY <1>1, <1>4, <2>1, <2>2
    <2>3. CASE d # g
      <3>1. Pending(d) /\ b = caller[d] /\ site'[d] = site[d] /\ b # g
        BY <1>3, <2>3 DEF Pending
      <3>2. UserCodeIn(b) /\ site[d] = SiteOf(b)
        BY <3>1 DEF Nesting, Awaited
      <3> QED BY <2>1, <3>1, <3>2
    <2> QED BY <2>2, <2>3
  <1> QED BY <1>5, <1>6, <1>7, <1>8 DEF Nesting

(* Every step keeps the nesting. *)
LEMMA NestingStep ==
    ASSUME ~ FailFast
    PROVE  TypeOK /\ Structure /\ Nesting /\ [Next]_vars => Nesting'
  <1> SUFFICES ASSUME TypeOK, Structure, Nesting, [Next]_vars PROVE Nesting'
    OBVIOUS
  <1>1. CASE Begin
    <2>1. phase' = [phase EXCEPT ![Top] = "running"] /\ phase[Top] = "idle"
          /\ UNCHANGED <<caller, site, owner, enclosing, hooks, snapshot>>
      BY <1>1 DEF Begin, queues
    <2>2. caller[Top] = NoFrame
      BY <2>1, FramesAssumption DEF Nesting, IdleUncalled
    <2>3. \A d \in Frames : /\ d # Top => phase'[d] = phase[d]
                            /\ phase'[d] = "idle" => phase[d] = "idle"
      BY <2>1 DEF TypeOK
    <2>4. WellFounded' /\ EnclosingIs'
      BY <2>1 DEF Nesting, WellFounded, EnclosingIs, IsRoot, Host
    <2>5. IdleUncalled'
      BY <2>1, <2>3 DEF Nesting, IdleUncalled, IsRoot
    <2>6. Awaited'
      <3> SUFFICES ASSUME NEW d \in Frames, Pending(d)', NEW b \in Frames, b = caller[d]
                   PROVE  UserCodeIn(b)' /\ site'[d] = SiteOf(b)'
        BY <2>1 DEF Awaited, UserCodeIn, SiteOf, IsRoot
      <3>1. d # Top /\ Pending(d) /\ b # Top
        BY <2>1, <2>2, <2>3, FramesAssumption DEF Pending, Nesting, IdleUncalled
      <3>2. UserCodeIn(b) /\ site[d] = SiteOf(b)
        BY <3>1 DEF Nesting, Awaited
      <3> QED BY <2>1, <2>3, <3>1, <3>2 DEF UserCodeIn, SiteOf, IsRoot
    <2> QED BY <2>4, <2>5, <2>6 DEF Nesting
  <1>2. ASSUME NEW f \in Frames, NEW g \in Frames, CallNested(f, g) \/ CallRequiresNew(f, g)
        PROVE  Nesting'
    BY <1>2, NestingCalled
  <1>3. ASSUME NEW f \in Frames,
               \/ Open(f) \/ OpenFails(f) \/ Resolve(f) \/ Reject(f)
               \/ RollbackTo(f) \/ SettleRejected(f)
               \/ Finish(f) \/ Commit(f) \/ FinishFails(f) \/ Rollback(f)
               \/ Write(f) \/ StatementFails(f)
               \/ BeforeCommitEnds(f) \/ AfterRollbackEnds(f)
               \/ \E k \in HookKinds : Register(f, k)
        PROVE  Nesting'
    BY <1>3, NestingKept
  <1>4. CASE Terminated \/ UNCHANGED vars
    BY <1>4 DEF Terminated, vars, control, queues, Nesting, WellFounded, IdleUncalled,
                EnclosingIs, Awaited, Pending, UserCodeIn, SiteOf, Host, IsRoot
  <1> QED BY <1>1, <1>2, <1>3, <1>4 DEF Next, Step

LEMMA NestingInitially == Init => Nesting
  <1> SUFFICES ASSUME Init PROVE Nesting
    OBVIOUS
  <1>1. WellFounded
    BY FramesAssumption DEF Init, WellFounded, Host, NoGate
  <1>2. \A f \in Frames : site[f] \notin Gates
    BY FramesAssumption DEF Init, NoGate, Gates
  <1> QED BY <1>1, <1>2, FramesAssumption
          DEF Init, Nesting, IdleUncalled, EnclosingIs, Awaited, Pending, IsRoot

LEMMA NestingAlways ==
    ASSUME ~ FailFast
    PROVE  Spec => [](TypeOK /\ Structure /\ Nesting)
  <1> QED BY NestingInitially, NestingStep, StructureAlways, PTL DEF Spec

(* However calls are started together, nested, or made by compensations, of  *)
(* two frames that hold SAVEPOINTs on one connection one encloses the other, *)
(* as long as user code awaits the calls it makes (context.ts,               *)
(* createNestedFrameGate): ROLLBACK TO of one never takes another's rows.    *)
THEOREM SavepointsAlwaysNest ==
    ASSUME ~ FailFast
    PROVE  Spec => []SavepointsNest
  BY NestingChain, NestingAlways, PTL

-----------------------------------------------------------------------------
(* The log of a connection *)

Opened(c) == phase[c] \notin {"idle", "queued"}

(* What a frame never did: it wrote nothing before it opened, and nothing is *)
(* around a frame that has not opened itself.                                *)
Unopened ==
    \A c \in Frames : /\ ~ Opened(c) => writes[c] = 0
                      /\ \A e \in enclosing[c] : e # c => Opened(e)

(* A log holds what was sent on its connection in the open transaction, and  *)
(* no write of a frame that was undone.                                      *)
LogSent ==
    \A r \in Frames : \A i \in 1 .. Len(log[r]) :
        LET e == log[r][i] IN
        /\ InTransaction(r) /\ Conn(e.frame) = r /\ Opened(e.frame)
        /\ e \in Writes => e.n <= writes[e.frame] /\ ~ Undone(e.frame)

(* Entry p of the log is the SAVEPOINT of g, once; what follows it was sent  *)
(* by g and the frames inside it, and nothing before it was.                 *)
MarkedAt(g, p) ==
    LET entries == log[Conn(g)] IN
    \A i \in 1 .. Len(entries) :
        /\ entries[i] = SavepointOf(g) <=> i = p
        /\ p < i /\ entries[i] \notin astray => g \in enclosing[entries[i].frame]
        /\ i < p => g \notin enclosing[entries[i].frame]

LogMarked ==
    \A g \in Frames : ~ IsRoot(g) /\ HasSavepoint(g) =>
        \E p \in 1 .. Len(log[Conn(g)]) : MarkedAt(g, p)

(* It holds every write that was not undone, but what went astray. *)
LogComplete ==
    \A c \in Frames : InTransaction(Conn(c)) /\ ~ Undone(c) =>
        \A n \in 1 .. writes[c] :
            WriteOf(c, n) \in astray \/ Holds(log[Conn(c)], WriteOf(c, n))

(* What is durable is what the frames that resolved wrote, but for that.     *)
Fates == DurableMeansKept /\ KeptMeansDurable

Work == Unopened /\ LogSent /\ LogMarked /\ LogComplete /\ Fates

(* What the structure of the frames says of chains, in one state. *)
Chains ==
    /\ \A c \in Frames : Conn(c) \in enclosing[c] /\ IsRoot(Conn(c))
    /\ \A c \in Frames : \A r \in enclosing[c] : IsRoot(r) => r = Conn(c)
    /\ \A c \in Frames : \A e \in enclosing[c] : Conn(e) = Conn(c)
    /\ \A g \in Frames : \A e \in enclosing[g] :
         Pending(g) /\ e # g => phase[e] \in {"running", "finishing"}
    /\ SavepointsNest

Base == TypeOK /\ Structure /\ Nesting /\ Chains

LEMMA ChainsHold == TypeOK /\ Structure /\ Nesting => Chains
  <1> SUFFICES ASSUME TypeOK, Structure, Nesting PROVE Chains
    OBVIOUS
  <1>1. \A c \in Frames : /\ Conn(c) \in enclosing[c] /\ IsRoot(Conn(c)) /\ Conn(c) \in Frames
                          /\ \A r \in enclosing[c] : IsRoot(r) => r = Conn(c)
    BY ConnIsFrame, OneRoot DEF Structure
  <1>2. ASSUME NEW c \in Frames, NEW e \in enclosing[c] PROVE Conn(e) = Conn(c)
    <2>1. e \in Frames /\ enclosing[e] \subseteq enclosing[c]
      BY EnclosingTransitive DEF TypeOK
    <2> QED BY <1>1, <2>1
  <1>3. \A g \in Frames : \A e \in enclosing[g] :
          Pending(g) /\ e # g => phase[e] \in {"running", "finishing"}
    BY AllAroundRun
  <1> QED BY <1>1, <1>2, <1>3, NestingChain DEF Chains

(* User code acts in a frame that runs, as its callback, as the compensation *)
(* of a savepoint in it, or as that of a root that was called in it.         *)
LEMMA ActorRuns ==
    ASSUME TypeOK, Structure, Nesting, NEW f \in Frames, NEW c \in Frames, ActsIn(f, c)
    PROVE  /\ phase[c] \in {"running", "finishing"}
           /\ f # c => phase[f] = "compensating" /\ (~ IsRoot(f) => f \in Within(c))
  <1>1. SiteOf(f) \in Gates /\ c = ContextAt(SiteOf(f)) /\ UserCodeIn(f)
    BY ActingContext DEF Structure, ActsIn
  <1>2. CASE phase[f] # "compensating"
    BY <1>1, <1>2 DEF SiteOf, ContextAt, UserCodeIn
  <1>3. CASE phase[f] = "compensating" /\ ~ IsRoot(f)
    <2>1. c = owner[f] /\ Pending(f)
      BY <1>1, <1>3 DEF SiteOf, ContextAt, Pending
    <2> QED BY <1>3, <2>1, OwnerRuns DEF Within
  <1>4. CASE phase[f] = "compensating" /\ IsRoot(f)
    <2>1. site[f] \in Gates /\ c = ContextAt(site[f]) /\ Pending(f)
      BY <1>1, <1>4 DEF SiteOf, Pending
    <2>2. PICK x \in Frames : x = Host(f)
      BY <2>1, HostRuns
    <2>3. CASE site[f] = <<x, "own">> /\ phase[x] \in {"running", "finishing"}
      BY <1>4, <2>1, <2>3 DEF ContextAt
    <2>4. CASE site[f] = <<x, "fresh">> /\ phase[x] = "compensating" /\ ~ IsRoot(x)
      <3>1. c = owner[x] /\ Pending(x)
        BY <2>1, <2>4 DEF ContextAt, Pending
      <3> QED BY <1>4, <2>4, <3>1, OwnerRuns
    <2> QED BY <2>1, <2>2, <2>3, <2>4, HostRuns
  <1> QED BY <1>2, <1>3, <1>4

(* The compensation of a root runs in c. *)
Trespasser(r, c) == /\ IsRoot(r) /\ phase[r] = "compensating"
                    /\ site[r] \in Gates /\ ContextAt(site[r]) = c

(* Without one, what is pending in c was made by the code its context is of. *)
LEMMA HostIsCaller ==
    ASSUME TypeOK, Structure, Nesting, NEW z \in Frames, ~ IsRoot(z), Pending(z),
           \A r \in Frames : ~ Trespasser(r, owner[z])
    PROVE  caller[z] = Host(z)
  <1>1. site[z] \in Gates /\ owner[z] = ContextAt(site[z])
    BY DEF Structure, ChainOK
  <1>2. PICK b \in Frames : b = caller[z]
    BY DEF Structure, ChainOK
  <1>3. site[z] = SiteOf(b)
    BY <1>2 DEF Nesting, Awaited
  <1>4. ~ (phase[b] = "compensating" /\ IsRoot(b))
    <2> SUFFICES ASSUME phase[b] = "compensating", IsRoot(b) PROVE FALSE
      OBVIOUS
    <2>1. site[z] = site[b]
      BY <1>3 DEF SiteOf
    <2> QED BY <1>1, <2>1 DEF Trespasser
  <1> QED BY <1>2, <1>3, <1>4 DEF SiteOf, Host

(* Who writes is in the deepest open frame of his connection, or writes in   *)
(* the same frame as a root's compensation.                                  *)
LEMMA WriterDeepest ==
    ASSUME Base, NEW f \in Frames, NEW c \in Frames, ActsIn(f, c), NoNestedPending(f),
           NEW h \in Frames, HasSavepoint(h), Conn(h) = Conn(c), h \notin enclosing[c]
    PROVE  \E r \in Frames : Trespasser(r, c)
  <1> USE DEF Base
  <1> SUFFICES ASSUME \A r \in Frames : ~ Trespasser(r, c) PROVE FALSE
    OBVIOUS
  <1>1. c \in enclosing[h] /\ c # h
    BY ActorRuns DEF Chains, SavepointsNest, HasSavepoint, Structure, ChainOK
  <1>2. PICK y \in enclosing[h] : ~ IsRoot(y) /\ owner[y] = c
    BY <1>1, NextInChain
  <1>3. y \in Frames /\ HasSavepoint(y) /\ y \in Within(c)
    BY <1>2, ZenonT(60) DEF Chains, HasSavepoint, Pending, Within, TypeOK
  <1>7. \A z \in Within(c) : caller[z] = Host(z)
    BY HostIsCaller DEF Within
  <1>4. \A z \in Within(c) : Host(z) # f
    BY <1>7 DEF NoNestedPending, Within, Pending, Settled
  <1>5. CASE f = c
    <2>1. PICK z \in Within(c) : Host(z) \notin Within(c)
      BY <1>3 DEF Nesting, WellFounded, Within
    <2>2. Host(z) # c
      BY <1>4, <1>5, <2>1
    <2>3. z \in Frames /\ ~ IsRoot(z) /\ Pending(z) /\ owner[z] = c
      BY <2>1 DEF Within
    <2>4. phase[Host(z)] = "compensating" /\ owner[Host(z)] = c
          /\ ~ IsRoot(Host(z)) /\ Host(z) \in Frames
      BY <2>2, <2>3, MadeBy
    <2> QED BY <2>1, <2>4 DEF Within, Pending
  <1>6. CASE f # c
    <2>0. ~ IsRoot(f)
      <3> SUFFICES ASSUME IsRoot(f) PROVE FALSE
        OBVIOUS
      <3>1. phase[f] = "compensating" /\ SiteOf(f) \in Gates /\ c = ContextAt(SiteOf(f))
        BY <1>6, ActorRuns, ActingContext DEF Structure
      <3> QED BY <3>1 DEF SiteOf, Trespasser
    <2>1. f \in Within(c) /\ phase[f] = "compensating"
      BY <1>6, <2>0, ActorRuns
    <2>2. \A z \in Within(c) : Host(z) # y
      BY <1>3, OpenIsLeaf
    <2>3. f = y
      BY <1>3, <1>4, <2>1, <2>2, OneLeaf
    <2> QED BY <1>3, <2>1, <2>3 DEF HasSavepoint
  <1> QED BY <1>5, <1>6

-----------------------------------------------------------------------------
(* What a step does to chains and logs. *)

LEMMA ConnKept ==
    ASSUME Base, Base', NEW c \in Frames, enclosing'[c] = enclosing[c],
           \A e \in enclosing[c] : owner'[e] = owner[e]
    PROVE  Conn(c)' = Conn(c)
  <1>1. Conn(c) \in enclosing[c] /\ IsRoot(Conn(c))
    BY DEF Base, Chains
  <1>2. \A r \in enclosing'[c] : owner'[r] = NoFrame => r = Conn(c)'
    BY DEF Base, Chains, IsRoot
  <1> QED BY <1>1, <1>2 DEF IsRoot

LEMMA Appended ==
    ASSUME TypeOK, NEW r \in Frames, NEW e, log' = [log EXCEPT ![r] = Append(@, e)]
    PROVE  /\ Len(log[r]) \in Nat
           /\ Len(log'[r]) = Len(log[r]) + 1
           /\ \A i \in 1 .. Len(log[r]) : log'[r][i] = log[r][i]
           /\ log'[r][Len(log[r]) + 1] = e
           /\ \A q \in Frames : q # r => log'[q] = log[q]
  BY DEF TypeOK

(* What is in a log has the frame it was sent in. *)
LEMMA EntryFrame ==
    ASSUME TypeOK, NEW r \in Frames, NEW i \in 1 .. Len(log[r])
    PROVE  log[r][i] \in Entries /\ log[r][i].frame \in Frames
  <1>1. log[r][i] \in Entries
    BY DEF TypeOK
  <1> QED BY <1>1 DEF Entries, Writes, WriteOf, SavepointOf

LEMMA EntryKinds ==
    /\ \A g : SavepointOf(g) \notin Writes
    /\ \A g, h : SavepointOf(g) = SavepointOf(h) => g = h
    /\ \A g : SavepointOf(g).frame = g
    /\ \A c, n : WriteOf(c, n).frame = c /\ WriteOf(c, n).n = n
    /\ \A g, c, n : SavepointOf(g) # WriteOf(c, n)
  <1>1. \A g, c, n : SavepointOf(g).type = "savepoint" /\ WriteOf(c, n).type = "write"
    BY DEF SavepointOf, WriteOf
  <1>2. \A g : SavepointOf(g).frame = g
    BY DEF SavepointOf
  <1>3. \A c, n : WriteOf(c, n).frame = c /\ WriteOf(c, n).n = n
    BY DEF WriteOf
  <1>4. \A w \in Writes : w.type = "write"
    BY <1>1 DEF Writes
  <1> QED BY <1>1, <1>2, <1>3, <1>4

(* A step that sends nothing and undoes nothing.                             *)
LEMMA WorkFrame ==
    ASSUME Base, Base', Work, UNCHANGED <<owner, enclosing, log, writes, durable, astray>>,
           \A d \in Frames : /\ Opened(d) => Opened(d)'
                             /\ HasSavepoint(d)' => HasSavepoint(d)
                             /\ IsRoot(d) => (InTransaction(d)' <=> InTransaction(d))
                             /\ Undone(d) => Undone(d)'
                             /\ Opened(d) /\ Undone(d)' => Undone(d)
                             /\ Kept(d)' <=> Kept(d)
    PROVE  Work'
  <1>1. \A c \in Frames : Conn(c)' = Conn(c) /\ IsRoot(Conn(c)) /\ Conn(c) \in Frames
    BY ConnKept DEF Base, Chains, TypeOK
  <1>2. Unopened'
    BY DEF Work, Unopened, Base, TypeOK
  <1>3. LogSent'
    <2> SUFFICES ASSUME NEW r \in Frames, NEW i \in 1 .. Len(log[r]), NEW e, e = log[r][i]
                 PROVE  /\ InTransaction(r)' /\ Conn(e.frame)' = r /\ Opened(e.frame)'
                        /\ e \in Writes => e.n <= writes[e.frame] /\ ~ Undone(e.frame)'
      BY DEF LogSent, Conn, Opened, Undone
    <2>1. e.frame \in Frames
      BY EntryFrame DEF Base
    <2>2. /\ InTransaction(r) /\ Conn(e.frame) = r /\ Opened(e.frame)
          /\ e \in Writes => e.n <= writes[e.frame] /\ ~ Undone(e.frame)
      BY DEF Work, LogSent
    <2> QED BY <1>1, <2>1, <2>2
  <1>4. LogMarked'
    <2> SUFFICES ASSUME NEW g \in Frames, ~ IsRoot(g)', HasSavepoint(g)'
                 PROVE  (\E p \in 1 .. Len(log[Conn(g)]) : MarkedAt(g, p))'
      BY DEF LogMarked
    <2>1. PICK p \in 1 .. Len(log[Conn(g)]) : MarkedAt(g, p)
      BY DEF Work, LogMarked, IsRoot
    <2>2. MarkedAt(g, p)'
      BY <1>1, <2>1 DEF MarkedAt
    <2> QED BY <1>1, <2>1, <2>2
  <1>5. LogComplete'
    <2> SUFFICES ASSUME NEW c \in Frames, InTransaction(Conn(c))', ~ Undone(c)',
                        NEW n \in 1 .. writes[c], WriteOf(c, n) \notin astray
                 PROVE  Holds(log[Conn(c)], WriteOf(c, n))'
      BY DEF LogComplete
    <2>1. InTransaction(Conn(c)) /\ ~ Undone(c)
      BY <1>1 DEF InTransaction
    <2> QED BY <1>1, <2>1 DEF Work, LogComplete, Holds
  <1>6. Fates'
    <2>1. \A w \in durable : w.frame \in Frames
      BY DEF Base, TypeOK, Writes, WriteOf
    <2> QED BY <2>1 DEF Work, Fates, DurableMeansKept, KeptMeansDurable
  <1> QED BY <1>2, <1>3, <1>4, <1>5, <1>6 DEF Work

(* Only phases change, and not what the log depends on. *)
LEMMA WorkQuiet ==
    ASSUME Base, Base', Work, NEW f \in Frames,
           \/ Resolve(f) \/ Reject(f) \/ OpenFails(f) \/ SettleRejected(f)
           \/ Finish(f) \/ FinishFails(f)
           \/ StatementFails(f) \/ BeforeCommitEnds(f) \/ AfterRollbackEnds(f)
           \/ \E k \in HookKinds : Register(f, k)
    PROVE  Work'
  <1> DEFINE Quiet(d) == /\ Opened(d) => Opened(d)'
                         /\ HasSavepoint(d)' => HasSavepoint(d)
                         /\ IsRoot(d) => (InTransaction(d)' <=> InTransaction(d))
                         /\ Undone(d) => Undone(d)'
                         /\ Opened(d) /\ Undone(d)' => Undone(d)
                         /\ Kept(d)' <=> Kept(d)
  <1>1. UNCHANGED <<owner, enclosing, log, writes, durable, astray>>
    <2>1. UNCHANGED <<owner, enclosing>>
      BY NotACall DEF Base
    <2>2. UNCHANGED <<log, writes, durable, astray>>
      BY DEF Resolve, Reject, OpenFails, SettleRejected, Finish, FinishFails, StatementFails,
             BeforeCommitEnds, AfterRollbackEnds, Register, data
    <2> QED BY <2>1, <2>2
  <1>2. ASSUME UNCHANGED phase, NEW d \in Frames PROVE Quiet(d)
    BY <1>1, <1>2 DEF Opened, HasSavepoint, InTransaction, Undone, Kept
  <1>3. ASSUME Resolve(f), NEW d \in Frames PROVE Quiet(d)
    <2>1. phase[f] = "running" /\ phase' = [phase EXCEPT ![f] = "resolved"] /\ ~ IsRoot(f)
      BY <1>3 DEF Resolve
    <2>2. Kept(d)' => Kept(d)
      <3> SUFFICES ASSUME Kept(d)', f \in enclosing[d] PROVE FALSE
        BY <1>1, <2>1 DEF Kept, Base, TypeOK
      <3>1. Conn(d) \in enclosing[d] /\ IsRoot(Conn(d)) /\ Conn(f) = Conn(d)
            /\ Conn(f) \in enclosing[f] /\ Conn(f) \in Frames
        BY DEF Base, Chains, TypeOK
      <3>2. phase[Conn(f)] \in {"running", "finishing"} /\ Conn(f) # f
        BY <2>1, <3>1 DEF Base, Chains, Pending
      <3>3. phase'[Conn(f)] = "resolved"
        BY <1>1, <3>1 DEF Kept
      <3> QED BY <2>1, <3>1, <3>2, <3>3 DEF Base, TypeOK
    <2>3. /\ Kept(d) => Kept(d)'
          /\ Undone(d) <=> Undone(d)'
      BY <1>1, <2>1 DEF Kept, Undone, Base, TypeOK
    <2>4. /\ Opened(d) => Opened(d)'
          /\ HasSavepoint(d)' => HasSavepoint(d)
          /\ IsRoot(d) => (InTransaction(d)' <=> InTransaction(d))
      BY <2>1 DEF Opened, HasSavepoint, InTransaction, Base, TypeOK
    <2> QED BY <2>2, <2>3, <2>4
  <1>4. ASSUME OpenFails(f), NEW d \in Frames PROVE Quiet(d)
    <2>1. phase[f] = "queued" /\ phase' = [phase EXCEPT ![f] = "rejected"]
      BY <1>4 DEF OpenFails
    <2>2. Opened(d) /\ Undone(d)' => Undone(d)
      <3> SUFFICES ASSUME Opened(d), f \in enclosing[d] PROVE FALSE
        BY <1>1, <2>1 DEF Undone, Base, TypeOK
      <3> QED BY <2>1 DEF Work, Unopened, Opened
    <2>3. /\ Kept(d)' <=> Kept(d)
          /\ Undone(d) => Undone(d)'
      BY <1>1, <2>1 DEF Kept, Undone, Base, TypeOK
    <2>4. /\ Opened(d) => Opened(d)'
          /\ HasSavepoint(d)' => HasSavepoint(d)
          /\ IsRoot(d) => (InTransaction(d)' <=> InTransaction(d))
      BY <2>1 DEF Opened, HasSavepoint, InTransaction, Base, TypeOK
    <2> QED BY <2>2, <2>3, <2>4
  <1>5. ASSUME Reject(f) \/ SettleRejected(f) \/ Finish(f) \/ FinishFails(f), NEW d \in Frames
        PROVE  Quiet(d)
    <2>1. PICK q \in {"finishing", "unwinding", "rejected"} :
            /\ phase' = [phase EXCEPT ![f] = q]
            /\ phase[f] \in (IF q = "rejected" THEN {"compensating"} ELSE {"running", "finishing"})
      BY <1>5 DEF Reject, SettleRejected, Finish, FinishFails
    <2>2. /\ Kept(d)' <=> Kept(d)
          /\ Undone(d) <=> Undone(d)'
      BY <1>1, <2>1 DEF Kept, Undone, Base, TypeOK
    <2>3. /\ Opened(d) => Opened(d)'
          /\ HasSavepoint(d)' => HasSavepoint(d)
          /\ InTransaction(d)' <=> InTransaction(d)
      BY <2>1 DEF Opened, HasSavepoint, InTransaction, Base, TypeOK
    <2> QED BY <2>2, <2>3
  <1>6. \/ UNCHANGED phase \/ Resolve(f) \/ OpenFails(f)
        \/ Reject(f) \/ SettleRejected(f) \/ Finish(f) \/ FinishFails(f)
    BY DEF StatementFails, BeforeCommitEnds, AfterRollbackEnds, Register, control
  <1>7. \A d \in Frames : Quiet(d)
    BY <1>2, <1>3, <1>4, <1>5, <1>6
  <1> QED BY <1>1, <1>7, WorkFrame

(* BEGIN: a connection whose log is empty. *)
LEMMA WorkBegun ==
    ASSUME Base, Base', Work, NEW g \in Frames, phase[g] = "idle",
           phase' = [phase EXCEPT ![g] = "running"],
           UNCHANGED <<owner, enclosing, log, writes, durable, astray>>
    PROVE  Work'
  <1>1. \A c \in Frames : Conn(c)' = Conn(c) /\ IsRoot(Conn(c)) /\ Conn(c) \in Frames
    BY ConnKept DEF Base, Chains, TypeOK
  <1>2. IsRoot(g) /\ \A c \in Frames : c # g => g \notin enclosing[c]
    BY DEF Base, Structure, ChainOK
  <1>3. \A d \in Frames : /\ Opened(d) => Opened(d)'
                          /\ HasSavepoint(d)' => HasSavepoint(d) \/ d = g
                          /\ InTransaction(d) => InTransaction(d)'
                          /\ InTransaction(d)' => InTransaction(d) \/ d = g
                          /\ Undone(d)' <=> Undone(d)
                          /\ Kept(d)' <=> Kept(d)
    BY DEF Opened, HasSavepoint, InTransaction, Undone, Kept, Base, TypeOK
  <1>4. Unopened'
    BY <1>3 DEF Work, Unopened, Base, TypeOK
  <1>5. LogSent'
    <2> SUFFICES ASSUME NEW r \in Frames, NEW i \in 1 .. Len(log[r]), NEW e, e = log[r][i]
                 PROVE  /\ InTransaction(r)' /\ Conn(e.frame)' = r /\ Opened(e.frame)'
                        /\ e \in Writes => e.n <= writes[e.frame] /\ ~ Undone(e.frame)'
      BY DEF LogSent, Conn, Opened, Undone
    <2>1. e.frame \in Frames
      BY EntryFrame DEF Base
    <2>2. /\ InTransaction(r) /\ Conn(e.frame) = r /\ Opened(e.frame)
          /\ e \in Writes => e.n <= writes[e.frame] /\ ~ Undone(e.frame)
      BY DEF Work, LogSent
    <2> QED BY <1>1, <1>3, <2>1, <2>2
  <1>6. LogMarked'
    <2> SUFFICES ASSUME NEW h \in Frames, ~ IsRoot(h)', HasSavepoint(h)'
                 PROVE  (\E p \in 1 .. Len(log[Conn(h)]) : MarkedAt(h, p))'
      BY DEF LogMarked
    <2>1. PICK p \in 1 .. Len(log[Conn(h)]) : MarkedAt(h, p)
      BY <1>2, <1>3 DEF Work, LogMarked, IsRoot
    <2>2. MarkedAt(h, p)'
      BY <1>1, <2>1 DEF MarkedAt
    <2> QED BY <1>1, <2>1, <2>2
  <1>7. LogComplete'
    <2> SUFFICES ASSUME NEW c \in Frames, InTransaction(Conn(c))', ~ Undone(c)',
                        NEW n \in 1 .. writes[c], WriteOf(c, n) \notin astray
                 PROVE  Holds(log[Conn(c)], WriteOf(c, n))'
      BY DEF LogComplete
    <2>1. InTransaction(Conn(c)) \/ Conn(c) = g
      BY <1>1, <1>3 DEF InTransaction
    <2>2. CASE InTransaction(Conn(c))
      BY <1>1, <1>3, <2>2 DEF Work, LogComplete, Holds
    <2>3. CASE Conn(c) = g
      <3>1. c = g
        BY <1>2, <2>3 DEF Base, Chains
      <3>2. writes[c] = 0
        BY <3>1 DEF Work, Unopened, Opened
      <3> QED BY <3>2
    <2> QED BY <2>1, <2>2, <2>3
  <1>8. Fates'
    <2>1. \A w \in durable : w.frame \in Frames
      BY DEF Base, TypeOK, Writes, WriteOf
    <2> QED BY <1>3, <2>1 DEF Work, Fates, DurableMeansKept, KeptMeansDurable
  <1> QED BY <1>4, <1>5, <1>6, <1>7, <1>8 DEF Work

(* A nested call queues: it has sent nothing yet. *)
LEMMA WorkQueued ==
    ASSUME Base, Base', Work, NEW f \in Frames, NEW g \in Frames, CallNested(f, g)
    PROVE  Work'
  <1>1. PICK c \in Frames : /\ ActsIn(f, c)
                            /\ owner' = [owner EXCEPT ![g] = c]
                            /\ enclosing' = [enclosing EXCEPT ![g] = {g} \cup enclosing[c]]
    BY DEF CallNested
  <1>2. /\ phase[g] = "idle" /\ phase' = [phase EXCEPT ![g] = "queued"]
        /\ UNCHANGED <<log, writes, durable, astray>>
    BY DEF CallNested, data
  <1>3. \A d \in Frames : d # g => g \notin enclosing[d]
    BY <1>2 DEF Base, Structure, ChainOK
  <1>4. phase[c] \in {"running", "finishing"}
    BY <1>1, ActorRuns DEF Base
  <1>5. \A d \in Frames \ {g} : /\ enclosing'[d] = enclosing[d] /\ owner'[d] = owner[d]
                               /\ phase'[d] = phase[d]
    BY <1>1, <1>2 DEF Base, TypeOK
  <1>6. ASSUME NEW d \in Frames \ {g} PROVE Conn(d)' = Conn(d) /\ Conn(d) \in Frames \ {g}
    <2>1. \A e \in enclosing[d] : e \in Frames \ {g} /\ owner'[e] = owner[e]
      BY <1>3, <1>5 DEF Base, TypeOK
    <2>2. Conn(d)' = Conn(d)
      BY <1>5, <2>1, ConnKept
    <2> QED BY <2>1, <2>2 DEF Base, Chains
  <1>7. ASSUME NEW d \in Frames \ {g}
        PROVE  /\ Opened(d)' <=> Opened(d)
               /\ HasSavepoint(d)' <=> HasSavepoint(d)
               /\ InTransaction(d)' <=> InTransaction(d)
               /\ IsRoot(d)' <=> IsRoot(d)
               /\ Undone(d)' <=> Undone(d)
               /\ Kept(d)' <=> Kept(d)
    <2>1. \A e \in enclosing[d] : phase'[e] = phase[e]
      BY <1>3, <1>5 DEF Base, TypeOK
    <2> QED BY <1>5, <2>1 DEF Opened, HasSavepoint, InTransaction, IsRoot, Undone, Kept
  <1>8. ~ Opened(g)' /\ ~ HasSavepoint(g)' /\ ~ Opened(g) /\ ~ InTransaction(g) /\ ~ Kept(g)'
    <2>1. phase'[g] = "queued" /\ g \in enclosing'[g]
      BY <1>1, <1>2 DEF Base, TypeOK
    <2> QED BY <1>2, <2>1 DEF Opened, HasSavepoint, InTransaction, Kept
  <1>9. Unopened'
    <2> SUFFICES ASSUME NEW d \in Frames
                 PROVE  /\ ~ Opened(d)' => writes[d] = 0
                        /\ \A e \in enclosing'[d] : e # d => Opened(e)'
      BY <1>2 DEF Unopened
    <2>1. CASE d = g
      <3>1. enclosing'[g] = {g} \cup enclosing[c] /\ c # g
        BY <1>1, <1>2, <1>4 DEF Base, TypeOK
      <3>2. \A e \in enclosing[c] : Opened(e)
        BY <1>4 DEF Work, Unopened, Opened
      <3> QED BY <1>3, <1>7, <1>8, <2>1, <3>1, <3>2 DEF Work, Unopened, Base, TypeOK
    <2>2. CASE d # g
      BY <1>3, <1>5, <1>7, <2>2 DEF Work, Unopened, Base, TypeOK
    <2> QED BY <2>1, <2>2
  <1>10. \A r \in Frames : \A i \in 1 .. Len(log[r]) :
           log[r][i].frame \in Frames \ {g} /\ r # g
    BY <1>8, EntryFrame DEF Work, LogSent, Base
  <1>11. LogSent'
    <2> SUFFICES ASSUME NEW r \in Frames, NEW i \in 1 .. Len(log[r]), NEW e, e = log[r][i]
                 PROVE  /\ InTransaction(r)' /\ Conn(e.frame)' = r /\ Opened(e.frame)'
                        /\ e \in Writes => e.n <= writes[e.frame] /\ ~ Undone(e.frame)'
      BY <1>2 DEF LogSent, Conn, Opened, Undone
    <2>1. e.frame \in Frames \ {g} /\ r # g
      BY <1>10
    <2>2. /\ InTransaction(r) /\ Conn(e.frame) = r /\ Opened(e.frame)
          /\ e \in Writes => e.n <= writes[e.frame] /\ ~ Undone(e.frame)
      BY DEF Work, LogSent
    <2> QED BY <1>6, <1>7, <2>1, <2>2
  <1>12. LogMarked'
    <2> SUFFICES ASSUME NEW h \in Frames, ~ IsRoot(h)', HasSavepoint(h)'
                 PROVE  (\E p \in 1 .. Len(log[Conn(h)]) : MarkedAt(h, p))'
      BY DEF LogMarked
    <2>1. h \in Frames \ {g}
      BY <1>8
    <2>2. PICK p \in 1 .. Len(log[Conn(h)]) : MarkedAt(h, p)
      BY <1>7, <2>1 DEF Work, LogMarked
    <2>3. Conn(h)' = Conn(h) /\ Conn(h) \in Frames
      BY <1>6, <2>1
    <2>4. \A i \in 1 .. Len(log[Conn(h)]) :
            enclosing'[log[Conn(h)][i].frame] = enclosing[log[Conn(h)][i].frame]
      BY <1>5, <1>10, <2>3
    <2>5. MarkedAt(h, p)'
      BY <1>2, <2>2, <2>3, <2>4 DEF MarkedAt
    <2> QED BY <1>2, <2>2, <2>3, <2>5
  <1>13. LogComplete'
    <2> SUFFICES ASSUME NEW d \in Frames, InTransaction(Conn(d))', ~ Undone(d)',
                        NEW n \in 1 .. writes[d], WriteOf(d, n) \notin astray
                 PROVE  Holds(log[Conn(d)], WriteOf(d, n))'
      BY <1>2 DEF LogComplete
    <2>1. d \in Frames \ {g}
      BY <1>8 DEF Work, Unopened
    <2>2. InTransaction(Conn(d)) /\ ~ Undone(d)
      BY <1>6, <1>7, <2>1 DEF InTransaction
    <2> QED BY <1>2, <1>6, <2>1, <2>2 DEF Work, LogComplete, Holds
  <1>14. Fates'
    <2>1. \A w \in durable : w.frame \in Frames
      BY DEF Base, TypeOK, Writes, WriteOf
    <2>2. ~ Kept(g)
      BY <1>2 DEF Kept, Base, Structure, ChainOK
    <2> QED BY <1>2, <1>7, <1>8, <2>1, <2>2 DEF Work, Fates, DurableMeansKept, KeptMeansDurable
  <1> QED BY <1>9, <1>11, <1>12, <1>13, <1>14 DEF Work

(* The SAVEPOINT of g is the last entry of the log, and g the deepest frame. *)
LEMMA WorkOpened ==
    ASSUME Base, Base', Work, NEW g \in Frames, Open(g)
    PROVE  Work'
  <1>0. PICK r \in Frames : r = Conn(g)
    BY DEF Base, Chains, TypeOK
  <1>00. PICK N \in Nat : N = Len(log[r])
    BY DEF Base, TypeOK
  <1>1. /\ phase[g] = "queued" /\ phase' = [phase EXCEPT ![g] = "running"]
        /\ InTransaction(r)
        /\ log' = [log EXCEPT ![r] = Append(@, SavepointOf(g))]
        /\ UNCHANGED <<owner, enclosing, writes, durable, astray>>
    BY <1>0 DEF Open, Healthy
  <1>2. r \in Frames /\ N \in Nat /\ ~ IsRoot(g)
    BY <1>0, <1>1 DEF Base, Structure, RootPhases
  <1>3. /\ Len(log'[r]) = N + 1
        /\ \A i \in 1 .. N : log'[r][i] = log[r][i]
        /\ log'[r][N + 1] = SavepointOf(g)
        /\ \A q \in Frames : q # r => log'[q] = log[q]
    <2>1. TypeOK /\ log' = [log EXCEPT ![r] = Append(@, SavepointOf(g))]
      BY <1>1 DEF Base
    <2>2. /\ Len(log'[r]) = Len(log[r]) + 1
          /\ \A i \in 1 .. Len(log[r]) : log'[r][i] = log[r][i]
          /\ log'[r][Len(log[r]) + 1] = SavepointOf(g)
          /\ \A q \in Frames : q # r => log'[q] = log[q]
      BY <2>1, Appended
    <2> QED BY <1>00, <2>2
  <1>4. \A c \in Frames : Conn(c)' = Conn(c) /\ Conn(c) \in Frames
    BY <1>1, ConnKept DEF Base, Chains, TypeOK
  <1>5. \A d \in Frames : /\ Opened(d) => Opened(d)'
                          /\ HasSavepoint(d)' => HasSavepoint(d) \/ d = g
                          /\ InTransaction(d) => InTransaction(d)'
                          /\ InTransaction(d)' => InTransaction(d) \/ d = g
                          /\ Undone(d)' <=> Undone(d)
                          /\ Kept(d)' <=> Kept(d)
    BY <1>1 DEF Opened, HasSavepoint, InTransaction, Undone, Kept, Base, TypeOK
  <1>6. \A d \in Frames : g \notin enclosing[d] \/ ~ Opened(d) 
    BY <1>1 DEF Work, Unopened, Opened
  <1>7. HasSavepoint(g)' /\ Opened(g)' /\ ~ Opened(g)
    BY <1>1 DEF HasSavepoint, Opened, Base, TypeOK
  <1>8. Unopened'
    BY <1>1, <1>5 DEF Work, Unopened, Base, TypeOK
  <1>9. LogSent'
    <2> SUFFICES ASSUME NEW q \in Frames, NEW i \in 1 .. Len(log'[q]), NEW e, e = log'[q][i]
                 PROVE  /\ InTransaction(q)' /\ Conn(e.frame)' = q /\ Opened(e.frame)'
                        /\ e \in Writes => e.n <= writes[e.frame] /\ ~ Undone(e.frame)'
      BY <1>1 DEF LogSent, Conn, Opened, Undone
    <2>1. CASE i \in 1 .. Len(log[q]) /\ log'[q][i] = log[q][i]
      <3>1. e.frame \in Frames
        BY <2>1, EntryFrame DEF Base
      <3>2. /\ InTransaction(q) /\ Conn(e.frame) = q /\ Opened(e.frame)
            /\ e \in Writes => e.n <= writes[e.frame] /\ ~ Undone(e.frame)
        BY <2>1 DEF Work, LogSent
      <3> QED BY <1>4, <1>5, <3>1, <3>2
    <2>2. CASE q = r /\ i = N + 1
      <3>1. e = SavepointOf(g) /\ e.frame = g /\ e \notin Writes
        BY <1>3, <2>2, EntryKinds
      <3> QED BY <1>0, <1>1, <1>4, <1>5, <1>7, <2>2, <3>1
    <2>3. (i \in 1 .. Len(log[q]) /\ log'[q][i] = log[q][i]) \/ (q = r /\ i = N + 1)
      BY <1>00, <1>2, <1>3
    <2> QED BY <2>1, <2>2, <2>3
  <1>10. LogMarked'
    <2> SUFFICES ASSUME NEW h \in Frames, ~ IsRoot(h), HasSavepoint(h)'
                 PROVE  (\E p \in 1 .. Len(log[Conn(h)]) : MarkedAt(h, p))'
      BY <1>1 DEF LogMarked, IsRoot
    <2>1. CASE h = g
      <3>1. \A i \in 1 .. N : /\ log[r][i] # SavepointOf(g)
                              /\ g \notin enclosing[log[r][i].frame]
        <4> SUFFICES ASSUME NEW i \in 1 .. N
                     PROVE  /\ log[r][i] # SavepointOf(g)
                            /\ g \notin enclosing[log[r][i].frame]
          OBVIOUS
        <4>1. Opened(log[r][i].frame) /\ log[r][i].frame \in Frames
          BY <1>00, <1>2, EntryFrame DEF Work, LogSent, Base
        <4> QED BY <1>6, <1>7, <4>1, EntryKinds
      <3>2. \A i \in 1 .. Len(log'[r]) :
              /\ log'[r][i] = SavepointOf(g) <=> i = N + 1
              /\ N + 1 < i /\ log'[r][i] \notin astray => g \in enclosing[log'[r][i].frame]
              /\ i < N + 1 => g \notin enclosing[log'[r][i].frame]
        <4> SUFFICES ASSUME NEW i \in 1 .. Len(log'[r])
                     PROVE  /\ log'[r][i] = SavepointOf(g) <=> i = N + 1
                            /\ N + 1 < i /\ log'[r][i] \notin astray => g \in enclosing[log'[r][i].frame]
                            /\ i < N + 1 => g \notin enclosing[log'[r][i].frame]
          OBVIOUS
        <4>1. CASE i \in 1 .. N
          BY <1>2, <1>3, <3>1, <4>1
        <4>2. CASE i = N + 1
          BY <1>2, <1>3, <4>2
        <4> QED BY <1>2, <1>3, <4>1, <4>2
      <3>3. MarkedAt(g, N + 1)'
        BY <1>0, <1>1, <1>4, <3>2 DEF MarkedAt
      <3>4. N + 1 \in 1 .. Len(log'[r])
        BY <1>2, <1>3
      <3> QED BY <1>0, <1>4, <2>1, <3>3, <3>4
    <2>2. CASE h # g
      <3>1. HasSavepoint(h)
        BY <1>5, <2>2
      <3>2. PICK p \in 1 .. Len(log[Conn(h)]) : MarkedAt(h, p)
        BY <3>1 DEF Work, LogMarked
      <3>3. CASE Conn(h) # r
        <4>1. Conn(h)' = Conn(h) /\ log'[Conn(h)] = log[Conn(h)]
          BY <1>3, <1>4, <3>3
        <4>2. UNCHANGED <<enclosing, astray>>
          BY <1>1
        <4>3. MarkedAt(h, p)'
          BY <3>2, <4>1, <4>2 DEF MarkedAt
        <4> QED BY <3>2, <4>1, <4>3
      <3>4. CASE Conn(h) = r
        <4>1. h \in enclosing[g]
          <5>1. Opened(h)
            BY <3>1 DEF HasSavepoint, Opened
          <5>2. g \notin enclosing[h]
            BY <1>6, <5>1
          <5>3. h \in enclosing'[g] \/ g \in enclosing'[h]
            BY <1>0, <1>4, <1>7, <3>4 DEF Base, Chains, SavepointsNest
          <5> QED BY <1>1, <5>2, <5>3
        <4>2. p \in 1 .. N
          BY <1>00, <3>2, <3>4
        <4>3. \A i \in 1 .. N : /\ log[r][i] = SavepointOf(h) <=> i = p
                                /\ p < i /\ log[r][i] \notin astray => h \in enclosing[log[r][i].frame]
                                /\ i < p => h \notin enclosing[log[r][i].frame]
          BY <1>00, <3>2, <3>4 DEF MarkedAt
        <4>4. \A i \in 1 .. Len(log'[r]) :
                /\ log'[r][i] = SavepointOf(h) <=> i = p
                /\ p < i /\ log'[r][i] \notin astray => h \in enclosing[log'[r][i].frame]
                /\ i < p => h \notin enclosing[log'[r][i].frame]
          <5> SUFFICES ASSUME NEW i \in 1 .. Len(log'[r])
                       PROVE  /\ log'[r][i] = SavepointOf(h) <=> i = p
                              /\ p < i /\ log'[r][i] \notin astray => h \in enclosing[log'[r][i].frame]
                              /\ i < p => h \notin enclosing[log'[r][i].frame]
            OBVIOUS
          <5>1. CASE i \in 1 .. N
            BY <1>3, <4>3, <5>1
          <5>2. CASE i = N + 1
            <6>1. log'[r][i] = SavepointOf(g) /\ log'[r][i] # SavepointOf(h)
                  /\ log'[r][i].frame = g
              BY <1>3, <2>2, <5>2, EntryKinds
            <6>2. p < i
              BY <1>2, <4>2, <5>2
            <6> QED BY <4>1, <6>1, <6>2
          <5> QED BY <1>2, <1>3, <5>1, <5>2
        <4>5. MarkedAt(h, p)'
          BY <1>1, <1>4, <3>4, <4>4 DEF MarkedAt
        <4>6. p \in 1 .. Len(log'[r])
          BY <1>2, <1>3, <4>2
        <4> QED BY <1>4, <3>4, <4>5, <4>6
      <3> QED BY <3>3, <3>4
    <2> QED BY <2>1, <2>2
  <1>11. LogComplete'
    <2> SUFFICES ASSUME NEW c \in Frames, InTransaction(Conn(c))', ~ Undone(c)',
                        NEW n \in 1 .. writes[c], WriteOf(c, n) \notin astray
                 PROVE  Holds(log[Conn(c)], WriteOf(c, n))'
      BY <1>1 DEF LogComplete
    <2>1. InTransaction(Conn(c)) /\ Conn(c)' = Conn(c) /\ Conn(c) \in Frames
      BY <1>2, <1>4, <1>5 DEF InTransaction, Base, Chains
    <2>2. Holds(log[Conn(c)], WriteOf(c, n))
      BY <1>5, <2>1 DEF Work, LogComplete
    <2>3. PICK i \in 1 .. Len(log[Conn(c)]) : log[Conn(c)][i] = WriteOf(c, n)
      <3>1. log[Conn(c)] \in Seq(Entries)
        BY <2>1 DEF Base, TypeOK
      <3> QED BY <2>2, <3>1 DEF Holds
    <2>4. i \in 1 .. Len(log'[Conn(c)]) /\ log'[Conn(c)][i] = WriteOf(c, n)
      BY <1>00, <1>2, <1>3, <2>1, <2>3
    <2>5. log'[Conn(c)] \in Seq(Entries)
      BY <2>1 DEF Base, TypeOK
    <2> QED BY <2>1, <2>4, <2>5 DEF Holds
  <1>12. Fates'
    <2>1. \A w \in durable : w.frame \in Frames
      BY DEF Base, TypeOK, Writes, WriteOf
    <2> QED BY <1>1, <1>5, <2>1 DEF Work, Fates, DurableMeansKept, KeptMeansDurable
  <1> QED BY <1>8, <1>9, <1>10, <1>11, <1>12 DEF Work

(* A write is the next entry of the log, and follows every SAVEPOINT that is *)
(* left: that of a frame around it, or it goes astray.                       *)
LEMMA WorkWritten ==
    ASSUME Base, Base', Work, NEW f \in Frames, Write(f)
    PROVE  Work'
  <1>0. PICK c \in Frames :
          /\ ActsIn(f, c) /\ NoNestedPending(f) /\ Healthy(c)
          /\ writes' = [writes EXCEPT ![c] = @ + 1]
          /\ log' = [log EXCEPT ![Conn(c)] = Append(@, WriteOf(c, writes[c] + 1))]
          /\ astray' = IF Covered(c) THEN astray \cup {WriteOf(c, writes[c] + 1)} ELSE astray
          /\ UNCHANGED <<control, queues, aborted, durable>>
    BY DEF Write
  <1>15. astray \subseteq astray'
    BY <1>0
  <1>1. UNCHANGED <<phase, owner, enclosing, durable>>
    BY <1>0 DEF control
  <1>2. PICK r \in Frames : r = Conn(c)
    BY DEF Base, Chains, TypeOK
  <1>3. PICK N \in Nat : N = Len(log[r])
    BY DEF Base, TypeOK
  <1>4. PICK m \in Nat : m = writes[c]
    BY DEF Base, TypeOK
  <1>5. /\ Len(log'[r]) = N + 1
        /\ \A i \in 1 .. N : log'[r][i] = log[r][i]
        /\ log'[r][N + 1] = WriteOf(c, m + 1)
        /\ \A q \in Frames : q # r => log'[q] = log[q]
    <2>1. TypeOK /\ log' = [log EXCEPT ![r] = Append(@, WriteOf(c, m + 1))]
      BY <1>0, <1>2, <1>4 DEF Base
    <2>2. /\ Len(log'[r]) = Len(log[r]) + 1
          /\ \A i \in 1 .. Len(log[r]) : log'[r][i] = log[r][i]
          /\ log'[r][Len(log[r]) + 1] = WriteOf(c, m + 1)
          /\ \A q \in Frames : q # r => log'[q] = log[q]
      BY <2>1, Appended
    <2> QED BY <1>3, <2>2
  <1>6. /\ writes'[c] = m + 1
        /\ \A d \in Frames : /\ writes[d] \in Nat /\ writes'[d] \in Nat
                             /\ writes[d] <= writes'[d]
                             /\ d # c => writes'[d] = writes[d]
    <2>1. writes \in [Frames -> 0 .. MaxWrites] /\ writes' \in [Frames -> 0 .. MaxWrites]
      BY DEF Base, TypeOK
    <2>2. \A d \in Frames : writes'[d] = IF d = c THEN m + 1 ELSE writes[d]
      BY <1>0, <1>4, <2>1
    <2>3. \A d \in Frames : writes[d] \in Nat /\ writes'[d] \in Nat
      BY <2>1
    <2> QED BY <1>4, <2>2, <2>3
  <1>7. \A d \in Frames : /\ Conn(d)' = Conn(d) /\ Conn(d) \in Frames
                          /\ Opened(d)' <=> Opened(d)
                          /\ HasSavepoint(d)' <=> HasSavepoint(d)
                          /\ InTransaction(d)' <=> InTransaction(d)
                          /\ Undone(d)' <=> Undone(d)
                          /\ Kept(d)' <=> Kept(d)
    BY <1>1, ConnKept
       DEF Opened, HasSavepoint, InTransaction, Undone, Kept, Base, Chains, TypeOK
  <1>8. phase[c] \in {"running", "finishing"} /\ InTransaction(r) /\ c \in enclosing[c]
    BY <1>0, <1>2, ActorRuns DEF Base, Healthy, Structure, ChainOK
  <1>9. Opened(c) /\ ~ Undone(c) /\ ~ Kept(c)
    <2>1. \A e \in enclosing[c] : phase[e] \in {"running", "finishing"}
      BY <1>8 DEF Base, Chains, Pending
    <2> QED BY <1>8, <2>1 DEF Opened, Undone, Kept
  <1>10. Unopened'
    <2> SUFFICES ASSUME NEW d \in Frames
                 PROVE  /\ ~ Opened(d)' => writes'[d] = 0
                        /\ \A e \in enclosing'[d] : e # d => Opened(e)'
      BY DEF Unopened
    <2>1. ~ Opened(d)' => writes'[d] = 0
      BY <1>6, <1>7, <1>9 DEF Work, Unopened
    <2>2. \A e \in enclosing'[d] : e # d => Opened(e)'
      BY <1>1, <1>7 DEF Work, Unopened, Base, TypeOK
    <2> QED BY <2>1, <2>2
  <1>11. LogSent'
    <2> SUFFICES ASSUME NEW q \in Frames, NEW i \in 1 .. Len(log'[q]), NEW e, e = log'[q][i]
                 PROVE  /\ InTransaction(q)' /\ Conn(e.frame)' = q /\ Opened(e.frame)'
                        /\ e \in Writes => e.n <= writes'[e.frame] /\ ~ Undone(e.frame)'
      BY DEF LogSent, Conn, Opened, Undone
    <2>1. CASE i \in 1 .. Len(log[q]) /\ log'[q][i] = log[q][i]
      <3>1. e.frame \in Frames
        BY <2>1, EntryFrame DEF Base
      <3>2. /\ InTransaction(q) /\ Conn(e.frame) = q /\ Opened(e.frame)
            /\ e \in Writes => e.n <= writes[e.frame] /\ ~ Undone(e.frame)
        BY <2>1 DEF Work, LogSent
      <3>3. e \in Writes => e.n \in Nat
        BY DEF Writes, WriteOf
      <3> QED BY <1>6, <1>7, <3>1, <3>2, <3>3
    <2>2. CASE q = r /\ i = N + 1
      <3>1. e.frame = c /\ e.n = m + 1
        BY <1>5, <2>2, EntryKinds
      <3> QED BY <1>2, <1>6, <1>7, <1>8, <1>9, <2>2, <3>1
    <2>3. (i \in 1 .. Len(log[q]) /\ log'[q][i] = log[q][i]) \/ (q = r /\ i = N + 1)
      BY <1>3, <1>5
    <2> QED BY <2>1, <2>2, <2>3
  <1>12. LogMarked'
    <2> SUFFICES ASSUME NEW h \in Frames, ~ IsRoot(h), HasSavepoint(h)
                 PROVE  (\E p \in 1 .. Len(log[Conn(h)]) : MarkedAt(h, p))'
      BY <1>1, <1>7 DEF LogMarked, IsRoot
    <2>1. PICK p \in 1 .. Len(log[Conn(h)]) : MarkedAt(h, p)
      BY DEF Work, LogMarked
    <2>2. CASE Conn(h) # r
      <3>1. Conn(h)' = Conn(h) /\ log'[Conn(h)] = log[Conn(h)]
        BY <1>5, <1>7, <2>2
      <3>2. MarkedAt(h, p)'
        BY <1>1, <1>15, <2>1, <3>1 DEF MarkedAt
      <3> QED BY <2>1, <3>1, <3>2
    <2>3. CASE Conn(h) = r
      <3>1. h \in enclosing[c] \/ WriteOf(c, m + 1) \in astray'
        <4>1. CASE Covered(c)
          BY <1>0, <1>4, <4>1
        <4>2. CASE ~ Covered(c)
          BY <1>2, <2>3, <4>2 DEF Covered
        <4> QED BY <4>1, <4>2
      <3>2. p \in 1 .. N
        BY <1>3, <2>1, <2>3
      <3>3. \A i \in 1 .. N : /\ log[r][i] = SavepointOf(h) <=> i = p
                              /\ p < i /\ log[r][i] \notin astray => h \in enclosing[log[r][i].frame]
                              /\ i < p => h \notin enclosing[log[r][i].frame]
        BY <1>3, <2>1, <2>3 DEF MarkedAt
      <3>4. \A i \in 1 .. Len(log'[r]) :
              /\ log'[r][i] = SavepointOf(h) <=> i = p
              /\ p < i /\ log'[r][i] \notin astray' => h \in enclosing[log'[r][i].frame]
              /\ i < p => h \notin enclosing[log'[r][i].frame]
        <4> SUFFICES ASSUME NEW i \in 1 .. Len(log'[r])
                     PROVE  /\ log'[r][i] = SavepointOf(h) <=> i = p
                            /\ p < i /\ log'[r][i] \notin astray' => h \in enclosing[log'[r][i].frame]
                            /\ i < p => h \notin enclosing[log'[r][i].frame]
          OBVIOUS
        <4>1. CASE i \in 1 .. N
          BY <1>5, <1>15, <3>3, <4>1
        <4>2. CASE i = N + 1
          <5>1. /\ log'[r][i] # SavepointOf(h) /\ log'[r][i].frame = c
                /\ log'[r][i] = WriteOf(c, m + 1)
            BY <1>5, <4>2, EntryKinds
          <5>2. p < i
            BY <3>2, <4>2
          <5> QED BY <3>1, <5>1, <5>2
        <4> QED BY <1>5, <4>1, <4>2
      <3>5. MarkedAt(h, p)'
        BY <1>1, <1>7, <2>3, <3>4 DEF MarkedAt
      <3>6. p \in 1 .. Len(log'[r])
        BY <1>5, <3>2
      <3> QED BY <1>7, <2>3, <3>5, <3>6
    <2> QED BY <2>2, <2>3
  <1>13. LogComplete'
    <2> SUFFICES ASSUME NEW d \in Frames, InTransaction(Conn(d))', ~ Undone(d)',
                        NEW n \in 1 .. writes'[d], WriteOf(d, n) \notin astray'
                 PROVE  Holds(log'[Conn(d)], WriteOf(d, n))
      BY <1>7 DEF LogComplete, Holds
    <2>1. InTransaction(Conn(d)) /\ Conn(d) \in Frames /\ ~ Undone(d)
      BY <1>7 DEF InTransaction
    <2>2. log'[Conn(d)] \in Seq(Entries) /\ log[Conn(d)] \in Seq(Entries)
      BY <2>1 DEF Base, TypeOK
    <2>3. CASE n \in 1 .. writes[d]
      <3>1. Holds(log[Conn(d)], WriteOf(d, n))
        BY <1>15, <2>1, <2>3 DEF Work, LogComplete
      <3>2. PICK i \in 1 .. Len(log[Conn(d)]) : log[Conn(d)][i] = WriteOf(d, n)
        BY <2>2, <3>1 DEF Holds
      <3>3. i \in 1 .. Len(log'[Conn(d)]) /\ log'[Conn(d)][i] = WriteOf(d, n)
        BY <1>3, <1>5, <2>1, <3>2
      <3> QED BY <2>2, <3>3 DEF Holds
    <2>4. CASE d = c /\ n = m + 1
      <3>1. N + 1 \in 1 .. Len(log'[r]) /\ log'[r][N + 1] = WriteOf(d, n)
        BY <1>5, <2>4
      <3> QED BY <1>2, <2>2, <2>4, <3>1 DEF Holds
    <2>5. n \in 1 .. writes[d] \/ (d = c /\ n = m + 1)
      BY <1>4, <1>6
    <2> QED BY <2>3, <2>4, <2>5
  <1>14. Fates'
    <2>1. \A w \in durable : w.frame \in Frames
      BY DEF Base, TypeOK, Writes, WriteOf
    <2>2. \A d \in Frames : Kept(d)' => Kept(d) /\ writes'[d] = writes[d]
      BY <1>6, <1>7, <1>9
    <2> QED BY <1>1, <1>7, <1>15, <2>1, <2>2 DEF Work, Fates, DurableMeansKept, KeptMeansDurable
  <1> QED BY <1>10, <1>11, <1>12, <1>13, <1>14 DEF Work

(* ROLLBACK TO g finds its SAVEPOINT, and cuts the log after it.             *)
LEMMA CutAtSavepoint ==
    ASSUME Base, Work, NEW g \in Frames, NEW r \in Frames, r = Conn(g), RollbackTo(g)
    PROVE  \E p \in 1 .. Len(log[r]) :
               MarkedAt(g, p) /\ log' = [log EXCEPT ![r] = SubSeq(@, 1, p)]
  <1>1. phase[g] = "unwinding" /\ ~ IsRoot(g)
    BY DEF RollbackTo
  <1>2. InTransaction(r)
    <2>1. r \in enclosing[g] /\ r # g
      BY <1>1 DEF Base, Chains
    <2> QED BY <1>1, <2>1 DEF Base, Chains, Pending, InTransaction
  <1>3. PICK p \in 1 .. Len(log[r]) : MarkedAt(g, p)
    BY <1>1 DEF Work, LogMarked, HasSavepoint
  <1>4. \A i \in 1 .. Len(log[r]) : log[r][i] = SavepointOf(g) <=> i = p
    BY <1>3 DEF MarkedAt
  <1>5. log[r] \in Seq(Entries)
    BY DEF Base, TypeOK
  <1>6. Holds(log[r], SavepointOf(g))
    BY <1>4, <1>5 DEF Holds
  <1>7. CutTo(log[r], g) = SubSeq(log[r], 1, p)
    <2>1. DOMAIN log[r] = 1 .. Len(log[r])
      BY <1>5
    <2>2. (CHOOSE i \in DOMAIN log[r] : log[r][i] = SavepointOf(g)) = p
      BY <1>4, <2>1
    <2> QED BY <2>2 DEF CutTo
  <1> QED BY <1>2, <1>3, <1>6, <1>7 DEF RollbackTo

(* What is lost was sent by g and the frames inside it, which are undone by  *)
(* the same step, and no SAVEPOINT that is left was behind it.               *)
LEMMA WorkCut ==
    ASSUME Base, Base', Work, NEW g \in Frames, RollbackTo(g)
    PROVE  Work'
  <1>1. PICK r \in Frames : r = Conn(g)
    BY DEF Base, Chains, TypeOK
  <1>2. /\ phase[g] = "unwinding" /\ ~ IsRoot(g)
        /\ phase' = [phase EXCEPT ![g] = "compensating"]
        /\ UNCHANGED <<owner, enclosing, writes, durable, astray>>
    BY DEF RollbackTo
  <1>3. PICK p \in 1 .. Len(log[r]) : /\ MarkedAt(g, p)
                                      /\ log' = [log EXCEPT ![r] = SubSeq(@, 1, p)]
    BY <1>1, CutAtSavepoint
  <1>4. \A i \in 1 .. Len(log[r]) : /\ log[r][i] = SavepointOf(g) <=> i = p
                                    /\ p < i /\ log[r][i] \notin astray => g \in enclosing[log[r][i].frame]
                                    /\ i < p => g \notin enclosing[log[r][i].frame]
    BY <1>1, <1>3 DEF MarkedAt
  <1>5. log[r] \in Seq(Entries) /\ Len(log[r]) \in Nat /\ p \in Nat /\ p <= Len(log[r])
    BY DEF Base, TypeOK
  <1>6. log' = [log EXCEPT ![r] = SubSeq(@, 1, p)]
    BY <1>3
  <1>7. /\ Len(log'[r]) = p
        /\ \A i \in 1 .. p : log'[r][i] = log[r][i]
        /\ \A q \in Frames : q # r => log'[q] = log[q]
    <2>1. log'[r] = SubSeq(log[r], 1, p) /\ \A q \in Frames : q # r => log'[q] = log[q]
      BY <1>6 DEF Base, TypeOK
    <2> QED BY <1>5, <2>1
  <1>8. \A d \in Frames : Conn(d)' = Conn(d) /\ Conn(d) \in Frames /\ Conn(d) # g
    <2>1. \A d \in Frames : Conn(d)' = Conn(d)
      BY <1>2, ConnKept
    <2>2. \A d \in Frames : IsRoot(Conn(d)) /\ Conn(d) \in Frames
      BY DEF Base, Chains, TypeOK
    <2> QED BY <1>2, <2>1, <2>2
  <1>9. \A d \in Frames : /\ Opened(d)' <=> Opened(d)
                          /\ HasSavepoint(d)' => HasSavepoint(d) /\ d # g
                          /\ d # g => (InTransaction(d)' <=> InTransaction(d))
                          /\ Undone(d)' <=> Undone(d) \/ g \in enclosing[d]
                          /\ Kept(d)' <=> Kept(d)
    BY <1>2 DEF Opened, HasSavepoint, InTransaction, Undone, Kept, Base, TypeOK
  <1>10. Unopened'
    BY <1>2, <1>9 DEF Work, Unopened, Base, TypeOK
  <1>11. \A q \in Frames : \A i \in 1 .. Len(log'[q]) :
           /\ i \in 1 .. Len(log[q]) /\ log'[q][i] = log[q][i]
           /\ q = r => i <= p
    BY <1>5, <1>7
  <1>12. LogSent'
    <2> SUFFICES ASSUME NEW q \in Frames, NEW i \in 1 .. Len(log'[q]), NEW e, e = log'[q][i]
                 PROVE  /\ InTransaction(q)' /\ Conn(e.frame)' = q /\ Opened(e.frame)'
                        /\ e \in Writes => e.n <= writes[e.frame] /\ ~ Undone(e.frame)'
      BY <1>2 DEF LogSent, Conn, Opened, Undone
    <2>1. i \in 1 .. Len(log[q]) /\ e = log[q][i] /\ (q = r => i <= p)
      BY <1>11
    <2>2. e.frame \in Frames
      BY <2>1, EntryFrame DEF Base
    <2>3. /\ InTransaction(q) /\ Conn(e.frame) = q /\ Opened(e.frame)
          /\ e \in Writes => e.n <= writes[e.frame] /\ ~ Undone(e.frame)
      BY <2>1 DEF Work, LogSent
    <2>4. e \in Writes => g \notin enclosing[e.frame]
      <3>1. CASE q = r
        <4>1. i = p \/ i < p
          BY <1>5, <2>1, <3>1
        <4> QED BY <1>4, <2>1, <3>1, <4>1, EntryKinds
      <3>2. CASE q # r
        BY <1>1, <2>2, <2>3, <3>2 DEF Base, Chains
      <3> QED BY <3>1, <3>2
    <2> QED BY <1>8, <1>9, <2>2, <2>3, <2>4
  <1>13. LogMarked'
    <2> SUFFICES ASSUME NEW h \in Frames, ~ IsRoot(h), HasSavepoint(h), h # g
                 PROVE  (\E b \in 1 .. Len(log[Conn(h)]) : MarkedAt(h, b))'
      BY <1>2, <1>9 DEF LogMarked, IsRoot
    <2>1. PICK b \in 1 .. Len(log[Conn(h)]) : MarkedAt(h, b)
      BY DEF Work, LogMarked
    <2>2. CASE Conn(h) # r
      <3>1. Conn(h)' = Conn(h) /\ log'[Conn(h)] = log[Conn(h)]
        BY <1>7, <1>8, <2>2
      <3>2. MarkedAt(h, b)'
        BY <1>2, <2>1, <3>1 DEF MarkedAt
      <3> QED BY <2>1, <3>1, <3>2
    <2>3. CASE Conn(h) = r
      <3>1. b \in 1 .. Len(log[r]) /\ b \in Nat
        BY <2>1, <2>3
      <3>2. \A i \in 1 .. Len(log[r]) : /\ log[r][i] = SavepointOf(h) <=> i = b
                                        /\ b < i /\ log[r][i] \notin astray => h \in enclosing[log[r][i].frame]
                                        /\ i < b => h \notin enclosing[log[r][i].frame]
        BY <2>1, <2>3 DEF MarkedAt
      <3>3. /\ log[r][b] = SavepointOf(h) /\ log[r][b].frame = h
            /\ log[r][b] \notin astray
        BY <3>1, <3>2, EntryKinds, ZenonT(60) DEF Base, TypeOK
      <3>4. b < p
        <4>1. b # p
          BY <1>4, <3>1, <3>3, EntryKinds
        <4>2. ~ (p < b)
          <5> SUFFICES ASSUME p < b PROVE FALSE
            OBVIOUS
          <5>1. g \in enclosing[h]
            BY <1>4, <3>1, <3>3
          <5> QED BY <1>2, <5>1 DEF Base, Chains, HasSavepoint, Pending
        <4> QED BY <1>5, <3>1, <4>1, <4>2
      <3>5. \A i \in 1 .. Len(log'[r]) : /\ log'[r][i] = SavepointOf(h) <=> i = b
                                         /\ b < i /\ log'[r][i] \notin astray => h \in enclosing[log'[r][i].frame]
                                         /\ i < b => h \notin enclosing[log'[r][i].frame]
        BY <1>11, <3>2
      <3>6. MarkedAt(h, b)'
        BY <1>2, <1>8, <2>3, <3>5 DEF MarkedAt
      <3>7. b \in 1 .. Len(log'[r])
        BY <1>5, <1>7, <3>1, <3>4
      <3> QED BY <1>8, <2>3, <3>6, <3>7
    <2> QED BY <2>2, <2>3
  <1>14. LogComplete'
    <2> SUFFICES ASSUME NEW d \in Frames, InTransaction(Conn(d))', ~ Undone(d)',
                        NEW n \in 1 .. writes[d], WriteOf(d, n) \notin astray
                 PROVE  Holds(log'[Conn(d)], WriteOf(d, n))
      BY <1>2, <1>8 DEF LogComplete, Holds
    <2>1. InTransaction(Conn(d)) /\ ~ Undone(d) /\ g \notin enclosing[d] /\ Conn(d) \in Frames
      BY <1>8, <1>9 DEF InTransaction
    <2>2. log'[Conn(d)] \in Seq(Entries) /\ log[Conn(d)] \in Seq(Entries)
      BY <2>1 DEF Base, TypeOK
    <2>3. Holds(log[Conn(d)], WriteOf(d, n))
      BY <2>1 DEF Work, LogComplete
    <2>4. PICK i \in 1 .. Len(log[Conn(d)]) : log[Conn(d)][i] = WriteOf(d, n)
      BY <2>2, <2>3 DEF Holds
    <2>5. CASE Conn(d) # r
      BY <1>7, <2>1, <2>3, <2>5
    <2>6. CASE Conn(d) = r
      <3>1. log[r][i].frame = d /\ log[r][i] \notin astray /\ i \in 1 .. Len(log[r])
        BY <2>4, <2>6, EntryKinds
      <3>2. i \in 1 .. p
        BY <1>4, <1>5, <2>1, <3>1
      <3>3. i \in 1 .. Len(log'[r]) /\ log'[r][i] = WriteOf(d, n)
        BY <1>7, <2>4, <2>6, <3>2
      <3> QED BY <2>2, <2>6, <3>3 DEF Holds
    <2> QED BY <2>5, <2>6
  <1>15. Fates'
    <2>1. \A w \in durable : w.frame \in Frames
      BY DEF Base, TypeOK, Writes, WriteOf
    <2> QED BY <1>2, <1>9, <2>1 DEF Work, Fates, DurableMeansKept, KeptMeansDurable
  <1> QED BY <1>10, <1>12, <1>13, <1>14, <1>15 DEF Work

(* Nobody is open on a connection whose root awaits no call any more. *)
LEMMA NoneOpenUnder ==
    ASSUME TypeOK, Structure, Nesting, NEW r \in Frames, CallsSettled(r),
           NEW x \in Frames, Pending(x), x # r
    PROVE  r \notin enclosing[x]
  <1> SUFFICES ASSUME r \in enclosing[x] PROVE FALSE
    OBVIOUS
  <1> DEFINE T == {y \in Frames : Pending(y) /\ site[y] \in Gates /\ ContextAt(site[y]) = r}
  <1>1. PICK y \in enclosing[x] : ~ IsRoot(y) /\ owner[y] = r
    BY NextInChain
  <1>2. y \in T
    BY <1>1, AllAroundRun DEF Pending, TypeOK, Structure, ChainOK
  <1>3. PICK z \in T : caller[z] \notin T
    BY <1>2 DEF Nesting, WellFounded
  <1>4. caller[z] # r
    BY <1>3 DEF CallsSettled, Settled, Pending
  <1>5. PICK b \in Frames : b = caller[z]
    BY <1>3, FramesAssumption DEF Nesting, IdleUncalled, NoGate, Gates
  <1>6. UserCodeIn(b) /\ site[z] = SiteOf(b) /\ ContextAt(site[z]) = r
    BY <1>3, <1>5 DEF Nesting, Awaited
  <1>7. CASE phase[b] # "compensating"
    BY <1>4, <1>5, <1>6, <1>7 DEF SiteOf, ContextAt
  <1>8. CASE phase[b] = "compensating" /\ ~ IsRoot(b)
    <2>1. owner[b] = r /\ site[b] \in Gates /\ owner[b] = ContextAt(site[b])
      BY <1>6, <1>8 DEF SiteOf, ContextAt, Structure, ChainOK
    <2> QED BY <1>3, <1>5, <1>8, <2>1 DEF Pending
  <1>9. CASE phase[b] = "compensating" /\ IsRoot(b)
    BY <1>3, <1>5, <1>6, <1>9 DEF SiteOf, Pending
  <1> QED BY <1>7, <1>8, <1>9

(* The end of a root's transaction, either way: its log is gone. *)
LEMMA WorkCleared ==
    ASSUME Base, Base', Work, NEW r \in Frames, IsRoot(r), InTransaction(r),
           NEW q \in {"resolved", "compensating"}, phase' = [phase EXCEPT ![r] = q],
           log' = [log EXCEPT ![r] = <<>>],
           UNCHANGED <<owner, enclosing, writes, astray>>,
           \A h \in Frames : ~ IsRoot(h) /\ HasSavepoint(h) => r \notin enclosing[h]
    PROVE  Unopened' /\ LogSent' /\ LogMarked' /\ LogComplete'
  <1>1. \A d \in Frames : Conn(d)' = Conn(d) /\ Conn(d) \in Frames /\ Conn(d) \in enclosing[d]
    BY ConnKept DEF Base, Chains, TypeOK
  <1>2. Len(log'[r]) = 0 /\ \A d \in Frames : d # r => log'[d] = log[d]
    BY DEF Base, TypeOK
  <1>3. \A d \in Frames : /\ Opened(d)' <=> Opened(d)
                          /\ HasSavepoint(d)' => HasSavepoint(d)
                          /\ InTransaction(d)' <=> InTransaction(d) /\ d # r
                          /\ Undone(d) => Undone(d)'
                          /\ Undone(d)' => Undone(d) \/ r \in enclosing[d]
    BY DEF Opened, HasSavepoint, InTransaction, Undone, Base, TypeOK
  <1>4. Unopened'
    BY <1>3 DEF Work, Unopened, Base, TypeOK
  <1>5. LogSent'
    <2> SUFFICES ASSUME NEW d \in Frames, NEW i \in 1 .. Len(log'[d]), NEW e, e = log'[d][i]
                 PROVE  /\ InTransaction(d)' /\ Conn(e.frame)' = d /\ Opened(e.frame)'
                        /\ e \in Writes => e.n <= writes[e.frame] /\ ~ Undone(e.frame)'
      BY DEF LogSent, Conn, Opened, Undone
    <2>1. d # r /\ i \in 1 .. Len(log[d]) /\ e = log[d][i]
      BY <1>2
    <2>2. e.frame \in Frames
      BY <2>1, EntryFrame DEF Base
    <2>3. /\ InTransaction(d) /\ Conn(e.frame) = d /\ Opened(e.frame)
          /\ e \in Writes => e.n <= writes[e.frame] /\ ~ Undone(e.frame)
      BY <2>1 DEF Work, LogSent
    <2>4. r \notin enclosing[e.frame]
      BY <2>1, <2>2, <2>3 DEF Base, Chains
    <2> QED BY <1>1, <1>3, <2>1, <2>2, <2>3, <2>4
  <1>6. LogMarked'
    <2> SUFFICES ASSUME NEW h \in Frames, ~ IsRoot(h), HasSavepoint(h)
                 PROVE  (\E p \in 1 .. Len(log[Conn(h)]) : MarkedAt(h, p))'
      BY <1>3 DEF LogMarked, IsRoot
    <2>1. PICK p \in 1 .. Len(log[Conn(h)]) : MarkedAt(h, p)
      BY DEF Work, LogMarked
    <2>2. Conn(h)' = Conn(h) /\ log'[Conn(h)] = log[Conn(h)]
      BY <1>1, <1>2
    <2>3. MarkedAt(h, p)'
      BY <2>1, <2>2 DEF MarkedAt
    <2> QED BY <2>1, <2>2, <2>3
  <1>7. LogComplete'
    <2> SUFFICES ASSUME NEW d \in Frames, InTransaction(Conn(d))', ~ Undone(d)',
                        NEW n \in 1 .. writes[d], WriteOf(d, n) \notin astray
                 PROVE  Holds(log'[Conn(d)], WriteOf(d, n))
      BY <1>1 DEF LogComplete, Holds
    <2>1. InTransaction(Conn(d)) /\ Conn(d) # r /\ ~ Undone(d)
      BY <1>1, <1>3 DEF InTransaction
    <2> QED BY <1>1, <1>2, <2>1 DEF Work, LogComplete
  <1> QED BY <1>4, <1>5, <1>6, <1>7

(* ROLLBACK: every frame on the connection is undone with its root. *)
LEMMA WorkRolledBack ==
    ASSUME Base, Base', Work, NEW r \in Frames, Rollback(r)
    PROVE  Work'
  <1>1. /\ phase[r] = "unwinding" /\ IsRoot(r)
        /\ phase' = [phase EXCEPT ![r] = "compensating"]
        /\ log' = [log EXCEPT ![r] = <<>>]
        /\ UNCHANGED <<owner, enclosing, writes, durable, astray>>
    BY DEF Rollback
  <1>2. \A h \in Frames : ~ IsRoot(h) /\ HasSavepoint(h) => r \notin enclosing[h]
    BY <1>1 DEF Base, Chains, HasSavepoint, Pending
  <1>3. Unopened' /\ LogSent' /\ LogMarked' /\ LogComplete'
    BY <1>1, <1>2, WorkCleared DEF InTransaction
  <1>4. \A d \in Frames : Kept(d)' <=> Kept(d)
    BY <1>1 DEF Kept, Base, TypeOK
  <1>5. Fates'
    <2>1. \A w \in durable : w.frame \in Frames
      BY DEF Base, TypeOK, Writes, WriteOf
    <2> QED BY <1>1, <1>4, <2>1 DEF Work, Fates, DurableMeansKept, KeptMeansDurable
  <1> QED BY <1>3, <1>5 DEF Work

(* COMMIT: what the log holds was written by frames that have resolved, and  *)
(* it holds all they wrote.                                                  *)
LEMMA WorkCommitted ==
    ASSUME Base, Base', Work, NEW r \in Frames, Commit(r)
    PROVE  Work'
  <1>1. /\ phase[r] = "finishing" /\ IsRoot(r) /\ CallsSettled(r)
        /\ phase' = [phase EXCEPT ![r] = "resolved"]
        /\ log' = [log EXCEPT ![r] = <<>>]
        /\ durable' = durable \cup WritesIn(log[r])
        /\ UNCHANGED <<owner, enclosing, writes, astray>>
    BY DEF Commit, Base, Structure, RootPhases
  <1>2. \A x \in Frames : Pending(x) /\ x # r => r \notin enclosing[x]
    BY <1>1, NoneOpenUnder DEF Base
  <1>3. Unopened' /\ LogSent' /\ LogMarked' /\ LogComplete'
    <2>1. \A h \in Frames : ~ IsRoot(h) /\ HasSavepoint(h) => r \notin enclosing[h]
      BY <1>1, <1>2 DEF HasSavepoint, Pending
    <2> QED BY <1>1, <2>1, WorkCleared DEF InTransaction
  <1>4. \A d \in Frames : /\ Kept(d) => Kept(d)'
                          /\ Kept(d)' /\ r \notin enclosing[d] => Kept(d)
    BY <1>1 DEF Kept, Base, TypeOK
  <1>5. log[r] \in Seq(Entries)
    BY DEF Base, TypeOK
  <1>6. DurableMeansKept'
    <2> SUFFICES ASSUME NEW w \in durable' PROVE Kept(w.frame)'
      BY DEF DurableMeansKept, Kept
    <2>1. CASE w \in durable
      <3>1. w.frame \in Frames
        BY <2>1 DEF Base, TypeOK, Writes, WriteOf
      <3> QED BY <1>4, <2>1, <3>1 DEF Work, Fates, DurableMeansKept, KeptMeansDurable
    <2>2. CASE w \in WritesIn(log[r])
      <3>1. PICK i \in 1 .. Len(log[r]) : w = log[r][i] /\ w \in Writes
        BY <1>5, <2>2 DEF WritesIn
      <3>2. PICK c \in Frames : c = w.frame
        BY <3>1 DEF Writes, WriteOf
      <3>3. Conn(c) = r /\ Opened(c) /\ ~ Undone(c)
        BY <3>1, <3>2 DEF Work, LogSent
      <3>4. ASSUME NEW e \in enclosing[c] PROVE phase'[e] = "resolved"
        <4>1. e \in Frames /\ r \in enclosing[e] /\ Opened(e)
          BY <3>3, ZenonT(60) DEF Base, Chains, TypeOK, Work, Unopened
        <4>2. e # r => ~ Pending(e)
          BY <1>2, <4>1
        <4>3. e # r => phase[e] = "resolved"
          BY <3>3, <4>1, <4>2 DEF Pending, Opened, Undone
        <4> QED BY <1>1, <4>1, <4>3 DEF Base, TypeOK
      <3> QED BY <1>1, <3>2, <3>4 DEF Kept
    <2> QED BY <1>1, <2>1, <2>2
  <1>7. ASSUME NEW c \in Frames, Kept(c)', NEW n \in 1 .. writes[c], WriteOf(c, n) \notin astray
        PROVE  WriteOf(c, n) \in durable'
    <2>1. CASE r \notin enclosing[c]
      BY <1>1, <1>4, <1>7, <2>1 DEF Work, Fates, KeptMeansDurable
    <2>2. CASE r \in enclosing[c]
      <3>1. Conn(c) = r
        BY <1>1, <2>2 DEF Base, Chains
      <3>2. \A e \in enclosing[c] : e = r \/ phase[e] = "resolved"
        BY <1>1, <1>7 DEF Kept, Base, TypeOK
      <3>3. ~ Undone(c) /\ InTransaction(r)
        BY <1>1, <3>2 DEF Undone, InTransaction
      <3>4. Holds(log[r], WriteOf(c, n))
        BY <1>7, <3>1, <3>3 DEF Work, LogComplete
      <3>5. WriteOf(c, n) \in Writes
        <4>1. writes[c] \in 0 .. MaxWrites
          BY DEF Base, TypeOK
        <4>2. n \in 1 .. MaxWrites
          BY <4>1, FramesAssumption
        <4> QED BY <4>2 DEF Writes
      <3> QED BY <1>1, <3>4, <3>5 DEF Holds, WritesIn
    <2> QED BY <2>1, <2>2
  <1>8. Fates'
    <2>1. \A c \in Frames : Kept(c)' =>
            \A n \in 1 .. writes'[c] : WriteOf(c, n) \in durable' \cup astray'
      BY <1>1, <1>7
    <2> QED BY <1>6, <2>1 DEF Fates, KeptMeansDurable, Kept
  <1> QED BY <1>3, <1>8 DEF Work

LEMMA WorkInitially == Init => Work
  <1> SUFFICES ASSUME Init PROVE Work
    OBVIOUS
  <1>1. Unopened /\ LogSent /\ LogComplete
    BY DEF Init, Unopened, LogSent, LogComplete, Opened
  <1>2. LogMarked
    BY DEF Init, LogMarked, HasSavepoint
  <1>3. Fates
    BY DEF Init, Fates, DurableMeansKept, KeptMeansDurable
  <1> QED BY <1>1, <1>2, <1>3 DEF Work

LEMMA WorkStep == Base /\ Base' /\ Work /\ [Next]_vars => Work'
  <1> SUFFICES ASSUME Base, Base', Work, [Next]_vars PROVE Work'
    OBVIOUS
  <1>1. CASE UNCHANGED vars
    <2>1. UNCHANGED <<phase, owner, enclosing, log, writes, durable, astray>>
      BY <1>1 DEF vars, control, data
    <2> QED BY <2>1, WorkFrame DEF Opened, HasSavepoint, InTransaction, Undone, Kept
  <1>2. CASE Begin
    BY <1>2, WorkBegun, FramesAssumption DEF Begin, data
  <1>3. ASSUME NEW f \in Frames, NEW g \in Frames, CallNested(f, g) PROVE Work'
    BY <1>3, WorkQueued
  <1>4. ASSUME NEW f \in Frames, NEW g \in Frames, CallRequiresNew(f, g) PROVE Work'
    BY <1>4, WorkBegun DEF CallRequiresNew, data
  <1>5. ASSUME NEW f \in Frames, Open(f) PROVE Work'
    BY <1>5, WorkOpened
  <1>6. ASSUME NEW f \in Frames, RollbackTo(f) PROVE Work'
    BY <1>6, WorkCut
  <1>7. ASSUME NEW f \in Frames, Commit(f) PROVE Work'
    BY <1>7, WorkCommitted
  <1>8. ASSUME NEW f \in Frames, Rollback(f) PROVE Work'
    BY <1>8, WorkRolledBack
  <1>9. ASSUME NEW f \in Frames, Write(f) PROVE Work'
    BY <1>9, WorkWritten
  <1>10. ASSUME NEW f \in Frames,
                \/ Resolve(f) \/ Reject(f) \/ OpenFails(f) \/ SettleRejected(f)
                \/ Finish(f) \/ FinishFails(f)
                \/ StatementFails(f) \/ BeforeCommitEnds(f) \/ AfterRollbackEnds(f)
                \/ \E k \in HookKinds : Register(f, k)
         PROVE  Work'
    BY <1>10, WorkQuiet
  <1> QED BY <1>1, <1>2, <1>3, <1>4, <1>5, <1>6, <1>7, <1>8, <1>9, <1>10
          DEF Next, Step, Terminated

(* A call that failed stays failed, and was made in the same frame. *)
LEMMA FailedStays ==
    ASSUME TypeOK, Structure, [Next]_vars, NEW r \in Frames, NEW c \in Frames,
           IsRoot(r), ContextAt(site[r]) = c, phase[r] \in {"compensating", "rejected"}
    PROVE  (IsRoot(r) /\ ContextAt(site[r]) = c /\ phase[r] \in {"compensating", "rejected"})'
  <1>1. site[r] \in Gates /\ Called(site[r])
    <2>1. site[r] # NoGate
      BY FramesAssumption DEF NoGate, ContextAt
    <2> QED BY <2>1 DEF TypeOK, Structure, ChainOK
  <1>2. PICK q \in Gates : q = site[r]
    BY <1>1
  <1>3. SUFFICES /\ \A d \in Frames : phase[d] # "idle" =>
                       phase'[d] # "idle" /\ owner'[d] = owner[d]
                 /\ site'[r] = site[r] /\ phase'[r] \in {"compensating", "rejected"}
    <2>1. Called(q)' /\ ContextAt(q)' = ContextAt(q)
      BY <1>1, <1>2, <1>3, CalledKept DEF Structure
    <2>2. (ContextAt(site[r]) = c)'
      BY <1>2, <1>3, <2>1 DEF ContextAt
    <2> QED BY <1>3, <2>2 DEF IsRoot
  <1>4. CASE Begin
    BY <1>4 DEF Begin, TypeOK
  <1>5. ASSUME NEW f \in Frames, NEW g \in Frames, CallNested(f, g) \/ CallRequiresNew(f, g)
        PROVE  /\ \A d \in Frames : phase[d] # "idle" =>
                       phase'[d] # "idle" /\ owner'[d] = owner[d]
               /\ site'[r] = site[r] /\ phase'[r] \in {"compensating", "rejected"}
    BY <1>5 DEF CallNested, CallRequiresNew, TypeOK
  <1>6. ASSUME NEW f \in Frames,
               \/ Open(f) \/ OpenFails(f) \/ Resolve(f) \/ Reject(f)
               \/ RollbackTo(f) \/ SettleRejected(f)
               \/ Finish(f) \/ Commit(f) \/ FinishFails(f) \/ Rollback(f)
               \/ Write(f) \/ StatementFails(f)
               \/ BeforeCommitEnds(f) \/ AfterRollbackEnds(f)
               \/ \E k \in HookKinds : Register(f, k)
        PROVE  /\ \A d \in Frames : phase[d] # "idle" =>
                       phase'[d] # "idle" /\ owner'[d] = owner[d]
               /\ site'[r] = site[r] /\ phase'[r] \in {"compensating", "rejected"}
    <2>1. /\ UNCHANGED <<caller, site, owner, enclosing>>
          /\ \A d \in Frames : phase'[d] = "idle" <=> phase[d] = "idle"
      BY <1>6, NotACall
    <2>2. phase'[r] \in {"compensating", "rejected"}
      <3>1. CASE Open(f) \/ OpenFails(f) \/ Resolve(f) \/ Reject(f)
        BY <3>1 DEF Open, OpenFails, Resolve, Reject, TypeOK
      <3>2. CASE RollbackTo(f) \/ SettleRejected(f) \/ Finish(f)
        BY <3>2 DEF RollbackTo, SettleRejected, Finish, TypeOK
      <3>3. CASE Commit(f) \/ FinishFails(f) \/ Rollback(f)
        BY <3>3 DEF Commit, FinishFails, Rollback, TypeOK
      <3>4. CASE \/ Write(f) \/ StatementFails(f)
                 \/ BeforeCommitEnds(f) \/ AfterRollbackEnds(f)
                 \/ \E k \in HookKinds : Register(f, k)
        BY <3>4 DEF Write, StatementFails, BeforeCommitEnds, AfterRollbackEnds, Register, control
      <3> QED BY <1>6, <3>1, <3>2, <3>3, <3>4
    <2> QED BY <2>1, <2>2
  <1>7. CASE Terminated \/ UNCHANGED vars
    BY <1>7 DEF Terminated, vars, control
  <1> QED BY <1>4, <1>5, <1>6, <1>7 DEF Next, Step

(* Only a write goes astray. *)
LEMMA AstrayKept ==
    ASSUME [Next]_vars, \A f \in Frames : ~ Write(f)
    PROVE  astray' = astray
  <1>1. CASE Begin
    BY <1>1 DEF Begin, data
  <1>2. ASSUME NEW f \in Frames, NEW g \in Frames, CallNested(f, g) \/ CallRequiresNew(f, g)
        PROVE  astray' = astray
    BY <1>2 DEF CallNested, CallRequiresNew, data
  <1>3. ASSUME NEW f \in Frames,
               \/ Open(f) \/ OpenFails(f) \/ Resolve(f) \/ Reject(f)
               \/ RollbackTo(f) \/ SettleRejected(f)
               \/ Finish(f) \/ Commit(f) \/ FinishFails(f) \/ Rollback(f)
               \/ StatementFails(f) \/ BeforeCommitEnds(f) \/ AfterRollbackEnds(f)
               \/ \E k \in HookKinds : Register(f, k)
        PROVE  astray' = astray
    BY <1>3 DEF Open, OpenFails, Resolve, Reject, RollbackTo, SettleRejected, Finish, Commit,
                FinishFails, Rollback, StatementFails, BeforeCommitEnds, AfterRollbackEnds,
                Register, data
  <1>4. CASE Terminated \/ UNCHANGED vars
    BY <1>4 DEF Terminated, vars, data
  <1> QED BY <1>1, <1>2, <1>3, <1>4 DEF Next, Step

(* And a write does only in the frame a root's compensation runs in.         *)
LEMMA AstrayStep == Base /\ AstrayOnlyByNewRoot /\ [Next]_vars => AstrayOnlyByNewRoot'
  <1> SUFFICES ASSUME Base, AstrayOnlyByNewRoot, [Next]_vars, NEW w \in astray'
               PROVE  \E r \in NewRoots \ {Top} :
                         (/\ IsRoot(r) /\ ContextAt(site[r]) = w.frame
                          /\ phase[r] \in {"compensating", "rejected"})'
    BY DEF AstrayOnlyByNewRoot
  <1> USE DEF Base
  <1>1. SUFFICES \E r \in NewRoots \ {Top} : /\ IsRoot(r) /\ ContextAt(site[r]) = w.frame
                                               /\ phase[r] \in {"compensating", "rejected"}
                                               /\ w.frame \in Frames
    BY <1>1, FailedStays, BoundsAssumption
  <1>2. CASE w \in astray
    <2>1. w.frame \in Frames
      BY <1>2 DEF TypeOK, Writes, WriteOf
    <2> QED BY <1>2, <2>1 DEF AstrayOnlyByNewRoot
  <1>3. CASE w \notin astray
    <2>1. PICK f \in Frames : Write(f)
      BY <1>3, AstrayKept
    <2>2. PICK c \in Frames :
            /\ ActsIn(f, c) /\ NoNestedPending(f)
            /\ astray' = IF Covered(c) THEN astray \cup {WriteOf(c, writes[c] + 1)} ELSE astray
      BY <2>1 DEF Write
    <2>3. Covered(c) /\ w = WriteOf(c, writes[c] + 1)
      BY <1>3, <2>2
    <2>4. w.frame = c
      BY <2>3, EntryKinds
    <2>5. PICK h \in Frames : HasSavepoint(h) /\ Conn(h) = Conn(c) /\ h \notin enclosing[c]
      BY <2>3 DEF Covered
    <2>6. PICK r \in Frames : Trespasser(r, c)
      BY <2>2, <2>5, WriterDeepest
    <2>7. r \in NewRoots \ {Top}
      BY <2>6 DEF Trespasser, Nesting, IdleUncalled
    <2> QED BY <2>4, <2>6, <2>7 DEF Trespasser
  <1> QED BY <1>2, <1>3

LEMMA WorkAlways ==
    ASSUME ~ FailFast
    PROVE  Spec => [](Base /\ Work /\ AstrayOnlyByNewRoot)
  <1>1. TypeOK /\ Structure /\ Nesting => Base
    BY ChainsHold DEF Base
  <1>2. Init => AstrayOnlyByNewRoot
    BY DEF Init, AstrayOnlyByNewRoot
  <1> QED BY <1>1, <1>2, WorkInitially, WorkStep, AstrayStep, NestingAlways, PTL DEF Spec

(* Once a root has committed, what is durable is what the frames that        *)
(* resolved with everything around them wrote, all of it and nothing else    *)
(* (runner.ts, promoteFrameHooks: "a savepoint that resolved is only as      *)
(* durable as its parent"), as long as user code awaits the calls it makes.  *)
(* Only a write behind the SAVEPOINT of a frame it was not made in may be    *)
(* lost, and there is one only in the frame that a failed call with          *)
(* requiresNew was made in, where its afterRollback pass runs.               *)
THEOREM WorkAlwaysFollowsFrames ==
    ASSUME ~ FailFast
    PROVE  Spec => []WorkFollowsFrames
  <1>1. Work /\ AstrayOnlyByNewRoot => WorkFollowsFrames
    BY DEF Work, Fates, WorkFollowsFrames
  <1> QED BY <1>1, WorkAlways, PTL

-----------------------------------------------------------------------------
(* The hook queues *)

Elems(s) == {s[i] : i \in 1 .. Len(s)}
Once(s)  == \A i, j \in 1 .. Len(s) : s[i] = s[j] => i = j

HooksAt(e, k) == Elems(hooks[e][k])

(* h was registered, for k, and every frame around it inside e has resolved: *)
(* its fate is the fate of e.                                                *)
Entrusted(h, k, e) ==
    /\ h[2] \in DOMAIN hooked[h[1]] /\ hooked[h[1]][h[2]] = k
    /\ e \in enclosing[h[1]]
    /\ \A d \in enclosing[h[1]] : d \in enclosing[e] \/ phase[d] = "resolved"

(* A hook stands at most once in the queues. *)
HooksOnce ==
    /\ \A e \in Frames : \A k \in Kinds : Once(hooks[e][k])
    /\ \A e, d \in Frames : \A k \in Kinds : e # d => HooksAt(e, k) \cap HooksAt(d, k) = {}

(* It stands in the queue of the frame it is entrusted to, which is open or  *)
(* compensates, and has not run, unless it is a beforeCommit hook of a root  *)
(* that runs them.                                                           *)
HooksEntrusted ==
    \A e \in Frames : \A k \in Kinds : \A h \in HooksAt(e, k) :
        /\ Entrusted(h, k, e)
        /\ HasSavepoint(e) \/ (phase[e] = "compensating" /\ k = "afterRollback")
        /\ k # "beforeCommit" \/ phase[e] = "running" => ran[h] = 0

(* The beforeCommit callbacks a root has left to run, it has not run. *)
HooksSnapshot ==
    \A r \in Frames :
        /\ Once(snapshot[r])
        /\ \A h \in Elems(snapshot[r]) : /\ Entrusted(h, "beforeCommit", r)
                                        /\ phase[r] = "finishing"
                                        /\ ran[h] = 0

(* What became of hook n of context c, of kind k. *)
Spent(c, n, k) ==
    \/ k = "afterCommit" /\ Kept(c) /\ ran[<<c, n>>] = 1
    \/ k = "afterCommit" /\ Undone(c) /\ ran[<<c, n>>] = 0
    \/ k = "afterRollback" /\ Kept(c) /\ ran[<<c, n>>] = 0
    \/ k = "afterRollback" /\ Undone(c) /\ ran[<<c, n>>] = 1
    \/ k = "beforeCommit" /\ ran[<<c, n>>] = 0
    \/ /\ k = "beforeCommit" /\ ran[<<c, n>>] = 1
       /\ \A e \in enclosing[c] : IsRoot(e) \/ phase[e] = "resolved"

HooksSpent ==
    \A c \in Frames : \A n \in DOMAIN hooked[c] :
        LET k == hooked[c][n] IN
        \/ k # "beforeCommit" /\ \E e \in Frames : <<c, n>> \in HooksAt(e, k)
        \/ Spent(c, n, k)

(* Hooks are registered in frames that have opened. *)
HooksLater ==
    \A c \in Frames :
        /\ ~ Opened(c) => hooked[c] = <<>>
        /\ DOMAIN hooked[c] \subseteq 1 .. MaxHooks
        /\ \A n \in 1 .. MaxHooks : n \notin DOMAIN hooked[c] => ran[<<c, n>>] = 0

HookWork == HooksOnce /\ HooksEntrusted /\ HooksSnapshot /\ HooksSpent /\ HooksLater

(* What sequences hold. *)
LEMMA ElemsEmpty == Elems(<<>>) = {} /\ Once(<<>>)
  BY DEF Elems, Once

LEMMA ElemsAppend ==
    ASSUME NEW S, NEW s \in Seq(S), NEW e \in S
    PROVE  /\ Elems(Append(s, e)) = Elems(s) \cup {e}
           /\ Once(s) /\ e \notin Elems(s) => Once(Append(s, e))
  <1>1. PICK n \in Nat : n = Len(s)
    OBVIOUS
  <1>2. PICK t \in Seq(S) : t = Append(s, e)
    BY AppendProperties
  <1>3. Len(t) = n + 1 /\ t[n + 1] = e /\ \A i \in 1 .. n : t[i] = s[i]
    BY <1>1, <1>2
  <1>4. Elems(t) = Elems(s) \cup {e}
    <2>1. \A x \in Elems(t) : x \in Elems(s) \cup {e}
      BY <1>1, <1>3 DEF Elems
    <2>2. \A x \in Elems(s) : x \in Elems(t)
      BY <1>1, <1>3 DEF Elems
    <2>3. e \in Elems(t)
      BY <1>3 DEF Elems
    <2> QED BY <2>1, <2>2, <2>3
  <1>5. Once(s) /\ e \notin Elems(s) => Once(t)
    BY <1>1, <1>3 DEF Elems, Once
  <1> QED BY <1>2, <1>4, <1>5

LEMMA ElemsConcat ==
    ASSUME NEW S, NEW s \in Seq(S), NEW t \in Seq(S)
    PROVE  /\ Elems(s \o t) = Elems(s) \cup Elems(t)
           /\ Once(s) /\ Once(t) /\ Elems(s) \cap Elems(t) = {} => Once(s \o t)
  <1>1. PICK n \in Nat : n = Len(s)
    OBVIOUS
  <1>2. PICK m \in Nat : m = Len(t)
    OBVIOUS
  <1>3. PICK u \in Seq(S) : u = s \o t
    BY ConcatProperties
  <1>4. /\ Len(u) = n + m
        /\ \A i \in 1 .. n : u[i] = s[i]
        /\ \A i \in 1 .. m : u[n + i] = t[i]
    BY <1>1, <1>2, <1>3
  <1>5. \A i \in 1 .. Len(u) : i \in 1 .. n \/ (i - n \in 1 .. m /\ u[i] = t[i - n])
    <2> SUFFICES ASSUME NEW i \in 1 .. Len(u), i \notin 1 .. n
                 PROVE  i - n \in 1 .. m /\ u[i] = t[i - n]
      OBVIOUS
    <2>1. i - n \in 1 .. m /\ n + (i - n) = i
      BY <1>4
    <2> QED BY <1>4, <2>1
  <1>6. Elems(u) = Elems(s) \cup Elems(t)
    <2>1. \A x \in Elems(u) : x \in Elems(s) \cup Elems(t)
      BY <1>1, <1>2, <1>4, <1>5 DEF Elems
    <2>2. \A x \in Elems(s) : x \in Elems(u)
      BY <1>1, <1>4 DEF Elems
    <2>3. \A x \in Elems(t) : x \in Elems(u)
      BY <1>2, <1>4 DEF Elems
    <2> QED BY <2>1, <2>2, <2>3
  <1>7. Once(s) /\ Once(t) /\ Elems(s) \cap Elems(t) = {} => Once(u)
    <2> SUFFICES ASSUME Once(s), Once(t), Elems(s) \cap Elems(t) = {},
                        NEW i \in 1 .. Len(u), NEW j \in 1 .. Len(u), u[i] = u[j]
                 PROVE  i = j
      BY DEF Once
    <2>1. CASE i \in 1 .. n /\ j \in 1 .. n
      BY <1>1, <1>4, <2>1 DEF Once
    <2>2. CASE i \notin 1 .. n /\ j \notin 1 .. n
      <3>1. i - n \in 1 .. m /\ j - n \in 1 .. m /\ t[i - n] = t[j - n]
        BY <1>5, <2>2
      <3>2. i - n = j - n
        BY <1>2, <3>1 DEF Once
      <3> QED BY <1>1, <3>2
    <2>3. CASE i \in 1 .. n /\ j \notin 1 .. n
      <3>1. u[i] \in Elems(s) /\ u[j] \in Elems(t)
        BY <1>1, <1>2, <1>4, <1>5, <2>3 DEF Elems
      <3> QED BY <3>1
    <2>4. CASE i \notin 1 .. n /\ j \in 1 .. n
      <3>1. u[j] \in Elems(s) /\ u[i] \in Elems(t)
        BY <1>1, <1>2, <1>4, <1>5, <2>4 DEF Elems
      <3> QED BY <3>1
    <2> QED BY <2>1, <2>2, <2>3, <2>4
  <1> QED BY <1>3, <1>6, <1>7

LEMMA ElemsTail ==
    ASSUME NEW S, NEW s \in Seq(S), s # <<>>, Once(s)
    PROVE  /\ Head(s) \in Elems(s) /\ Head(s) \in S
           /\ Elems(Tail(s)) = Elems(s) \ {Head(s)}
           /\ Once(Tail(s))
  <1>1. PICK n \in Nat : n = Len(s) /\ n >= 1
    OBVIOUS
  <1>2. PICK t \in Seq(S) : t = Tail(s)
    BY HeadTailProperties
  <1>3. Len(t) = n - 1 /\ \A i \in 1 .. n - 1 : t[i] = s[i + 1]
    BY <1>1, <1>2
  <1>4. Head(s) = s[1] /\ 1 \in 1 .. n
    BY <1>1
  <1>5. Head(s) \in Elems(s) /\ Head(s) \in S
    BY <1>1, <1>4 DEF Elems
  <1>6. Elems(t) = Elems(s) \ {Head(s)}
    <2>1. ASSUME NEW x \in Elems(t) PROVE x \in Elems(s) /\ x # Head(s)
      <3>1. PICK i \in 1 .. n - 1 : x = t[i]
        BY <1>3, <2>1 DEF Elems
      <3>2. x = s[i + 1] /\ i + 1 \in 1 .. n /\ i + 1 # 1
        BY <1>1, <1>3, <3>1
      <3> QED BY <1>1, <1>4, <3>2 DEF Elems, Once
    <2>2. ASSUME NEW x \in Elems(s), x # Head(s) PROVE x \in Elems(t)
      <3>1. PICK i \in 1 .. n : x = s[i]
        BY <1>1, <2>2 DEF Elems
      <3>2. i # 1
        BY <1>4, <2>2, <3>1
      <3>3. i - 1 \in 1 .. n - 1 /\ (i - 1) + 1 = i
        BY <3>1, <3>2
      <3>4. t[i - 1] = x
        BY <1>3, <3>1, <3>3
      <3> QED BY <1>3, <3>3, <3>4 DEF Elems
    <2> QED BY <2>1, <2>2
  <1>7. Once(t)
    <2> SUFFICES ASSUME NEW i \in 1 .. n - 1, NEW j \in 1 .. n - 1, t[i] = t[j]
                 PROVE  i = j
      BY <1>3 DEF Once
    <2>1. i + 1 \in 1 .. n /\ j + 1 \in 1 .. n /\ s[i + 1] = s[j + 1]
      BY <1>1, <1>3
    <2>2. i + 1 = j + 1
      BY <1>1, <2>1 DEF Once
    <2> QED BY <2>2
  <1> QED BY <1>2, <1>5, <1>6, <1>7

LEMMA OccurrencesOnce ==
    ASSUME NEW S, NEW s \in Seq(S), Once(s), NEW h
    PROVE  Occurrences(s, h) = IF h \in Elems(s) THEN 1 ELSE 0
  <1>1. DOMAIN s = 1 .. Len(s)
    OBVIOUS
  <1>2. CASE h \in Elems(s)
    <2>1. PICK i \in 1 .. Len(s) : s[i] = h
      BY <1>2 DEF Elems
    <2>2. {j \in DOMAIN s : s[j] = h} = {i}
      BY <1>1, <2>1 DEF Once
    <2> QED BY <1>2, <2>2, FS_Singleton DEF Occurrences
  <1>3. CASE h \notin Elems(s)
    <2>1. {j \in DOMAIN s : s[j] = h} = {}
      BY <1>1, <1>3 DEF Elems
    <2> QED BY <1>3, <2>1, FS_EmptySet DEF Occurrences
  <1> QED BY <1>2, <1>3
-----------------------------------------------------------------------------
(* The hooks share the fate of their frames *)

LEMMA HookType ==
    ASSUME TypeOK, NEW e \in Frames, NEW k \in Kinds, NEW h \in HooksAt(e, k)
    PROVE  /\ h \in Hooks /\ h[1] \in Frames /\ h[2] \in 1 .. MaxHooks
           /\ h = <<h[1], h[2]>>
  <1>1. h \in Hooks
    BY DEF TypeOK, HooksAt, Elems
  <1> QED BY <1>1 DEF Hooks

LEMMA SnapshotType ==
    ASSUME TypeOK, NEW r \in Frames, NEW h \in Elems(snapshot[r])
    PROVE  /\ h \in Hooks /\ h[1] \in Frames /\ h[2] \in 1 .. MaxHooks
           /\ h = <<h[1], h[2]>>
  <1>1. h \in Hooks
    BY DEF TypeOK, Elems
  <1> QED BY <1>1 DEF Hooks

(* A queue that holds a hook is that of a frame that has not settled, and    *)
(* every frame around it runs.                                               *)
LEMMA HolderPends ==
    ASSUME Base, HooksEntrusted, NEW e \in Frames, NEW k \in Kinds, NEW h \in HooksAt(e, k)
    PROVE  /\ Pending(e) /\ Opened(e) /\ ~ Kept(h[1])
           /\ h[1] \in Frames /\ e \in enclosing[h[1]]
           /\ \A d \in enclosing[e] : d = e \/ phase[d] \in {"running", "finishing"}
  <1>1. /\ HasSavepoint(e) \/ phase[e] = "compensating"
        /\ e \in enclosing[h[1]] /\ h[1] \in Frames
    BY HookType DEF HooksEntrusted, Entrusted, Base
  <1>2. Pending(e) /\ Opened(e) /\ phase[e] # "resolved"
    BY <1>1 DEF HasSavepoint, Pending, Opened
  <1> QED BY <1>1, <1>2 DEF Kept, Base, Chains

(* What the queues hold decides how often each hook has run. *)
LEMMA HooksFollow == Base /\ HookWork => HooksFollowWork
  <1> SUFFICES ASSUME Base, HookWork, NEW c \in Frames, NEW n \in DOMAIN hooked[c],
                      NEW k, k = hooked[c][n], NEW t, t = ran[<<c, n>>]
               PROVE  /\ k \in Kinds
                      /\ k = "afterCommit" =>
                           /\ t <= (IF Kept(c) THEN 1 ELSE 0)
                           /\ Settled(Conn(c)) => t = (IF Kept(c) THEN 1 ELSE 0)
                      /\ k = "afterRollback" =>
                           /\ t <= (IF Undone(c) THEN 1 ELSE 0)
                           /\ Settled(Conn(c)) => t = (IF Kept(c) THEN 0 ELSE 1)
                      /\ k = "beforeCommit" =>
                           /\ t <= 1
                           /\ t = 1 => \A e \in enclosing[c] : IsRoot(e) \/ phase[e] = "resolved"
    BY DEF HooksFollowWork, Kinds
  <1>1. k \in Kinds
    BY DEF Base, TypeOK
  <1>2. ~ (Kept(c) /\ Undone(c))
    BY DEF Kept, Undone
  <1>3. CASE Spent(c, n, k)
    BY <1>1, <1>2, <1>3 DEF Spent, Kinds
  <1>4. ASSUME NEW e \in Frames, <<c, n>> \in HooksAt(e, k), k # "beforeCommit" PROVE
          t = 0 /\ ~ Kept(c) /\ ~ Settled(Conn(c))
    <2>1. t = 0
      BY <1>1, <1>4 DEF HookWork, HooksEntrusted
    <2>2. /\ Pending(e) /\ ~ Kept(c) /\ e \in enclosing[c]
          /\ \A d \in enclosing[e] : d = e \/ phase[d] \in {"running", "finishing"}
      BY <1>1, <1>4, HolderPends DEF HookWork
    <2>3. Conn(c) \in enclosing[e]
      BY <2>2 DEF Base, Chains
    <2> QED BY <2>1, <2>2, <2>3 DEF Settled, Pending
  <1>5. Spent(c, n, k) \/ \E e \in Frames : <<c, n>> \in HooksAt(e, k) /\ k # "beforeCommit"
    BY DEF HookWork, HooksSpent
  <1> QED BY <1>1, <1>3, <1>4, <1>5

(* What no step changes about a frame that has opened. *)
Steady ==
    \A d \in Frames : Opened(d) =>
        /\ enclosing'[d] = enclosing[d] /\ owner'[d] = owner[d] /\ Opened(d)'
        /\ phase[d] = "resolved" => phase'[d] = "resolved"
        /\ phase[d] \in {"compensating", "rejected"} => phase'[d] \in {"compensating", "rejected"}

LEMMA SteadyStep ==
    ASSUME Base, [Next]_vars
    PROVE  Steady
  <1>1. CASE UNCHANGED vars
    BY <1>1 DEF vars, control, Steady, Opened
  <1>2. CASE Begin
    BY <1>2 DEF Begin, Steady, Opened, Base, TypeOK
  <1>3. ASSUME NEW f \in Frames, NEW g \in Frames, CallNested(f, g) \/ CallRequiresNew(f, g)
        PROVE  Steady
    <2>1. \A d \in Frames \ {g} : /\ enclosing'[d] = enclosing[d] /\ owner'[d] = owner[d]
                                  /\ phase'[d] = phase[d]
      BY <1>3 DEF CallNested, CallRequiresNew, Base, TypeOK
    <2>2. ~ Opened(g)
      BY <1>3 DEF CallNested, CallRequiresNew, Opened
    <2> QED BY <2>1, <2>2 DEF Steady, Opened
  <1>4. ASSUME NEW f \in Frames,
               \/ Open(f) \/ OpenFails(f) \/ Resolve(f) \/ Reject(f)
               \/ RollbackTo(f) \/ SettleRejected(f)
               \/ Finish(f) \/ Commit(f) \/ FinishFails(f) \/ Rollback(f)
               \/ Write(f) \/ StatementFails(f)
               \/ BeforeCommitEnds(f) \/ AfterRollbackEnds(f)
               \/ \E k \in HookKinds : Register(f, k)
        PROVE  Steady
    <2>1. UNCHANGED <<owner, enclosing>>
      BY <1>4, NotACall DEF Base
    <2>2. \/ UNCHANGED phase
          \/ \E q \in Phases \ {"idle", "queued"} :
               /\ phase' = [phase EXCEPT ![f] = q]
               /\ phase[f] \notin {"resolved", "rejected"}
               /\ phase[f] = "compensating" => q = "rejected"
      <3>1. CASE Open(f) \/ OpenFails(f) \/ Resolve(f) \/ Reject(f) \/ RollbackTo(f)
        BY <3>1 DEF Open, OpenFails, Resolve, Reject, RollbackTo, Phases
      <3>2. CASE SettleRejected(f) \/ Finish(f) \/ Commit(f) \/ FinishFails(f) \/ Rollback(f)
        BY <3>2 DEF SettleRejected, Finish, Commit, FinishFails, Rollback, Phases
      <3>3. CASE \/ Write(f) \/ StatementFails(f)
                 \/ BeforeCommitEnds(f) \/ AfterRollbackEnds(f)
                 \/ \E k \in HookKinds : Register(f, k)
        BY <3>3 DEF Write, StatementFails, BeforeCommitEnds, AfterRollbackEnds, Register, control
      <3> QED BY <1>4, <3>1, <3>2, <3>3
    <2>3. CASE UNCHANGED phase
      BY <2>1, <2>3 DEF Steady, Opened
    <2>4. CASE \E q \in Phases \ {"idle", "queued"} :
                 /\ phase' = [phase EXCEPT ![f] = q]
                 /\ phase[f] \notin {"resolved", "rejected"}
                 /\ phase[f] = "compensating" => q = "rejected"
      BY <2>1, <2>4 DEF Steady, Opened, Base, TypeOK
    <2> QED BY <2>2, <2>3, <2>4
  <1> QED BY <1>1, <1>2, <1>3, <1>4 DEF Next, Step, Terminated

LEMMA EntrustedKept ==
    ASSUME Base, Work, HooksLater, Steady, NEW h, h[1] \in Frames, NEW k,
           NEW e \in Frames, Opened(e), Entrusted(h, k, e),
           h[2] \in DOMAIN hooked'[h[1]], hooked'[h[1]][h[2]] = k
    PROVE  Entrusted(h, k, e)'
  <1>1. Opened(h[1])
    <2>1. hooked[h[1]] # <<>>
      BY DEF Entrusted
    <2> QED BY <2>1 DEF HooksLater
  <1>2. enclosing'[h[1]] = enclosing[h[1]] /\ enclosing'[e] = enclosing[e]
    BY <1>1 DEF Steady
  <1>3. \A d \in enclosing[h[1]] : d \in Frames /\ Opened(d)
    BY <1>1 DEF Work, Unopened, Base, TypeOK
  <1> QED BY <1>2, <1>3 DEF Entrusted, Steady

(* What has become of a hook stays so. *)
LEMMA SpentKept ==
    ASSUME Base, Work, HooksLater, Steady, NEW c \in Frames, NEW n \in DOMAIN hooked[c],
           NEW k, Spent(c, n, k), ran'[<<c, n>>] = ran[<<c, n>>]
    PROVE  Spent(c, n, k)'
  <1>1. Opened(c)
    <2>1. hooked[c] # <<>>
      OBVIOUS
    <2> QED BY <2>1 DEF HooksLater
  <1>2. /\ enclosing'[c] = enclosing[c]
        /\ \A d \in enclosing[c] : d \in Frames /\ Opened(d)
    BY <1>1 DEF Steady, Work, Unopened, Base, TypeOK
  <1>3. /\ Kept(c) => Kept(c)'
        /\ Undone(c) => Undone(c)'
        /\ (\A e \in enclosing[c] : IsRoot(e) \/ phase[e] = "resolved") =>
             (\A e \in enclosing'[c] : owner'[e] = NoFrame \/ phase'[e] = "resolved")
    BY <1>2 DEF Steady, Kept, Undone, IsRoot
  <1> QED BY <1>2, <1>3 DEF Spent, IsRoot

(* A step that moves no hook. *)
LEMMA HooksFrame ==
    ASSUME Base, Base', Work, HookWork, Steady, UNCHANGED <<hooks, hooked, ran>>,
           \A e \in Frames : Opened(e) =>
               /\ HasSavepoint(e) => HasSavepoint(e)'
               /\ phase[e] = "compensating" =>
                    phase'[e] = "compensating" \/ hooks[e]["afterRollback"] = <<>>
               /\ phase'[e] = "running" => phase[e] = "running",
           \A r \in Frames :
               \/ snapshot'[r] = snapshot[r] /\ (phase[r] = "finishing" => phase'[r] = "finishing")
               \/ snapshot'[r] = <<>>
               \/ /\ phase[r] = "running" /\ phase'[r] = "finishing"
                  /\ snapshot'[r] = hooks[r]["beforeCommit"]
    PROVE  HookWork'
  <1>1. HooksOnce'
    BY DEF HookWork, HooksOnce, HooksAt
  <1>2. HooksEntrusted'
    <2> SUFFICES ASSUME NEW e \in Frames, NEW k \in Kinds, NEW h \in HooksAt(e, k)
                 PROVE  /\ Entrusted(h, k, e)'
                        /\ HasSavepoint(e)' \/ (phase'[e] = "compensating" /\ k = "afterRollback")
                        /\ k # "beforeCommit" \/ phase'[e] = "running" => ran[h] = 0
      BY DEF HooksEntrusted, HooksAt, Entrusted, HasSavepoint
    <2>1. /\ Entrusted(h, k, e) /\ Opened(e) /\ h[1] \in Frames
          /\ HasSavepoint(e) \/ (phase[e] = "compensating" /\ k = "afterRollback")
          /\ k # "beforeCommit" \/ phase[e] = "running" => ran[h] = 0
      BY HolderPends DEF HookWork, HooksEntrusted
    <2>2. Entrusted(h, k, e)'
      BY <2>1, EntrustedKept DEF HookWork, Entrusted
    <2>3. hooks[e][k] # <<>>
      BY ElemsEmpty DEF HooksAt
    <2> QED BY <2>1, <2>2, <2>3
  <1>3. HooksSnapshot'
    <2> SUFFICES ASSUME NEW r \in Frames
                 PROVE  /\ Once(snapshot'[r])
                        /\ \A h \in Elems(snapshot'[r]) :
                             /\ Entrusted(h, "beforeCommit", r)' /\ phase'[r] = "finishing"
                             /\ ran[h] = 0
      BY SMTT(60) DEF HooksSnapshot, Once, Elems, Entrusted
    <2>1. CASE snapshot'[r] = snapshot[r] /\ (phase[r] = "finishing" => phase'[r] = "finishing")
      <3>1. ASSUME NEW h \in Elems(snapshot[r])
            PROVE  Entrusted(h, "beforeCommit", r)' /\ phase'[r] = "finishing" /\ ran[h] = 0
        <4>1. Entrusted(h, "beforeCommit", r) /\ phase[r] = "finishing" /\ ran[h] = 0
          BY DEF HookWork, HooksSnapshot
        <4>2. Opened(r) /\ h[1] \in Frames
          BY <4>1, SnapshotType DEF Opened, Base
        <4>3. Entrusted(h, "beforeCommit", r)'
          BY <4>1, <4>2, EntrustedKept DEF HookWork, Entrusted
        <4> QED BY <2>1, <4>1, <4>3
      <3> QED BY <2>1, <3>1 DEF HookWork, HooksSnapshot
    <2>2. CASE snapshot'[r] = <<>>
      BY <2>2, ElemsEmpty
    <2>3. CASE /\ phase[r] = "running" /\ phase'[r] = "finishing"
               /\ snapshot'[r] = hooks[r]["beforeCommit"]
      <3>1. "beforeCommit" \in Kinds
        BY DEF Kinds
      <3>2. ASSUME NEW h \in Elems(snapshot'[r])
            PROVE  Entrusted(h, "beforeCommit", r)' /\ ran[h] = 0
        <4>1. h \in HooksAt(r, "beforeCommit")
          BY <2>3 DEF HooksAt
        <4>2. Entrusted(h, "beforeCommit", r) /\ ran[h] = 0 /\ Opened(r) /\ h[1] \in Frames
          BY <2>3, <3>1, <4>1, HolderPends DEF HookWork, HooksEntrusted
        <4> QED BY <4>2, EntrustedKept DEF HookWork, Entrusted
      <3> QED BY <2>3, <3>1, <3>2 DEF HookWork, HooksOnce
    <2> QED BY <2>1, <2>2, <2>3
  <1>4. HooksSpent'
    <2> SUFFICES ASSUME NEW c \in Frames, NEW n \in DOMAIN hooked[c], NEW k, k = hooked[c][n]
                 PROVE  \/ k # "beforeCommit" /\ \E e \in Frames : <<c, n>> \in HooksAt(e, k)
                        \/ Spent(c, n, k)'
      BY DEF HooksSpent, HooksAt, Spent, Kept, Undone, IsRoot
    <2> QED BY SpentKept DEF HookWork, HooksSpent
  <1>5. HooksLater'
    BY DEF HookWork, HooksLater, Steady
  <1> QED BY <1>1, <1>2, <1>3, <1>4, <1>5 DEF HookWork

LEMMA HooksQuiet ==
    ASSUME Base, Base', Work, HookWork, [Next]_vars, NEW f \in Frames, NEW g \in Frames,
           \/ UNCHANGED vars \/ Begin \/ CallNested(f, g) \/ CallRequiresNew(f, g)
           \/ Open(f) \/ OpenFails(f) \/ Reject(f) \/ SettleRejected(f)
           \/ Finish(f) \/ FinishFails(f) \/ Write(f) \/ StatementFails(f)
    PROVE  HookWork'
  <1> DEFINE Held(e) == /\ HasSavepoint(e) => HasSavepoint(e)'
                        /\ phase[e] = "compensating" =>
                             phase'[e] = "compensating" \/ hooks[e]["afterRollback"] = <<>>
                        /\ phase'[e] = "running" => phase[e] = "running"
             Left(r) == \/ /\ snapshot'[r] = snapshot[r]
                           /\ phase[r] = "finishing" => phase'[r] = "finishing"
                        \/ snapshot'[r] = <<>>
                        \/ /\ phase[r] = "running" /\ phase'[r] = "finishing"
                           /\ snapshot'[r] = hooks[r]["beforeCommit"]
             Quiet == /\ UNCHANGED <<hooks, hooked, ran>>
                      /\ \A e \in Frames : Opened(e) => Held(e)
                      /\ \A r \in Frames : Left(r)
  <1> SUFFICES Quiet
    BY SteadyStep, HooksFrame
  <1>1. CASE UNCHANGED vars \/ Write(f) \/ StatementFails(f)
    <2>1. UNCHANGED <<phase, hooks, snapshot, hooked, ran>>
      BY <1>1 DEF vars, control, queues, Write, StatementFails
    <2> QED BY <2>1 DEF HasSavepoint
  <1>2. CASE Begin \/ CallNested(f, g) \/ CallRequiresNew(f, g) \/ Open(f)
    <2>1. PICK x \in Frames, q \in {"queued", "running"} :
            phase' = [phase EXCEPT ![x] = q] /\ phase[x] \in {"idle", "queued"}
      BY <1>2, FramesAssumption DEF Begin, CallNested, CallRequiresNew, Open
    <2>2. UNCHANGED <<hooks, snapshot, hooked, ran>>
      BY <1>2 DEF Begin, CallNested, CallRequiresNew, Open, queues
    <2> QED BY <2>1, <2>2 DEF HasSavepoint, Opened, Base, TypeOK
  <1>3. CASE OpenFails(f) \/ Reject(f) \/ SettleRejected(f)
    <2>1. UNCHANGED <<hooks, snapshot, hooked, ran>>
      BY <1>3 DEF OpenFails, Reject, SettleRejected, queues
    <2>2. \/ phase' = [phase EXCEPT ![f] = "rejected"] /\ phase[f] = "queued"
          \/ phase' = [phase EXCEPT ![f] = "unwinding"] /\ phase[f] = "running"
          \/ /\ phase' = [phase EXCEPT ![f] = "rejected"] /\ phase[f] = "compensating"
             /\ hooks[f]["afterRollback"] = <<>>
      BY <1>3 DEF OpenFails, Reject, SettleRejected
    <2> QED BY <2>1, <2>2 DEF HasSavepoint, Opened, Base, TypeOK
  <1>4. CASE Finish(f) \/ FinishFails(f)
    <2>1. UNCHANGED <<hooks, hooked, ran>>
      BY <1>4 DEF Finish, FinishFails
    <2>2. \/ /\ phase' = [phase EXCEPT ![f] = "finishing"] /\ phase[f] = "running"
             /\ snapshot' = [snapshot EXCEPT ![f] = hooks[f]["beforeCommit"]]
          \/ /\ phase' = [phase EXCEPT ![f] = "unwinding"] /\ phase[f] = "finishing"
             /\ snapshot' = [snapshot EXCEPT ![f] = <<>>]
      BY <1>4 DEF Finish, FinishFails
    <2>3. \A e \in Frames : Opened(e) => Held(e)
      BY <2>2 DEF HasSavepoint, Opened, Base, TypeOK
    <2>4. \A r \in Frames : Left(r)
      <3>1. phase \in [Frames -> Phases] /\ snapshot \in [Frames -> Seq(Hooks)]
        BY DEF Base, TypeOK
      <3>2. \A r \in Frames \ {f} : phase'[r] = phase[r] /\ snapshot'[r] = snapshot[r]
        BY <2>2, <3>1
      <3>3. Left(f)
        BY <2>2, <3>1
      <3> QED BY <3>2, <3>3
    <2> QED BY <2>1, <2>3, <2>4
  <1> QED BY <1>1, <1>2, <1>3, <1>4

(* A hook that is registered is new, and stands last in its queue. *)
LEMMA HooksRegistered ==
    ASSUME Base, Base', Work, HookWork, [Next]_vars,
           NEW f \in Frames, NEW k \in HookKinds, Register(f, k)
    PROVE  HookWork'
  <1>0. PICK c \in Frames :
          /\ ActsIn(f, c) /\ Len(hooked[c]) < MaxHooks
          /\ hooked' = [hooked EXCEPT ![c] = Append(@, k)]
          /\ hooks' = [hooks EXCEPT ![c][k] = Append(@, <<c, Len(hooked[c]) + 1>>)]
          /\ UNCHANGED <<control, snapshot, ran, data>>
    BY DEF Register
  <1>1. UNCHANGED <<phase, owner, enclosing, snapshot, ran>>
    BY <1>0 DEF control
  <1>2. k \in Kinds /\ Steady
    BY SteadyStep, BoundsAssumption
  <1>3. PICK m \in Nat : m = Len(hooked[c])
    BY DEF Base, TypeOK
  <1>4. PICK h \in Hooks : h = <<c, m + 1>> /\ h[1] = c /\ h[2] = m + 1
    <2>1. m + 1 \in 1 .. MaxHooks
      BY <1>0, <1>3, FramesAssumption
    <2>2. <<c, m + 1>> \in Hooks /\ <<c, m + 1>>[1] = c /\ <<c, m + 1>>[2] = m + 1
      BY <2>1 DEF Hooks
    <2> QED BY <2>2
  <1>5. /\ \A b \in Frames : b # c => hooked'[b] = hooked[b]
        /\ \A b \in Frames : DOMAIN hooked[b] = 1 .. Len(hooked[b])
        /\ DOMAIN hooked'[c] = 1 .. m + 1 /\ hooked'[c][m + 1] = k
        /\ \A n \in 1 .. m : hooked'[c][n] = hooked[c][n]
    <2>1. hooked \in [Frames -> Seq(Kinds)]
      BY DEF Base, TypeOK
    <2>2. hooked'[c] = Append(hooked[c], k) /\ \A b \in Frames : b # c => hooked'[b] = hooked[b]
      BY <1>0, <2>1
    <2> QED BY <1>2, <1>3, <2>1, <2>2
  <1>6. \A b \in Frames : \A n \in DOMAIN hooked[b] :
          n \in DOMAIN hooked'[b] /\ hooked'[b][n] = hooked[b][n]
    BY <1>3, <1>5
  <1>7. /\ hooks'[c][k] = Append(hooks[c][k], h)
        /\ \A e \in Frames : \A l \in Kinds : e # c \/ l # k => hooks'[e][l] = hooks[e][l]
        /\ \A e \in Frames : \A l \in Kinds : hooks[e][l] \in Seq(Hooks)
    <2>1. hooks \in [Frames -> [Kinds -> Seq(Hooks)]]
      BY DEF Base, TypeOK
    <2>2. hooks'[c] = [hooks[c] EXCEPT ![k] = Append(@, h)]
          /\ \A e \in Frames : e # c => hooks'[e] = hooks[e]
      BY <1>0, <1>3, <1>4, <2>1
    <2> QED BY <1>2, <2>1, <2>2
  <1>8. /\ HooksAt(c, k)' = HooksAt(c, k) \cup {h}
        /\ \A e \in Frames : \A l \in Kinds : e # c \/ l # k => HooksAt(e, l)' = HooksAt(e, l)
    BY <1>2, <1>7, ElemsAppend DEF HooksAt
  <1>9. \A e \in Frames : \A l \in Kinds : h \notin HooksAt(e, l)
    <2> SUFFICES ASSUME NEW e \in Frames, NEW l \in Kinds, h \in HooksAt(e, l) PROVE FALSE
      OBVIOUS
    <2>1. m + 1 \in DOMAIN hooked[c]
      BY <1>4 DEF HookWork, HooksEntrusted, Entrusted
    <2> QED BY <1>3, <1>5, <2>1
  <1>10. phase[c] \in {"running", "finishing"} /\ Opened(c)
    BY <1>0, ActorRuns DEF Base, Opened
  <1>11. HooksOnce'
    <2>1. \A e \in Frames : \A l \in Kinds : Once(hooks'[e][l])
      <3>1. Once(hooks'[c][k])
        <4>1. hooks[c][k] \in Seq(Hooks) /\ Once(hooks[c][k]) /\ h \notin Elems(hooks[c][k])
          BY <1>2, <1>7, <1>9 DEF HookWork, HooksOnce, HooksAt
        <4> QED BY <1>7, <4>1, ElemsAppend
      <3>2. \A e \in Frames : \A l \in Kinds : e # c \/ l # k => Once(hooks'[e][l])
        BY <1>7 DEF HookWork, HooksOnce
      <3> QED BY <3>1, <3>2
    <2>2. \A e, d \in Frames : \A l \in Kinds :
            e # d => HooksAt(e, l)' \cap HooksAt(d, l)' = {}
      BY <1>8, <1>9 DEF HookWork, HooksOnce
    <2> QED BY <2>1, <2>2 DEF HooksOnce, Once
  <1>12. HooksEntrusted'
    <2> SUFFICES ASSUME NEW e \in Frames, NEW l \in Kinds, NEW x, x \in HooksAt(e, l)'
                 PROVE  /\ Entrusted(x, l, e)'
                        /\ HasSavepoint(e) \/ (phase[e] = "compensating" /\ l = "afterRollback")
                        /\ l # "beforeCommit" \/ phase[e] = "running" => ran[x] = 0
      BY <1>1 DEF HooksEntrusted, HasSavepoint
    <2>1. CASE x \in HooksAt(e, l)
      <3>1. /\ Entrusted(x, l, e) /\ Opened(e) /\ x[1] \in Frames
            /\ HasSavepoint(e) \/ (phase[e] = "compensating" /\ l = "afterRollback")
            /\ l # "beforeCommit" \/ phase[e] = "running" => ran[x] = 0
        BY <2>1, HolderPends DEF HookWork, HooksEntrusted
      <3>2. x[2] \in DOMAIN hooked'[x[1]] /\ hooked'[x[1]][x[2]] = l
        BY <1>6, <3>1 DEF Entrusted
      <3>3. Entrusted(x, l, e)'
        BY <1>2, <3>1, <3>2, EntrustedKept DEF HookWork
      <3> QED BY <3>1, <3>3
    <2>2. CASE x = h /\ e = c /\ l = k
      <3>1. c \in enclosing[c]
        BY DEF Base, Structure, ChainOK
      <3>2. m + 1 \in DOMAIN hooked'[c]
        BY <1>5
      <3>3. Entrusted(h, k, c)'
        BY <1>1, <1>4, <1>5, <3>1, <3>2 DEF Entrusted
      <3>4. ran[h] = 0
        <4>1. m + 1 \in 1 .. MaxHooks /\ m + 1 \notin DOMAIN hooked[c]
          BY <1>3, <1>4, <1>5 DEF Hooks
        <4> QED BY <1>4, <4>1 DEF HookWork, HooksLater
      <3> QED BY <1>10, <2>2, <3>3, <3>4 DEF HasSavepoint
    <2> QED BY <1>8, <2>1, <2>2
  <1>13. HooksSnapshot'
    <2> SUFFICES ASSUME NEW r \in Frames, NEW x \in Elems(snapshot[r])
                 PROVE  Entrusted(x, "beforeCommit", r)' /\ phase[r] = "finishing" /\ ran[x] = 0
      BY <1>1 DEF HookWork, HooksSnapshot, Once, Elems
    <2>1. Entrusted(x, "beforeCommit", r) /\ phase[r] = "finishing" /\ ran[x] = 0
          /\ Opened(r) /\ x[1] \in Frames
      BY SnapshotType DEF HookWork, HooksSnapshot, Base, Opened
    <2>2. x[2] \in DOMAIN hooked'[x[1]] /\ hooked'[x[1]][x[2]] = "beforeCommit"
      BY <1>6, <2>1 DEF Entrusted
    <2> QED BY <1>2, <2>1, <2>2, EntrustedKept DEF HookWork
  <1>14. HooksSpent'
    <2> SUFFICES ASSUME NEW b \in Frames, NEW n \in DOMAIN hooked'[b], NEW l, l = hooked'[b][n]
                 PROVE  \/ l # "beforeCommit" /\ \E e \in Frames : <<b, n>> \in HooksAt(e, l)'
                        \/ Spent(b, n, l)'
      BY DEF HooksSpent, HooksAt, Spent, Kept, Undone, IsRoot
    <2>1. CASE n \in DOMAIN hooked[b]
      <3>1. l = hooked[b][n] /\ l \in Kinds
        <4>1. hooked[b] \in Seq(Kinds)
          BY DEF Base, TypeOK
        <4> QED BY <1>6, <2>1, <4>1
      <3>2. CASE Spent(b, n, l)
        BY <1>1, <1>2, <2>1, <3>1, <3>2, SpentKept DEF HookWork
      <3>3. CASE l # "beforeCommit" /\ \E e \in Frames : <<b, n>> \in HooksAt(e, l)
        BY <1>8, <3>1, <3>3
      <3> QED BY <2>1, <3>1, <3>2, <3>3 DEF HookWork, HooksSpent
    <2>2. CASE n \notin DOMAIN hooked[b]
      <3>1. b = c /\ n = m + 1 /\ l = k /\ <<b, n>> = h
        BY <1>3, <1>4, <1>5, <2>2
      <3>2. <<b, n>> \in HooksAt(c, l)'
        BY <1>8, <3>1
      <3>3. CASE l = "beforeCommit"
        <4>1. ran[<<b, n>>] = 0
          BY <2>2, <3>1, <1>4 DEF HookWork, HooksLater, Hooks
        <4> QED BY <1>1, <3>3, <4>1 DEF Spent
      <3> QED BY <3>2, <3>3
    <2> QED BY <2>1, <2>2
  <1>15. HooksLater'
    <2>1. \A b \in Frames : ~ Opened(b)' => hooked'[b] = <<>>
      BY <1>1, <1>5, <1>10 DEF HookWork, HooksLater, Opened
    <2>2. \A b \in Frames : \A n \in 1 .. MaxHooks : n \notin DOMAIN hooked'[b] => ran[<<b, n>>] = 0
      BY <1>6 DEF HookWork, HooksLater
    <2>3. \A b \in Frames : DOMAIN hooked'[b] \subseteq 1 .. MaxHooks
      <3>1. m + 1 \in 1 .. MaxHooks
        BY <1>4 DEF Hooks
      <3>2. DOMAIN hooked'[c] = 1 .. m + 1 /\ 1 .. m + 1 \subseteq 1 .. MaxHooks
        BY <1>5, <3>1, FramesAssumption
      <3> QED BY <1>5, <3>2 DEF HookWork, HooksLater
    <2> QED BY <1>1, <2>1, <2>2, <2>3 DEF HooksLater
  <1> QED BY <1>11, <1>12, <1>13, <1>14, <1>15 DEF HookWork

(* A savepoint that resolves hands its hooks to its parent. *)
LEMMA HooksPromoted ==
    ASSUME Base, Base', Work, HookWork, [Next]_vars, NEW g \in Frames, Resolve(g)
    PROVE  HookWork'
  <1>1. /\ phase[g] = "running" /\ ~ IsRoot(g)
        /\ phase' = [phase EXCEPT ![g] = "resolved"]
        /\ hooks' = Promoted(g)
        /\ UNCHANGED <<owner, enclosing, snapshot, hooked, ran>>
    BY DEF Resolve
  <1>2. Steady
    BY SteadyStep
  <1>3. PICK o \in Frames : o = owner[g]
    BY <1>1 DEF Base, TypeOK, IsRoot
  <1>4. o # g /\ o \in enclosing[g] /\ enclosing[g] = {g} \cup enclosing[o]
    BY <1>1, <1>3 DEF Base, Structure, ChainOK, Nesting, EnclosingIs
  <1>5. phase[o] \in {"running", "finishing"}
    BY <1>1, <1>3, OwnerRuns DEF Base, Pending
  <1>6. \A e \in Frames : \A k \in Kinds :
          /\ hooks[e][k] \in Seq(Hooks)
          /\ hooks'[o][k] = hooks[o][k] \o hooks[g][k]
          /\ hooks'[g][k] = <<>>
          /\ e \notin {o, g} => hooks'[e][k] = hooks[e][k]
    <2>1. hooks \in [Frames -> [Kinds -> Seq(Hooks)]]
      BY DEF Base, TypeOK
    <2>2. /\ hooks'[o] = [k \in Kinds |-> hooks[o][k] \o hooks[g][k]]
          /\ hooks'[g] = [k \in Kinds |-> <<>>]
          /\ \A e \in Frames \ {o, g} : hooks'[e] = hooks[e]
      BY <1>1, <1>3, <1>4, <2>1 DEF Promoted
    <2> QED BY <2>1, <2>2
  <1>7. \A k \in Kinds : HooksAt(o, k) \cap HooksAt(g, k) = {}
    BY <1>4 DEF HookWork, HooksOnce
  <1>8. \A k \in Kinds : /\ HooksAt(o, k)' = HooksAt(o, k) \cup HooksAt(g, k)
                         /\ HooksAt(g, k)' = {}
                         /\ Once(hooks'[o][k]) /\ Once(hooks'[g][k])
    <2> SUFFICES ASSUME NEW k \in Kinds
                 PROVE  /\ HooksAt(o, k)' = HooksAt(o, k) \cup HooksAt(g, k)
                        /\ HooksAt(g, k)' = {}
                        /\ Once(hooks'[o][k]) /\ Once(hooks'[g][k])
      OBVIOUS
    <2>1. /\ hooks[o][k] \in Seq(Hooks) /\ hooks[g][k] \in Seq(Hooks)
          /\ Once(hooks[o][k]) /\ Once(hooks[g][k])
          /\ Elems(hooks[o][k]) \cap Elems(hooks[g][k]) = {}
      BY <1>6, <1>7 DEF HooksAt, HookWork, HooksOnce
    <2>2. /\ Elems(hooks[o][k] \o hooks[g][k]) = Elems(hooks[o][k]) \cup Elems(hooks[g][k])
          /\ Once(hooks[o][k] \o hooks[g][k])
      BY <2>1, ElemsConcat
    <2> QED BY <1>6, <2>2, ElemsEmpty DEF HooksAt
  <1>9. \A e \in Frames \ {o, g} : \A k \in Kinds :
          HooksAt(e, k)' = HooksAt(e, k) /\ Once(hooks'[e][k])
    BY <1>6 DEF HooksAt, HookWork, HooksOnce
  <1>10. HooksOnce'
    <2>1. \A e \in Frames : \A k \in Kinds : Once(hooks'[e][k])
      BY <1>8, <1>9
    <2>2. \A e, d \in Frames : \A k \in Kinds :
            e # d => HooksAt(e, k)' \cap HooksAt(d, k)' = {}
      <3> SUFFICES ASSUME NEW e \in Frames, NEW d \in Frames, NEW k \in Kinds, e # d,
                          NEW x, x \in HooksAt(e, k)', x \in HooksAt(d, k)'
                   PROVE  FALSE
        OBVIOUS
      <3>1. PICK a \in Frames : x \in HooksAt(a, k) /\ (a = e \/ (a = g /\ e = o))
        BY <1>8, <1>9
      <3>2. PICK b \in Frames : x \in HooksAt(b, k) /\ (b = d \/ (b = g /\ d = o))
        BY <1>8, <1>9
      <3>3. e # g /\ d # g
        BY <1>8
      <3>4. a # b
        BY <3>1, <3>2, <3>3
      <3> QED BY <3>1, <3>2, <3>4 DEF HookWork, HooksOnce
    <2> QED BY <2>1, <2>2 DEF HooksOnce, Once
  <1>11. HooksEntrusted'
    <2> SUFFICES ASSUME NEW e \in Frames, NEW k \in Kinds, NEW x, x \in HooksAt(e, k)'
                 PROVE  /\ Entrusted(x, k, e)'
                        /\ HasSavepoint(e)' \/ (phase'[e] = "compensating" /\ k = "afterRollback")
                        /\ k # "beforeCommit" \/ phase'[e] = "running" => ran[x] = 0
      BY <1>1 DEF HooksEntrusted, HasSavepoint
    <2>1. CASE x \in HooksAt(e, k) /\ e # g
      <3>1. /\ Entrusted(x, k, e) /\ Opened(e) /\ x[1] \in Frames
            /\ HasSavepoint(e) \/ (phase[e] = "compensating" /\ k = "afterRollback")
            /\ k # "beforeCommit" \/ phase[e] = "running" => ran[x] = 0
        BY <2>1, HolderPends DEF HookWork, HooksEntrusted
      <3>2. Entrusted(x, k, e)'
        BY <1>1, <1>2, <3>1, EntrustedKept DEF HookWork, Entrusted
      <3>3. phase'[e] = phase[e]
        BY <1>1, <2>1 DEF Base, TypeOK
      <3> QED BY <3>1, <3>2, <3>3 DEF HasSavepoint
    <2>2. CASE x \in HooksAt(g, k) /\ e = o
      <3>1. /\ Entrusted(x, k, g) /\ x[1] \in Frames /\ ran[x] = 0
        BY <1>1, <2>2, HolderPends DEF HookWork, HooksEntrusted
      <3>2. phase'[o] = phase[o] /\ phase'[g] = "resolved"
            /\ \A d \in enclosing[x[1]] : phase[d] = "resolved" => phase'[d] = "resolved"
        BY <1>1, <1>4, <3>1 DEF Base, TypeOK
      <3>3. enclosing[g] \subseteq enclosing[x[1]]
        BY <3>1, EnclosingTransitive DEF Base, Entrusted
      <3>4. Entrusted(x, k, o)'
        BY <1>1, <1>4, <3>1, <3>2, <3>3 DEF Entrusted
      <3> QED BY <1>5, <2>2, <3>1, <3>2, <3>4 DEF HasSavepoint
    <2> QED BY <1>8, <1>9, <2>1, <2>2
  <1>12. HooksSnapshot'
    <2> SUFFICES ASSUME NEW r \in Frames, NEW x \in Elems(snapshot[r])
                 PROVE  Entrusted(x, "beforeCommit", r)' /\ phase'[r] = "finishing" /\ ran[x] = 0
      BY <1>1 DEF HookWork, HooksSnapshot, Once, Elems
    <2>1. Entrusted(x, "beforeCommit", r) /\ phase[r] = "finishing" /\ ran[x] = 0
          /\ Opened(r) /\ x[1] \in Frames
      BY SnapshotType DEF HookWork, HooksSnapshot, Base, Opened
    <2>2. Entrusted(x, "beforeCommit", r)'
      BY <1>1, <1>2, <2>1, EntrustedKept DEF HookWork, Entrusted
    <2> QED BY <1>1, <2>1, <2>2 DEF Base, TypeOK
  <1>13. HooksSpent'
    <2> SUFFICES ASSUME NEW b \in Frames, NEW n \in DOMAIN hooked[b], NEW k, k = hooked[b][n]
                 PROVE  \/ k # "beforeCommit" /\ \E e \in Frames : <<b, n>> \in HooksAt(e, k)'
                        \/ Spent(b, n, k)'
      BY <1>1 DEF HooksSpent, HooksAt, Spent, Kept, Undone, IsRoot
    <2>1. k \in Kinds
      <3>1. hooked[b] \in Seq(Kinds)
        BY DEF Base, TypeOK
      <3> QED BY <3>1
    <2>2. CASE Spent(b, n, k)
      BY <1>1, <1>2, <2>2, SpentKept DEF HookWork
    <2>3. CASE k # "beforeCommit" /\ \E e \in Frames : <<b, n>> \in HooksAt(e, k)
      BY <1>8, <1>9, <2>1, <2>3
    <2> QED BY <2>2, <2>3 DEF HookWork, HooksSpent
  <1>14. HooksLater'
    BY <1>1, <1>2 DEF HookWork, HooksLater, Steady
  <1> QED BY <1>10, <1>11, <1>12, <1>13, <1>14 DEF HookWork

(* A frame that rolls back keeps its afterRollback queue, and what it drops  *)
(* are hooks of frames that are undone with it.                              *)
LEMMA HooksRolledBack ==
    ASSUME Base, Base', Work, HookWork, [Next]_vars, NEW g \in Frames,
           RollbackTo(g) \/ Rollback(g)
    PROVE  HookWork'
  <1>1. /\ phase[g] = "unwinding"
        /\ phase' = [phase EXCEPT ![g] = "compensating"]
        /\ hooks' = OnlyRollbackHooks(g)
        /\ UNCHANGED <<owner, enclosing, snapshot, hooked, ran>>
    BY DEF RollbackTo, Rollback
  <1>2. Steady
    BY SteadyStep
  <1>3. \A e \in Frames : \A k \in Kinds :
          hooks'[e][k] = IF e = g /\ k # "afterRollback" THEN <<>> ELSE hooks[e][k]
    <2> DEFINE dropped == [hooks EXCEPT ![g]["beforeCommit"] = <<>>]
    <2>1. hooks \in [Frames -> [Kinds -> Seq(Hooks)]]
      BY DEF Base, TypeOK
    <2>2. dropped[g] = [hooks[g] EXCEPT !["beforeCommit"] = <<>>]
          /\ \A e \in Frames \ {g} : dropped[e] = hooks[e]
      BY <2>1
    <2>3. DOMAIN dropped = Frames
      BY <2>1
    <2>4. hooks' = [dropped EXCEPT ![g]["afterCommit"] = <<>>]
      BY <1>1 DEF OnlyRollbackHooks
    <2> HIDE DEF dropped
    <2>5. hooks'[g] = [dropped[g] EXCEPT !["afterCommit"] = <<>>]
          /\ \A e \in Frames \ {g} : hooks'[e] = dropped[e]
      BY <2>3, <2>4
    <2>6. \A k \in Kinds : hooks'[g][k] = IF k # "afterRollback" THEN <<>> ELSE hooks[g][k]
      <3>1. DOMAIN hooks[g] = Kinds /\ DOMAIN dropped[g] = Kinds
        BY <2>1, <2>2
      <3>2. \A k \in Kinds : hooks'[g][k] = IF k = "afterCommit" THEN <<>> ELSE dropped[g][k]
        BY <2>5, <3>1
      <3>3. \A k \in Kinds : dropped[g][k] = IF k = "beforeCommit" THEN <<>> ELSE hooks[g][k]
        BY <2>2, <3>1
      <3> QED BY <3>2, <3>3 DEF Kinds
    <2> QED BY <2>2, <2>5, <2>6
  <1>4. \A e \in Frames : \A k \in Kinds :
          /\ HooksAt(e, k)' = IF e = g /\ k # "afterRollback" THEN {} ELSE HooksAt(e, k)
          /\ Once(hooks'[e][k])
    BY <1>3, ElemsEmpty DEF HooksAt, HookWork, HooksOnce
  <1>5. \A e \in Frames \ {g} : phase'[e] = phase[e]
    BY <1>1 DEF Base, TypeOK
  <1>6. HooksOnce'
    <2>1. \A e, d \in Frames : \A k \in Kinds :
            e # d => HooksAt(e, k)' \cap HooksAt(d, k)' = {}
      BY <1>4 DEF HookWork, HooksOnce
    <2> QED BY <1>4, <2>1 DEF HooksOnce, Once
  <1>7. HooksEntrusted'
    <2> SUFFICES ASSUME NEW e \in Frames, NEW k \in Kinds, NEW x, x \in HooksAt(e, k)'
                 PROVE  /\ Entrusted(x, k, e)'
                        /\ HasSavepoint(e)' \/ (phase'[e] = "compensating" /\ k = "afterRollback")
                        /\ k # "beforeCommit" \/ phase'[e] = "running" => ran[x] = 0
      BY <1>1 DEF HooksEntrusted, HasSavepoint
    <2>1. x \in HooksAt(e, k) /\ (e = g => k = "afterRollback")
      BY <1>4
    <2>2. /\ Entrusted(x, k, e) /\ Opened(e) /\ x[1] \in Frames
          /\ HasSavepoint(e) \/ (phase[e] = "compensating" /\ k = "afterRollback")
          /\ k # "beforeCommit" \/ phase[e] = "running" => ran[x] = 0
      BY <2>1, HolderPends DEF HookWork, HooksEntrusted
    <2>3. Entrusted(x, k, e)'
      BY <1>1, <1>2, <2>2, EntrustedKept DEF HookWork, Entrusted
    <2>4. phase'[g] = "compensating"
      BY <1>1 DEF Base, TypeOK
    <2> QED BY <1>5, <2>1, <2>2, <2>3, <2>4 DEF HasSavepoint
  <1>8. HooksSnapshot'
    <2> SUFFICES ASSUME NEW r \in Frames, NEW x \in Elems(snapshot[r])
                 PROVE  Entrusted(x, "beforeCommit", r)' /\ phase'[r] = "finishing" /\ ran[x] = 0
      BY <1>1 DEF HookWork, HooksSnapshot, Once, Elems
    <2>1. Entrusted(x, "beforeCommit", r) /\ phase[r] = "finishing" /\ ran[x] = 0
          /\ Opened(r) /\ x[1] \in Frames
      BY SnapshotType DEF HookWork, HooksSnapshot, Base, Opened
    <2>2. Entrusted(x, "beforeCommit", r)'
      BY <1>1, <1>2, <2>1, EntrustedKept DEF HookWork, Entrusted
    <2> QED BY <1>1, <1>5, <2>1, <2>2
  <1>9. HooksSpent'
    <2> SUFFICES ASSUME NEW b \in Frames, NEW n \in DOMAIN hooked[b], NEW k, k = hooked[b][n]
                 PROVE  \/ k # "beforeCommit" /\ \E e \in Frames : <<b, n>> \in HooksAt(e, k)'
                        \/ Spent(b, n, k)'
      BY <1>1 DEF HooksSpent, HooksAt, Spent, Kept, Undone, IsRoot
    <2>1. k \in Kinds
      <3>1. hooked[b] \in Seq(Kinds)
        BY DEF Base, TypeOK
      <3> QED BY <3>1
    <2>2. CASE Spent(b, n, k)
      BY <1>1, <1>2, <2>2, SpentKept DEF HookWork
    <2>3. ASSUME NEW e \in Frames, <<b, n>> \in HooksAt(e, k), k # "beforeCommit"
          PROVE  \/ \E d \in Frames : <<b, n>> \in HooksAt(d, k)'
                 \/ Spent(b, n, k)'
      <3>1. CASE e # g \/ k = "afterRollback"
        BY <1>4, <2>1, <2>3, <3>1
      <3>2. CASE e = g /\ k = "afterCommit"
        <4>1. ran[<<b, n>>] = 0 /\ g \in enclosing[b]
          BY <2>1, <2>3, <3>2, HolderPends DEF HookWork, HooksEntrusted
        <4>2. Undone(b)'
          BY <1>1, <4>1 DEF Undone, Base, TypeOK
        <4> QED BY <1>1, <3>2, <4>1, <4>2 DEF Spent
      <3> QED BY <2>1, <2>3, <3>1, <3>2 DEF Kinds
    <2> QED BY <2>2, <2>3 DEF HookWork, HooksSpent
  <1>10. HooksLater'
    BY <1>1, <1>2 DEF HookWork, HooksLater, Steady
  <1> QED BY <1>6, <1>7, <1>8, <1>9, <1>10 DEF HookWork

(* COMMIT runs the afterCommit hooks of the root, whose frames are kept, and *)
(* drops its other queues.                                                   *)
LEMMA HooksCommitted ==
    ASSUME Base, Base', Work, HookWork, [Next]_vars, NEW r \in Frames, Commit(r)
    PROVE  HookWork'
  <1>1. /\ phase[r] = "finishing" /\ IsRoot(r) /\ snapshot[r] = <<>>
        /\ phase' = [phase EXCEPT ![r] = "resolved"]
        /\ hooks' = [hooks EXCEPT ![r] = [k \in Kinds |-> <<>>]]
        /\ ran' = [h \in Hooks |-> ran[h] + Occurrences(hooks[r]["afterCommit"], h)]
        /\ UNCHANGED <<owner, enclosing, snapshot, hooked>>
    BY DEF Commit, Base, Structure, RootPhases
  <1>2. Steady
    BY SteadyStep
  <1>3. enclosing[r] = {r}
    BY <1>1 DEF Base, Nesting, EnclosingIs
  <1>4. \A e \in Frames : \A k \in Kinds :
          /\ HooksAt(e, k)' = IF e = r THEN {} ELSE HooksAt(e, k)
          /\ Once(hooks'[e][k])
    <2>1. hooks'[r] = [k \in Kinds |-> <<>>] /\ \A e \in Frames \ {r} : hooks'[e] = hooks[e]
      BY <1>1 DEF Base, TypeOK
    <2> QED BY <2>1, ElemsEmpty DEF HooksAt, HookWork, HooksOnce
  <1>5. \A h \in Hooks : /\ ran[h] \in Nat
                         /\ ran'[h] = IF h \in HooksAt(r, "afterCommit") THEN ran[h] + 1 ELSE ran[h]
    <2>1. "afterCommit" \in Kinds
      BY DEF Kinds
    <2>2. hooks[r]["afterCommit"] \in Seq(Hooks) /\ Once(hooks[r]["afterCommit"])
      BY <2>1 DEF Base, TypeOK, HookWork, HooksOnce
    <2>3. \A h \in Hooks : ran[h] \in Nat
      BY DEF Base, TypeOK
    <2>4. ASSUME NEW h \in Hooks
          PROVE  Occurrences(hooks[r]["afterCommit"], h) =
                   IF h \in HooksAt(r, "afterCommit") THEN 1 ELSE 0
      BY <2>2, OccurrencesOnce DEF HooksAt
    <2> QED BY <1>1, <2>3, <2>4
  <1>6. ASSUME NEW h \in HooksAt(r, "afterCommit")
        PROVE  Entrusted(h, "afterCommit", r) /\ ran[h] = 0
    BY <1>6 DEF HookWork, HooksEntrusted, Kinds
  <1>7. \A e \in Frames \ {r} : phase'[e] = phase[e]
    BY <1>1 DEF Base, TypeOK
  <1>8. HooksOnce'
    <2>1. \A e, d \in Frames : \A k \in Kinds :
            e # d => HooksAt(e, k)' \cap HooksAt(d, k)' = {}
      BY <1>4 DEF HookWork, HooksOnce
    <2> QED BY <1>4, <2>1 DEF HooksOnce, Once
  <1>9. HooksEntrusted'
    <2> SUFFICES ASSUME NEW e \in Frames, NEW k \in Kinds, NEW x, x \in HooksAt(e, k)'
                 PROVE  /\ Entrusted(x, k, e)'
                        /\ HasSavepoint(e)' \/ (phase'[e] = "compensating" /\ k = "afterRollback")
                        /\ k # "beforeCommit" \/ phase'[e] = "running" => ran'[x] = 0
      BY <1>1 DEF HooksEntrusted, HasSavepoint
    <2>1. x \in HooksAt(e, k) /\ e # r
      BY <1>4
    <2>2. /\ Entrusted(x, k, e) /\ Opened(e) /\ x[1] \in Frames /\ x \in Hooks
          /\ HasSavepoint(e) \/ (phase[e] = "compensating" /\ k = "afterRollback")
          /\ k # "beforeCommit" \/ phase[e] = "running" => ran[x] = 0
      BY <2>1, HolderPends, HookType DEF HookWork, HooksEntrusted, Base
    <2>3. Entrusted(x, k, e)'
      BY <1>1, <1>2, <2>2, EntrustedKept DEF HookWork, Entrusted
    <2>4. x \notin HooksAt(r, "afterCommit")
      <3>1. CASE k = "afterCommit"
        BY <2>1, <3>1 DEF HookWork, HooksOnce
      <3>2. CASE k # "afterCommit"
        BY <1>6, <2>2, <3>2 DEF Entrusted
      <3> QED BY <3>1, <3>2
    <2> QED BY <1>5, <1>7, <2>1, <2>2, <2>3, <2>4 DEF HasSavepoint
  <1>10. HooksSnapshot'
    <2>0. \A q \in Frames : snapshot'[q] = snapshot[q] /\ Once(snapshot[q])
      BY <1>1 DEF HookWork, HooksSnapshot
    <2> SUFFICES ASSUME NEW q \in Frames, NEW x \in Elems(snapshot[q])
                 PROVE  Entrusted(x, "beforeCommit", q)' /\ phase'[q] = "finishing" /\ ran'[x] = 0
      BY <2>0 DEF HooksSnapshot, Once
    <2>1. Entrusted(x, "beforeCommit", q) /\ phase[q] = "finishing" /\ ran[x] = 0
          /\ Opened(q) /\ x[1] \in Frames /\ x \in Hooks
      BY SnapshotType DEF HookWork, HooksSnapshot, Base, Opened
    <2>2. Entrusted(x, "beforeCommit", q)'
      BY <1>1, <1>2, <2>1, EntrustedKept DEF HookWork, Entrusted
    <2>3. x \notin HooksAt(r, "afterCommit")
      BY <1>6, <2>1 DEF Entrusted
    <2>4. q # r
      BY <1>1, ElemsEmpty
    <2> QED BY <1>5, <1>7, <2>1, <2>2, <2>3, <2>4
  <1>11. HooksSpent'
    <2> SUFFICES ASSUME NEW b \in Frames, NEW n \in DOMAIN hooked[b], NEW k, k = hooked[b][n]
                 PROVE  \/ k # "beforeCommit" /\ \E e \in Frames : <<b, n>> \in HooksAt(e, k)'
                        \/ Spent(b, n, k)'
      BY <1>1 DEF HooksSpent, HooksAt, Spent, Kept, Undone, IsRoot
    <2>1. k \in Kinds
      <3>1. hooked[b] \in Seq(Kinds)
        BY DEF Base, TypeOK
      <3> QED BY <3>1
    <2>2. CASE <<b, n>> \in HooksAt(r, k) /\ k # "beforeCommit"
      <3>1. Entrusted(<<b, n>>, k, r) /\ ran[<<b, n>>] = 0 /\ <<b, n>> \in Hooks
        BY <2>1, <2>2, HookType DEF HookWork, HooksEntrusted, Base
      <3>2. Kept(b)'
        <4>1. \A d \in enclosing[b] : d = r \/ phase[d] = "resolved"
          BY <1>3, <3>1 DEF Entrusted
        <4> QED BY <1>1, <1>7, <4>1 DEF Kept, Base, TypeOK
      <3>3. CASE k = "afterCommit"
        <4>1. ran'[<<b, n>>] = 1
          BY <1>5, <2>2, <3>1, <3>3
        <4> QED BY <3>2, <3>3, <4>1 DEF Spent
      <3>4. CASE k = "afterRollback"
        <4>1. <<b, n>> \notin HooksAt(r, "afterCommit")
          BY <1>6, <3>1, <3>4 DEF Entrusted
        <4>2. ran'[<<b, n>>] = 0
          BY <1>5, <3>1, <4>1
        <4> QED BY <3>2, <3>4, <4>2 DEF Spent
      <3> QED BY <2>1, <2>2, <3>3, <3>4 DEF Kinds
    <2>3. ASSUME NEW e \in Frames \ {r}, <<b, n>> \in HooksAt(e, k), k # "beforeCommit"
          PROVE  \E d \in Frames : <<b, n>> \in HooksAt(d, k)'
      BY <1>4, <2>1, <2>3
    <2>4. CASE Spent(b, n, k)
      <3>1. ASSUME <<b, n>> \in HooksAt(r, "afterCommit") PROVE FALSE
        <4>1. k = "afterCommit" /\ ran[<<b, n>>] = 0 /\ r \in enclosing[b]
              /\ \A d \in enclosing[b] : d = r \/ phase[d] = "resolved"
          BY <1>3, <1>6, <3>1 DEF Entrusted
        <4>2. ~ Kept(b) /\ ~ Undone(b)
          BY <1>1, <4>1 DEF Kept, Undone
        <4> QED BY <2>4, <4>1, <4>2 DEF Spent
      <3>2. CASE <<b, n>> \in Hooks
        <4>1. ran'[<<b, n>>] = ran[<<b, n>>]
          BY <1>5, <3>1, <3>2
        <4> QED BY <1>2, <2>4, <4>1, SpentKept DEF HookWork
      <3>3. <<b, n>> \in Hooks
        BY DEF HookWork, HooksLater, Hooks
      <3> QED BY <3>2, <3>3
    <2> QED BY <2>2, <2>3, <2>4 DEF HookWork, HooksSpent
  <1>12. HooksLater'
    <2>1. \A b \in Frames : ~ Opened(b)' => hooked'[b] = <<>>
      BY <1>1, <1>2 DEF HookWork, HooksLater, Steady
    <2>2. ASSUME NEW b \in Frames, NEW n \in 1 .. MaxHooks, n \notin DOMAIN hooked[b]
          PROVE  ran'[<<b, n>>] = 0
      <3>1. <<b, n>> \in Hooks /\ ran[<<b, n>>] = 0
        BY <2>2 DEF HookWork, HooksLater, Hooks
      <3>2. <<b, n>> \notin HooksAt(r, "afterCommit")
        BY <1>6, <2>2 DEF Entrusted
      <3> QED BY <1>5, <3>1, <3>2
    <2>3. \A b \in Frames : DOMAIN hooked[b] \subseteq 1 .. MaxHooks
      BY DEF HookWork, HooksLater
    <2> QED BY <1>1, <2>1, <2>2, <2>3 DEF HooksLater
  <1> QED BY <1>8, <1>9, <1>10, <1>11, <1>12 DEF HookWork

(* A beforeCommit callback returns: its root runs no callback twice. *)
LEMMA HooksBeforeCommit ==
    ASSUME Base, Base', Work, HookWork, [Next]_vars, NEW r \in Frames, BeforeCommitEnds(r)
    PROVE  HookWork'
  <1>1. /\ phase[r] = "finishing" /\ IsRoot(r) /\ snapshot[r] # <<>>
        /\ snapshot' = [snapshot EXCEPT ![r] = Tail(@)]
        /\ ran' = [ran EXCEPT ![Head(snapshot[r])] = @ + 1]
        /\ UNCHANGED <<phase, owner, enclosing, hooks, hooked>>
    BY DEF BeforeCommitEnds, control, Base, Structure, RootPhases
  <1>2. Steady
    BY SteadyStep
  <1>3. enclosing[r] = {r}
    BY <1>1 DEF Base, Nesting, EnclosingIs
  <1>4. PICK h \in Hooks : h = Head(snapshot[r])
    <2>1. snapshot[r] \in Seq(Hooks)
      BY DEF Base, TypeOK
    <2> QED BY <1>1, <2>1, HeadTailProperties
  <1>5. /\ h \in Elems(snapshot[r])
        /\ Elems(snapshot'[r]) = Elems(snapshot[r]) \ {h} /\ Once(snapshot'[r])
        /\ \A q \in Frames \ {r} : snapshot'[q] = snapshot[q]
    <2>1. snapshot[r] \in Seq(Hooks) /\ Once(snapshot[r])
      BY DEF Base, TypeOK, HookWork, HooksSnapshot
    <2>2. snapshot'[r] = Tail(snapshot[r]) /\ \A q \in Frames \ {r} : snapshot'[q] = snapshot[q]
      BY <1>1 DEF Base, TypeOK
    <2> QED BY <1>1, <1>4, <2>1, <2>2, ElemsTail
  <1>6. /\ Entrusted(h, "beforeCommit", r) /\ ran[h] = 0 /\ h[1] \in Frames /\ h[2] \in 1 .. MaxHooks
        /\ h = <<h[1], h[2]>>
        /\ \A d \in enclosing[h[1]] : d = r \/ phase[d] = "resolved"
    BY <1>3, <1>5, SnapshotType DEF HookWork, HooksSnapshot, Base, Entrusted
  <1>7. ran'[h] = 1 /\ \A x \in Hooks : x # h => ran'[x] = ran[x]
    BY <1>1, <1>4, <1>6 DEF Base, TypeOK
  <1>8. HooksOnce'
    BY <1>1 DEF HookWork, HooksOnce, HooksAt
  <1>9. HooksEntrusted'
    <2> SUFFICES ASSUME NEW e \in Frames, NEW k \in Kinds, NEW x \in HooksAt(e, k)
                 PROVE  /\ Entrusted(x, k, e)'
                        /\ HasSavepoint(e) \/ (phase[e] = "compensating" /\ k = "afterRollback")
                        /\ k # "beforeCommit" \/ phase[e] = "running" => ran'[x] = 0
      BY <1>1 DEF HooksEntrusted, HasSavepoint, HooksAt
    <2>1. /\ Entrusted(x, k, e) /\ Opened(e) /\ x[1] \in Frames /\ x \in Hooks
          /\ HasSavepoint(e) \/ (phase[e] = "compensating" /\ k = "afterRollback")
          /\ k # "beforeCommit" \/ phase[e] = "running" => ran[x] = 0
      BY HolderPends, HookType DEF HookWork, HooksEntrusted, Base
    <2>2. Entrusted(x, k, e)'
      BY <1>1, <1>2, <2>1, EntrustedKept DEF HookWork, Entrusted
    <2>3. x = h => k = "beforeCommit" /\ phase[e] # "running"
      BY <1>1, <1>6, <2>1 DEF Entrusted, HasSavepoint
    <2> QED BY <1>7, <2>1, <2>2, <2>3
  <1>10. HooksSnapshot'
    <2> SUFFICES ASSUME NEW q \in Frames
                 PROVE  /\ Once(snapshot'[q])
                        /\ \A x \in Elems(snapshot'[q]) :
                             /\ Entrusted(x, "beforeCommit", q)' /\ phase[q] = "finishing"
                             /\ ran'[x] = 0
      BY <1>1 DEF HooksSnapshot, Once, Elems
    <2>1. Once(snapshot'[q])
      BY <1>5 DEF HookWork, HooksSnapshot
    <2>2. ASSUME NEW x \in Elems(snapshot'[q])
          PROVE  Entrusted(x, "beforeCommit", q)' /\ phase[q] = "finishing" /\ ran'[x] = 0
      <3>1. x \in Elems(snapshot[q]) /\ (q = r => x # h)
        BY <1>5, <2>2
      <3>2. Entrusted(x, "beforeCommit", q) /\ phase[q] = "finishing" /\ ran[x] = 0
            /\ Opened(q) /\ x[1] \in Frames /\ x \in Hooks
        BY <3>1, SnapshotType DEF HookWork, HooksSnapshot, Base, Opened
      <3>3. Entrusted(x, "beforeCommit", q)'
        BY <1>1, <1>2, <3>2, EntrustedKept DEF HookWork, Entrusted
      <3>4. x # h
        BY <1>6, <3>1, <3>2 DEF Entrusted
      <3> QED BY <1>7, <3>2, <3>3, <3>4
    <2> QED BY <2>1, <2>2
  <1>11. HooksSpent'
    <2> SUFFICES ASSUME NEW b \in Frames, NEW n \in DOMAIN hooked[b], NEW k, k = hooked[b][n]
                 PROVE  \/ k # "beforeCommit" /\ \E e \in Frames : <<b, n>> \in HooksAt(e, k)
                        \/ Spent(b, n, k)'
      BY <1>1 DEF HooksSpent, HooksAt, Spent, Kept, Undone, IsRoot
    <2>1. CASE <<b, n>> = h
      <3>1. k = "beforeCommit" /\ \A d \in enclosing[b] : IsRoot(d) \/ phase[d] = "resolved"
        BY <1>1, <1>6, <2>1 DEF Entrusted
      <3> QED BY <1>1, <1>7, <2>1, <3>1 DEF Spent, IsRoot
    <2>2. CASE <<b, n>> # h
      <3>1. <<b, n>> \in Hooks
        BY DEF HookWork, HooksLater, Hooks
      <3>2. ran'[<<b, n>>] = ran[<<b, n>>]
        BY <1>7, <2>2, <3>1
      <3> QED BY <1>2, <3>2, SpentKept DEF HookWork, HooksSpent
    <2> QED BY <2>1, <2>2
  <1>12. HooksLater'
    <2>1. \A b \in Frames : (~ Opened(b)' => hooked'[b] = <<>>) /\ DOMAIN hooked[b] \subseteq 1 .. MaxHooks
      BY <1>1, <1>2 DEF HookWork, HooksLater, Steady
    <2>2. ASSUME NEW b \in Frames, NEW n \in 1 .. MaxHooks, n \notin DOMAIN hooked[b]
          PROVE  ran'[<<b, n>>] = 0
      <3>1. <<b, n>> \in Hooks /\ ran[<<b, n>>] = 0
        BY <2>2 DEF HookWork, HooksLater, Hooks
      <3>2. <<b, n>> # h
        BY <1>6, <2>2 DEF Entrusted
      <3> QED BY <1>7, <3>1, <3>2
    <2> QED BY <1>1, <2>1, <2>2 DEF HooksLater
  <1> QED BY <1>8, <1>9, <1>10, <1>11, <1>12 DEF HookWork

(* An afterRollback callback returns: its frame was undone. *)
LEMMA HooksAfterRollback ==
    ASSUME Base, Base', Work, HookWork, [Next]_vars, NEW f \in Frames, AfterRollbackEnds(f)
    PROVE  HookWork'
  <1>1. /\ phase[f] = "compensating" /\ hooks[f]["afterRollback"] # <<>>
        /\ hooks' = [hooks EXCEPT ![f]["afterRollback"] = Tail(@)]
        /\ ran' = [ran EXCEPT ![Head(hooks[f]["afterRollback"])] = @ + 1]
        /\ UNCHANGED <<phase, owner, enclosing, snapshot, hooked>>
    BY DEF AfterRollbackEnds, control
  <1>2. Steady /\ "afterRollback" \in Kinds
    BY SteadyStep DEF Kinds
  <1>3. /\ \A e \in Frames : \A k \in Kinds : hooks[e][k] \in Seq(Hooks)
        /\ hooks'[f]["afterRollback"] = Tail(hooks[f]["afterRollback"])
        /\ \A e \in Frames : \A k \in Kinds :
             e # f \/ k # "afterRollback" => hooks'[e][k] = hooks[e][k]
    <2>1. hooks \in [Frames -> [Kinds -> Seq(Hooks)]]
      BY DEF Base, TypeOK
    <2>2. hooks'[f] = [hooks[f] EXCEPT !["afterRollback"] = Tail(@)]
          /\ \A e \in Frames : e # f => hooks'[e] = hooks[e]
      BY <1>1, <2>1
    <2> QED BY <1>2, <2>1, <2>2
  <1>4. PICK h \in Hooks : h = Head(hooks[f]["afterRollback"])
    BY <1>1, <1>2, <1>3, HeadTailProperties
  <1>5. /\ h \in HooksAt(f, "afterRollback")
        /\ HooksAt(f, "afterRollback")' = HooksAt(f, "afterRollback") \ {h}
        /\ Once(hooks'[f]["afterRollback"])
    <2>1. hooks[f]["afterRollback"] \in Seq(Hooks) /\ Once(hooks[f]["afterRollback"])
      BY <1>2, <1>3 DEF HookWork, HooksOnce
    <2> QED BY <1>1, <1>3, <1>4, <2>1, ElemsTail DEF HooksAt
  <1>6. \A e \in Frames : \A k \in Kinds :
          e # f \/ k # "afterRollback" => HooksAt(e, k)' = HooksAt(e, k) /\ Once(hooks'[e][k])
    BY <1>3 DEF HooksAt, HookWork, HooksOnce
  <1>7. /\ Entrusted(h, "afterRollback", f) /\ ran[h] = 0
        /\ h[1] \in Frames /\ h[2] \in 1 .. MaxHooks /\ h = <<h[1], h[2]>>
    BY <1>2, <1>5, HookType DEF HookWork, HooksEntrusted, Base
  <1>8. ran'[h] = 1 /\ \A x \in Hooks : x # h => ran'[x] = ran[x]
    BY <1>1, <1>4, <1>7 DEF Base, TypeOK
  <1>9. \A e \in Frames : \A k \in Kinds :
          HooksAt(e, k)' \subseteq HooksAt(e, k) /\ h \notin HooksAt(e, k)'
    <2> SUFFICES ASSUME NEW e \in Frames, NEW k \in Kinds
                 PROVE  HooksAt(e, k)' \subseteq HooksAt(e, k) /\ h \notin HooksAt(e, k)'
      OBVIOUS
    <2>1. CASE e = f /\ k = "afterRollback"
      BY <1>5, <2>1
    <2>2. CASE k # "afterRollback"
      <3>1. h \notin HooksAt(e, k)
        BY <1>7, <2>2 DEF HookWork, HooksEntrusted, Entrusted
      <3> QED BY <1>6, <2>2, <3>1
    <2>3. CASE e # f /\ k = "afterRollback"
      BY <1>2, <1>5, <1>6, <2>3 DEF HookWork, HooksOnce
    <2> QED BY <2>1, <2>2, <2>3
  <1>10. HooksOnce'
    <2>1. \A e \in Frames : \A k \in Kinds : Once(hooks'[e][k])
      BY <1>5, <1>6
    <2>2. \A e, d \in Frames : \A k \in Kinds :
            e # d => HooksAt(e, k)' \cap HooksAt(d, k)' = {}
      BY <1>9 DEF HookWork, HooksOnce
    <2> QED BY <2>1, <2>2 DEF HooksOnce, Once
  <1>11. HooksEntrusted'
    <2> SUFFICES ASSUME NEW e \in Frames, NEW k \in Kinds, NEW x, x \in HooksAt(e, k)'
                 PROVE  /\ Entrusted(x, k, e)'
                        /\ HasSavepoint(e) \/ (phase[e] = "compensating" /\ k = "afterRollback")
                        /\ k # "beforeCommit" \/ phase[e] = "running" => ran'[x] = 0
      BY <1>1 DEF HooksEntrusted, HasSavepoint
    <2>1. x \in HooksAt(e, k) /\ x # h
      BY <1>9
    <2>2. /\ Entrusted(x, k, e) /\ Opened(e) /\ x[1] \in Frames /\ x \in Hooks
          /\ HasSavepoint(e) \/ (phase[e] = "compensating" /\ k = "afterRollback")
          /\ k # "beforeCommit" \/ phase[e] = "running" => ran[x] = 0
      BY <2>1, HolderPends, HookType DEF HookWork, HooksEntrusted, Base
    <2>3. Entrusted(x, k, e)'
      BY <1>1, <1>2, <2>2, EntrustedKept DEF HookWork, Entrusted
    <2> QED BY <1>8, <2>1, <2>2, <2>3
  <1>12. HooksSnapshot'
    <2>0. \A q \in Frames : snapshot'[q] = snapshot[q] /\ Once(snapshot[q])
      BY <1>1 DEF HookWork, HooksSnapshot
    <2> SUFFICES ASSUME NEW q \in Frames, NEW x \in Elems(snapshot[q])
                 PROVE  Entrusted(x, "beforeCommit", q)' /\ phase'[q] = "finishing" /\ ran'[x] = 0
      BY <2>0 DEF HooksSnapshot, Once
    <2>1. Entrusted(x, "beforeCommit", q) /\ phase[q] = "finishing" /\ ran[x] = 0
          /\ Opened(q) /\ x[1] \in Frames /\ x \in Hooks
      BY SnapshotType DEF HookWork, HooksSnapshot, Base, Opened
    <2>2. Entrusted(x, "beforeCommit", q)'
      BY <1>1, <1>2, <2>1, EntrustedKept DEF HookWork, Entrusted
    <2>3. x # h
      BY <1>7, <2>1 DEF Entrusted
    <2> QED BY <1>1, <1>8, <2>1, <2>2, <2>3
  <1>13. HooksSpent'
    <2> SUFFICES ASSUME NEW b \in Frames, NEW n \in DOMAIN hooked[b], NEW k, k = hooked[b][n]
                 PROVE  \/ k # "beforeCommit" /\ \E e \in Frames : <<b, n>> \in HooksAt(e, k)'
                        \/ Spent(b, n, k)'
      BY <1>1 DEF HooksSpent, HooksAt, Spent, Kept, Undone, IsRoot
    <2>1. CASE <<b, n>> = h
      <3>1. k = "afterRollback" /\ f \in enclosing[b]
        BY <1>7, <2>1 DEF Entrusted
      <3>2. Undone(b)'
        BY <1>1, <3>1 DEF Undone
      <3> QED BY <1>8, <2>1, <3>1, <3>2 DEF Spent
    <2>2. CASE <<b, n>> # h
      <3>1. <<b, n>> \in Hooks
        BY DEF HookWork, HooksLater, Hooks
      <3>2. ran'[<<b, n>>] = ran[<<b, n>>]
        BY <1>8, <2>2, <3>1
      <3>3. CASE Spent(b, n, k)
        BY <1>2, <3>2, <3>3, SpentKept DEF HookWork
      <3>4. ASSUME NEW e \in Frames, <<b, n>> \in HooksAt(e, k), k # "beforeCommit"
            PROVE  <<b, n>> \in HooksAt(e, k)'
        <4>1. k \in Kinds
          <5>1. hooked[b] \in Seq(Kinds)
            BY DEF Base, TypeOK
          <5> QED BY <5>1
        <4>2. CASE e = f /\ k = "afterRollback"
          BY <1>5, <2>2, <3>4, <4>2
        <4>3. CASE e # f \/ k # "afterRollback"
          BY <1>6, <3>4, <4>1, <4>3
        <4> QED BY <4>2, <4>3
      <3> QED BY <3>3, <3>4 DEF HookWork, HooksSpent
    <2> QED BY <2>1, <2>2
  <1>14. HooksLater'
    <2>1. \A b \in Frames : (~ Opened(b)' => hooked'[b] = <<>>) /\ DOMAIN hooked[b] \subseteq 1 .. MaxHooks
      BY <1>1, <1>2 DEF HookWork, HooksLater, Steady
    <2>2. ASSUME NEW b \in Frames, NEW n \in 1 .. MaxHooks, n \notin DOMAIN hooked[b]
          PROVE  ran'[<<b, n>>] = 0
      <3>1. <<b, n>> \in Hooks /\ ran[<<b, n>>] = 0
        BY <2>2 DEF HookWork, HooksLater, Hooks
      <3>2. <<b, n>> # h
        BY <1>7, <2>2 DEF Entrusted
      <3> QED BY <1>8, <3>1, <3>2
    <2> QED BY <1>1, <2>1, <2>2 DEF HooksLater
  <1> QED BY <1>10, <1>11, <1>12, <1>13, <1>14 DEF HookWork

LEMMA HooksInitially == Init => HookWork
  <1> SUFFICES ASSUME Init PROVE HookWork
    OBVIOUS
  <1>1. \A e \in Frames : /\ snapshot[e] = <<>> /\ hooked[e] = <<>>
                          /\ \A k \in Kinds : hooks[e][k] = <<>>
    BY DEF Init
  <1>2. HooksOnce /\ HooksEntrusted /\ HooksSnapshot
    BY <1>1, ElemsEmpty DEF HooksOnce, HooksEntrusted, HooksSnapshot, HooksAt
  <1>3. HooksSpent
    BY <1>1 DEF HooksSpent
  <1>4. HooksLater
    BY <1>1 DEF Init, HooksLater, Hooks
  <1> QED BY <1>2, <1>3, <1>4 DEF HookWork

LEMMA HooksStep == Base /\ Base' /\ Work /\ HookWork /\ [Next]_vars => HookWork'
  <1> SUFFICES ASSUME Base, Base', Work, HookWork, [Next]_vars PROVE HookWork'
    OBVIOUS
  <1>1. CASE UNCHANGED vars \/ Begin
    BY <1>1, HooksQuiet, FramesAssumption
  <1>2. ASSUME NEW f \in Frames, NEW g \in Frames, CallNested(f, g) \/ CallRequiresNew(f, g)
        PROVE  HookWork'
    BY <1>2, HooksQuiet
  <1>3. ASSUME NEW f \in Frames,
               \/ Open(f) \/ OpenFails(f) \/ Reject(f) \/ SettleRejected(f)
               \/ Finish(f) \/ FinishFails(f) \/ Write(f) \/ StatementFails(f)
        PROVE  HookWork'
    BY <1>3, HooksQuiet
  <1>4. ASSUME NEW f \in Frames, Resolve(f) PROVE HookWork'
    BY <1>4, HooksPromoted
  <1>5. ASSUME NEW f \in Frames, RollbackTo(f) \/ Rollback(f) PROVE HookWork'
    BY <1>5, HooksRolledBack
  <1>6. ASSUME NEW f \in Frames, Commit(f) PROVE HookWork'
    BY <1>6, HooksCommitted
  <1>7. ASSUME NEW f \in Frames, BeforeCommitEnds(f) PROVE HookWork'
    BY <1>7, HooksBeforeCommit
  <1>8. ASSUME NEW f \in Frames, AfterRollbackEnds(f) PROVE HookWork'
    BY <1>8, HooksAfterRollback
  <1>9. ASSUME NEW f \in Frames, NEW k \in HookKinds, Register(f, k) PROVE HookWork'
    BY <1>9, HooksRegistered
  <1> QED BY <1>1, <1>2, <1>3, <1>4, <1>5, <1>6, <1>7, <1>8, <1>9 DEF Next, Step, Terminated

(* A hook has the fate of the work of the frame it was registered in, and    *)
(* runs at most once: afterCommit hooks if the frame and all around it       *)
(* resolved, afterRollback hooks if one of them did not, by the time the     *)
(* root has settled (runner.ts, promoteFrameHooks and the hook passes), as   *)
(* long as user code awaits the calls it makes.                              *)
THEOREM HooksAlwaysFollowWork ==
    ASSUME ~ FailFast
    PROVE  Spec => []HooksFollowWork
  BY HooksInitially, HooksStep, HooksFollow, WorkAlways, PTL DEF Spec

-----------------------------------------------------------------------------
(* Frames on one connection implement transactions of their own *)

(* The abstract state of a frame. *)
ParentOf(f)  == IF phase[f] \in {"idle", "queued"} THEN NoFrame ELSE owner[f]
OutcomeOf(f) == CASE phase[f] \in {"idle", "queued"} -> "unopened"
                  [] HasSavepoint(f) -> "open"
                  [] phase[f] = "resolved" -> "resolved"
                  [] OTHER -> "rejected"
HeldBy(f)    == IF HasSavepoint(f) THEN WorkOf(f) ELSE {}

LEMMA OutcomeIs ==
    ASSUME TypeOK, NEW f \in Frames
    PROVE  /\ phase[f] \in {"idle", "queued"} => OutcomeOf(f) = "unopened"
           /\ phase[f] \in {"running", "finishing", "unwinding"} => OutcomeOf(f) = "open"
           /\ phase[f] = "resolved" => OutcomeOf(f) = "resolved"
           /\ phase[f] \in {"compensating", "rejected"} => OutcomeOf(f) = "rejected"
           /\ HasSavepoint(f) <=> OutcomeOf(f) = "open"
           /\ OutcomeOf(f) = "unopened" => ~ Opened(f)
  BY DEF TypeOK, Phases, OutcomeOf, HasSavepoint, Opened

(* Where the work of an open frame starts in the log, and in which order.    *)
LEMMA StartMarked ==
    ASSUME Base, Work, NEW g \in Frames, HasSavepoint(g), ~ IsRoot(g)
    PROVE  StartOf(g) \in 1 .. Len(log[Conn(g)]) /\ MarkedAt(g, StartOf(g))
  <1>1. PICK p \in 1 .. Len(log[Conn(g)]) : MarkedAt(g, p)
    BY DEF Work, LogMarked
  <1>2. log[Conn(g)] \in Seq(Entries)
    BY DEF Base, Chains, TypeOK
  <1>3. StartOf(g) = p
    BY <1>1, <1>2 DEF StartOf, MarkedAt
  <1> QED BY <1>1, <1>3

LEMMA StartType ==
    ASSUME Base, Work, NEW g \in Frames, HasSavepoint(g)
    PROVE  StartOf(g) \in Nat /\ StartOf(g) <= Len(log[Conn(g)]) /\ Len(log[Conn(g)]) \in Nat
  <1>1. Len(log[Conn(g)]) \in Nat
    BY DEF Base, Chains, TypeOK
  <1>2. CASE IsRoot(g)
    BY <1>1, <1>2 DEF StartOf
  <1>3. CASE ~ IsRoot(g)
    BY <1>1, <1>3, StartMarked
  <1> QED BY <1>2, <1>3

LEMMA StartOrder ==
    ASSUME Base, Work, NEW f \in Frames, NEW g \in Frames,
           HasSavepoint(f), HasSavepoint(g), f \in enclosing[g], f # g
    PROVE  Conn(f) = Conn(g) /\ StartOf(f) < StartOf(g)
  <1>1. Conn(f) = Conn(g)
    BY DEF Base, Chains
  <1>2. ~ IsRoot(g)
    BY DEF Base, Nesting, EnclosingIs
  <1>3. StartOf(g) \in 1 .. Len(log[Conn(g)]) /\ MarkedAt(g, StartOf(g))
    BY <1>2, StartMarked
  <1>4. log[Conn(g)][StartOf(g)] = SavepointOf(g)
    BY <1>3 DEF MarkedAt
  <1>5. CASE IsRoot(f)
    BY <1>1, <1>3, <1>5 DEF StartOf
  <1>6. CASE ~ IsRoot(f)
    <2>1. StartOf(f) \in 1 .. Len(log[Conn(f)]) /\ MarkedAt(f, StartOf(f))
      BY <1>6, StartMarked
    <2>2. StartOf(g) # StartOf(f)
      BY <1>1, <1>3, <1>4, <2>1, EntryKinds DEF MarkedAt
    <2>3. ~ (StartOf(g) < StartOf(f))
      BY <1>1, <1>3, <1>4, <2>1, EntryKinds DEF MarkedAt
    <2> QED BY <1>1, <1>3, <2>1, <2>2, <2>3
  <1> QED BY <1>1, <1>5, <1>6

(* Of two frames around each other, both are the same.                       *)
LEMMA AroundEachOther ==
    ASSUME Base, NEW c \in Frames, NEW e \in enclosing[c], c \in enclosing[e]
    PROVE  c = e
  <1> USE DEF Base
  <1> DEFINE S == {x \in Frames : \E d \in enclosing[x] \ {x} : x \in enclosing[d]}
  <1> SUFFICES ASSUME S # {} PROVE FALSE
    OBVIOUS
  <1>1. PICK x \in S : owner[x] \notin S
    BY DEF Nesting, WellFounded
  <1>2. PICK d \in enclosing[x] \ {x} : x \in enclosing[d]
    BY <1>1
  <1>3. ~ IsRoot(x) /\ owner[x] \in Frames /\ d \in enclosing[owner[x]]
    BY <1>1, <1>2 DEF Nesting, EnclosingIs, IsRoot, TypeOK
  <1>4. x \in enclosing[owner[x]] /\ owner[x] \in enclosing[x] /\ owner[x] # x
    BY <1>1, <1>2, <1>3, EnclosingTransitive DEF Structure, ChainOK
  <1> QED BY <1>1, <1>3, <1>4

(* A write is borne by the innermost frame around it that is open. *)
Bears(f, c) ==
    /\ f \in enclosing[c]
    /\ \A g \in enclosing[c] \ {f} : HasSavepoint(g) => f \notin enclosing[g]

(* The work of an open frame, told without the order of the log: as long as  *)
(* no write went astray, the SAVEPOINTs cut the log as the frames enclose    *)
(* one another.                                                              *)
LEMMA WorkIs ==
    ASSUME Base, Work, astray = {}, NEW f \in Frames, HasSavepoint(f)
    PROVE  WorkOf(f) = {w \in WritesIn(log[Conn(f)]) : Bears(f, w.frame)}
  <1> PICK r \in Frames : r = Conn(f)
    BY DEF Base, Chains, TypeOK
  <1>1. DOMAIN log[r] = 1 .. Len(log[r]) /\ Len(log[r]) \in Nat
    BY DEF Base, Chains, TypeOK
  <1>2. ASSUME NEW i \in 1 .. Len(log[r]), log[r][i] \in Writes,
               NEW g \in Frames, HasSavepoint(g), Conn(g) = r
        PROVE  /\ StartOf(g) < i <=> g \in enclosing[log[r][i].frame]
               /\ i < StartOf(g) <=> g \notin enclosing[log[r][i].frame]
    <2>1. CASE IsRoot(g)
      <3>1. StartOf(g) = 0
        BY <2>1 DEF StartOf
      <3>2. g = r
        BY <1>2, <2>1 DEF Base, Chains, Structure, ChainOK
      <3>3. Conn(log[r][i].frame) = r /\ log[r][i].frame \in Frames
        BY EntryFrame DEF Work, LogSent, Base
      <3>4. r \in enclosing[log[r][i].frame]
        BY <3>3 DEF Base, Chains
      <3> QED BY <1>1, <3>1, <3>2, <3>4
    <2>2. CASE ~ IsRoot(g)
      <3>1. StartOf(g) \in 1 .. Len(log[r]) /\ MarkedAt(g, StartOf(g))
        BY <1>2, <2>2, StartMarked
      <3>2. log[r][StartOf(g)] = SavepointOf(g)
        BY <1>2, <3>1 DEF MarkedAt
      <3>3. i # StartOf(g)
        BY <1>2, <3>2, EntryKinds
      <3>4. /\ StartOf(g) < i => g \in enclosing[log[r][i].frame]
            /\ i < StartOf(g) => g \notin enclosing[log[r][i].frame]
        BY <1>2, <3>1 DEF MarkedAt
      <3> QED BY <1>1, <3>1, <3>3, <3>4
    <2> QED BY <2>1, <2>2
  <1>3. ASSUME NEW g \in Frames \ {f}, HasSavepoint(g), Conn(g) = r
        PROVE  StartOf(f) < StartOf(g) <=> f \in enclosing[g]
    <2>1. f \in enclosing[g] \/ g \in enclosing[f]
      BY <1>3 DEF Base, Chains, SavepointsNest
    <2>2. CASE f \in enclosing[g]
      BY <1>3, <2>2, StartOrder
    <2>3. CASE f \notin enclosing[g]
      <3>1. StartOf(g) < StartOf(f)
        BY <1>3, <2>1, <2>3, StartOrder
      <3> QED BY <1>3, <2>3, <3>1, StartType
    <2> QED BY <2>2, <2>3
  <1> DEFINE Mine(j) == /\ log[r][j] \in Writes
                        /\ StartOf(f) < j
                        /\ \A g \in Frames \ {f} :
                             HasSavepoint(g) /\ Conn(g) = r /\ StartOf(f) < StartOf(g)
                               => j < StartOf(g)
  <1>4. ASSUME NEW j \in 1 .. Len(log[r]), log[r][j] \in Writes
        PROVE  Mine(j) <=> Bears(f, log[r][j].frame)
    <2> PICK c \in Frames : c = log[r][j].frame
      BY EntryFrame DEF Base
    <2>1. Conn(c) = r
      BY DEF Work, LogSent
    <2>2. \A g \in enclosing[c] : g \in Frames /\ Conn(g) = r
      BY <2>1 DEF Base, Chains, TypeOK
    <2>3. (StartOf(f) < j) <=> f \in enclosing[c]
      BY <1>2, <1>4
    <2>4. ASSUME NEW g \in Frames \ {f}, HasSavepoint(g), Conn(g) = r
          PROVE  (StartOf(f) < StartOf(g) => j < StartOf(g)) <=>
                   (f \in enclosing[g] => g \notin enclosing[c])
      BY <1>2, <1>3, <1>4, <2>4
    <2> QED BY <1>4, <2>2, <2>3, <2>4 DEF Bears
  <1>5. WorkOf(f) = {log[r][i] : i \in {j \in 1 .. Len(log[r]) : Mine(j)}}
    BY <1>1 DEF WorkOf
  <1>6. WritesIn(log[r]) = {log[r][i] : i \in 1 .. Len(log[r])} \cap Writes
    BY <1>1 DEF WritesIn
  <1> HIDE DEF Mine
  <1>7. \A j \in 1 .. Len(log[r]) : Mine(j) => log[r][j] \in Writes
    BY DEF Mine
  <1> QED BY <1>4, <1>5, <1>6, <1>7

(* The abstract actions, frame by frame. *)
SameAs(f) == ParentOf(f)' = ParentOf(f) /\ OutcomeOf(f)' = OutcomeOf(f) /\ HeldBy(f)' = HeldBy(f)

LEMMA AbstractState ==
    /\ Nested!absVars = << [f \in Frames |-> ParentOf(f)], [f \in Frames |-> OutcomeOf(f)],
                           [f \in Frames |-> HeldBy(f)], durable >>
    /\ \A f \in Frames : Nested!OpenRoot(f) => Nested!Next
    /\ \A f, g \in Frames : Nested!OpenNested(f, g) => Nested!Next
    /\ \A f \in Frames : \A w \in Writes : Nested!Do(f, w) => Nested!Next
    /\ \A f \in Frames : Nested!Refuse(f) \/ Nested!Resolve(f) \/ Nested!Reject(f)
                           \/ Nested!Commit(f) => Nested!Next
  <1>1. Nested!absVars = << [f \in Frames |-> ParentOf(f)], [f \in Frames |-> OutcomeOf(f)],
                            [f \in Frames |-> HeldBy(f)], durable >>
    BY DEF Nested!absVars, ParentOf, OutcomeOf, HeldBy
  <1> QED BY <1>1 DEF Nested!Next

LEMMA AbstractStutter ==
    ASSUME \A f \in Frames : SameAs(f), durable' = durable
    PROVE  UNCHANGED Nested!absVars
  BY DEF Nested!absVars, ParentOf, OutcomeOf, HeldBy, SameAs

LEMMA AbstractOpenRoot ==
    ASSUME NEW g \in Frames, OutcomeOf(g) = "unopened", OutcomeOf(g)' = "open",
           ParentOf(g)' = ParentOf(g), HeldBy(g)' = HeldBy(g),
           \A f \in Frames \ {g} : SameAs(f), durable' = durable
    PROVE  Nested!Next
  <1>1. Nested!OpenRoot(g)
    BY DEF Nested!OpenRoot, ParentOf, OutcomeOf, HeldBy, SameAs
  <1> QED BY <1>1, AbstractState

LEMMA AbstractOpenNested ==
    ASSUME NEW f \in Frames, NEW g \in Frames,
           OutcomeOf(f) = "open", OutcomeOf(g) = "unopened", OutcomeOf(g)' = "open",
           \A h \in Frames : ~ (OutcomeOf(h) = "open" /\ ParentOf(h) = f),
           ParentOf(g)' = f, HeldBy(g)' = HeldBy(g),
           \A h \in Frames \ {g} : SameAs(h), durable' = durable
    PROVE  Nested!Next
  <1> DEFINE Parents  == [h \in Frames |-> ParentOf(h)]
             Outcomes == [h \in Frames |-> OutcomeOf(h)]
  <1>1. Outcomes' = [Outcomes EXCEPT ![g] = "open"] /\ Parents' = [Parents EXCEPT ![g] = f]
    BY DEF SameAs
  <1>2. ~ \E h \in Frames : Outcomes[h] = "open" /\ Parents[h] = f
    OBVIOUS
  <1>3. [h \in Frames |-> HeldBy(h)]' = [h \in Frames |-> HeldBy(h)]
    BY DEF SameAs
  <1>4. Nested!OpenNested(f, g)
    BY <1>1, <1>2, <1>3 DEF Nested!OpenNested, ParentOf, OutcomeOf, HeldBy
  <1> QED BY <1>4, AbstractState

LEMMA AbstractRefuse ==
    ASSUME NEW g \in Frames, OutcomeOf(g) = "unopened", OutcomeOf(g)' = "rejected",
           ParentOf(g)' \in Frames, HeldBy(g)' = HeldBy(g),
           \A h \in Frames \ {g} : SameAs(h), durable' = durable
    PROVE  Nested!Next
  <1>1. Nested!Refuse(g)
    BY DEF Nested!Refuse, ParentOf, OutcomeOf, HeldBy, SameAs
  <1> QED BY <1>1, AbstractState

LEMMA AbstractDo ==
    ASSUME NEW f \in Frames, NEW w \in Writes, OutcomeOf(f) = "open",
           \A h \in Frames : w \notin HeldBy(h), w \notin durable,
           \A h \in Frames : ParentOf(h)' = ParentOf(h) /\ OutcomeOf(h)' = OutcomeOf(h),
           HeldBy(f)' = HeldBy(f) \cup {w},
           \A h \in Frames \ {f} : HeldBy(h)' = HeldBy(h), durable' = durable
    PROVE  Nested!Next
  <1> DEFINE Held == [h \in Frames |-> HeldBy(h)]
  <1>1. Held' = [Held EXCEPT ![f] = @ \cup {w}]
    OBVIOUS
  <1>2. /\ [h \in Frames |-> ParentOf(h)]' = [h \in Frames |-> ParentOf(h)]
        /\ [h \in Frames |-> OutcomeOf(h)]' = [h \in Frames |-> OutcomeOf(h)]
    OBVIOUS
  <1>3. Nested!Do(f, w)
    BY <1>1, <1>2 DEF Nested!Do, ParentOf, OutcomeOf, HeldBy
  <1> QED BY <1>3, AbstractState

LEMMA AbstractResolve ==
    ASSUME NEW f \in Frames, NEW g \in Frames, f # g, ParentOf(g) = f,
           OutcomeOf(g) = "open", OutcomeOf(g)' = "resolved",
           \A h \in Frames : ParentOf(h) = g => OutcomeOf(h) # "open",
           \A h \in Frames \ {g} : OutcomeOf(h)' = OutcomeOf(h),
           \A h \in Frames : ParentOf(h)' = ParentOf(h),
           HeldBy(g)' = {}, HeldBy(f)' = HeldBy(f) \cup HeldBy(g),
           \A h \in Frames \ {f, g} : HeldBy(h)' = HeldBy(h), durable' = durable
    PROVE  Nested!Next
  <1> DEFINE Parents  == [h \in Frames |-> ParentOf(h)]
             Outcomes == [h \in Frames |-> OutcomeOf(h)]
             Held     == [h \in Frames |-> HeldBy(h)]
  <1>1. Held' = [Held EXCEPT ![g] = {}, ![Parents[g]] = @ \cup Held[g]]
    OBVIOUS
  <1>2. Outcomes' = [Outcomes EXCEPT ![g] = "resolved"] /\ Parents' = Parents
    OBVIOUS
  <1>3. \A h \in Frames : Parents[h] = g => Outcomes[h] # "open"
    OBVIOUS
  <1>4. Parents[g] # NoFrame
    BY FramesAssumption
  <1>5. Nested!Resolve(g)
    BY <1>1, <1>2, <1>3, <1>4
    DEF Nested!Resolve, Nested!NoneOpenInside, ParentOf, OutcomeOf, HeldBy
  <1> QED BY <1>5, AbstractState

LEMMA AbstractReject ==
    ASSUME NEW g \in Frames, OutcomeOf(g) = "open", OutcomeOf(g)' = "rejected",
           \A h \in Frames : ParentOf(h) = g => OutcomeOf(h) # "open",
           ParentOf(g)' = ParentOf(g), HeldBy(g)' = {},
           \A h \in Frames \ {g} : SameAs(h), durable' = durable
    PROVE  Nested!Next
  <1>1. Nested!Reject(g)
    BY DEF Nested!Reject, Nested!NoneOpenInside, ParentOf, OutcomeOf, HeldBy, SameAs
  <1> QED BY <1>1, AbstractState

LEMMA AbstractCommit ==
    ASSUME NEW r \in Frames, OutcomeOf(r) = "open", OutcomeOf(r)' = "resolved",
           \A h \in Frames : ParentOf(h) = r => OutcomeOf(h) # "open",
           ParentOf(r) = NoFrame, ParentOf(r)' = ParentOf(r), HeldBy(r)' = {},
           \A h \in Frames \ {r} : SameAs(h), durable' = durable \cup HeldBy(r)
    PROVE  Nested!Next
  <1>1. Nested!Commit(r)
    BY DEF Nested!Commit, Nested!NoneOpenInside, ParentOf, OutcomeOf, HeldBy, SameAs
  <1> QED BY <1>1, AbstractState

(* What the log says of each frame, in one state. *)
BorneBy(f) == {w \in WritesIn(log[Conn(f)]) : Bears(f, w.frame)}
Borne == \A f \in Frames : HeldBy(f) = IF HasSavepoint(f) THEN BorneBy(f) ELSE {}

LEMMA BorneHolds == Base /\ Work /\ astray = {} => Borne
  BY WorkIs DEF HeldBy, Borne, BorneBy

LEMMA WriteSent ==
    ASSUME Base, Work, NEW r \in Frames, NEW w \in WritesIn(log[r])
    PROVE  /\ w \in Writes /\ w.frame \in Frames /\ Conn(w.frame) = r
           /\ Opened(w.frame) /\ w.n <= writes[w.frame]
           /\ InTransaction(r)
  <1>1. log[r] \in Seq(Entries)
    BY DEF Base, TypeOK
  <1>2. PICK i \in 1 .. Len(log[r]) : w = log[r][i] /\ w \in Writes
    BY <1>1 DEF WritesIn
  <1>3. w.frame \in Frames
    BY <1>2, EntryFrame DEF Base
  <1> QED BY <1>2, <1>3 DEF Work, LogSent

(* A step after which the same writes are borne by the same frames. *)
LEMMA HeldKept ==
    ASSUME Base, Work, Borne, Borne', NEW f \in Frames, Conn(f)' = Conn(f),
           HasSavepoint(f)' <=> HasSavepoint(f),
           WritesIn(log'[Conn(f)]) = WritesIn(log[Conn(f)]),
           \A c \in Frames : Opened(c) /\ Conn(c) = Conn(f) => (Bears(f, c)' <=> Bears(f, c))
    PROVE  HeldBy(f)' = HeldBy(f)
  <1>1. Conn(f) \in Frames
    BY DEF Base, Chains, TypeOK
  <1>2. \A w \in WritesIn(log[Conn(f)]) : Bears(f, w.frame)' <=> Bears(f, w.frame)
    BY <1>1, WriteSent
  <1>3. BorneBy(f)' = {w \in WritesIn(log'[Conn(f)]) : Bears(f, w.frame)'}
    BY DEF BorneBy, WritesIn
  <1>4. BorneBy(f)' = BorneBy(f)
    BY <1>2, <1>3 DEF BorneBy
  <1> QED BY <1>4 DEF Borne

LEMMA ConnAsBefore ==
    ASSUME UNCHANGED <<owner, enclosing>>
    PROVE  \A f : Conn(f)' = Conn(f)
  BY DEF Conn, IsRoot

(* A step that is nothing to the abstract state. *)
LEMMA NothingHeldMoves ==
    ASSUME Base, Work, Borne, Borne', UNCHANGED <<owner, enclosing, log, durable>>,
           \A f \in Frames : OutcomeOf(f)' = OutcomeOf(f) /\ ParentOf(f)' = ParentOf(f),
           \A f \in Frames : HasSavepoint(f)' <=> HasSavepoint(f)
    PROVE  UNCHANGED Nested!absVars
  <1>1. ASSUME NEW f \in Frames PROVE HeldBy(f)' = HeldBy(f)
    <2>1. Conn(f)' = Conn(f)
      BY ConnAsBefore
    <2>2. \A c \in Frames : Bears(f, c)' <=> Bears(f, c)
      BY DEF Base, TypeOK, Bears
    <2> QED BY <2>1, <2>2, HeldKept
  <1> QED BY <1>1, AbstractStutter DEF SameAs

LEMMA QuietIsStutter ==
    ASSUME Base, Work, Borne, Base', Borne', NEW f \in Frames,
           \/ Reject(f) \/ SettleRejected(f) \/ Finish(f) \/ FinishFails(f)
           \/ StatementFails(f) \/ BeforeCommitEnds(f) \/ AfterRollbackEnds(f)
           \/ \E k \in HookKinds : Register(f, k)
           \/ UNCHANGED vars
    PROVE  UNCHANGED Nested!absVars
  <1>1. UNCHANGED <<owner, enclosing, log, durable>>
    BY DEF Reject, SettleRejected, Finish, FinishFails, StatementFails, BeforeCommitEnds,
           AfterRollbackEnds, Register, vars, control, queues, data
  <1>2. \/ phase' = phase
        \/ /\ phase[f] \in {"running", "finishing"}
           /\ \/ phase' = [phase EXCEPT ![f] = "finishing"]
              \/ phase' = [phase EXCEPT ![f] = "unwinding"]
        \/ phase[f] = "compensating" /\ phase' = [phase EXCEPT ![f] = "rejected"]
    BY DEF Reject, SettleRejected, Finish, FinishFails, StatementFails, BeforeCommitEnds,
           AfterRollbackEnds, Register, vars, control
  <1>3. ASSUME NEW g \in Frames
        PROVE  /\ OutcomeOf(g)' = OutcomeOf(g) /\ ParentOf(g)' = ParentOf(g)
               /\ HasSavepoint(g)' <=> HasSavepoint(g)
    BY <1>1, <1>2, ZenonT(60) DEF Base, TypeOK, OutcomeOf, ParentOf, HasSavepoint
  <1> QED BY <1>1, <1>3, NothingHeldMoves

LEMMA CallNestedIsStutter ==
    ASSUME Base, Work, Borne, Base', Borne', NEW f \in Frames, NEW g \in Frames,
           CallNested(f, g)
    PROVE  UNCHANGED Nested!absVars
  <1>1. /\ phase[g] = "idle" /\ phase' = [phase EXCEPT ![g] = "queued"]
        /\ UNCHANGED <<log, durable>>
        /\ \A h \in Frames \ {g} : owner'[h] = owner[h] /\ enclosing'[h] = enclosing[h]
    BY DEF CallNested, data, Base, TypeOK
  <1>2. ASSUME NEW h \in Frames \ {g}
        PROVE  g \notin enclosing[h] /\ Conn(h)' = Conn(h)
    <2>1. g \notin enclosing[h]
      BY <1>1 DEF Base, Structure, ChainOK
    <2>2. enclosing'[h] = enclosing[h] /\ \A e \in enclosing[h] : owner'[e] = owner[e]
      BY <1>1, <2>1 DEF Base, TypeOK
    <2> QED BY <2>1, <2>2, ConnKept
  <1>3. ASSUME NEW h \in Frames
        PROVE  /\ OutcomeOf(h)' = OutcomeOf(h) /\ ParentOf(h)' = ParentOf(h)
               /\ HasSavepoint(h)' <=> HasSavepoint(h)
    BY <1>1 DEF Base, TypeOK, OutcomeOf, ParentOf, HasSavepoint
  <1>4. ASSUME NEW h \in Frames PROVE HeldBy(h)' = HeldBy(h)
    <2>1. CASE h = g
      BY <1>1, <1>3, <2>1 DEF HeldBy, HasSavepoint
    <2>2. CASE h # g
      <3>1. ASSUME NEW c \in Frames, Opened(c) PROVE Bears(h, c)' <=> Bears(h, c)
        <4>1. c # g /\ enclosing'[c] = enclosing[c] /\ g \notin enclosing[c]
          BY <1>1, <1>2, <3>1 DEF Opened
        <4>2. \A e \in enclosing[c] : enclosing'[e] = enclosing[e]
                                      /\ (HasSavepoint(e)' <=> HasSavepoint(e))
          BY <1>1, <1>3, <4>1 DEF Base, TypeOK
        <4> QED BY <4>1, <4>2 DEF Bears
      <3>2. Conn(h)' = Conn(h) /\ WritesIn(log'[Conn(h)]) = WritesIn(log[Conn(h)])
        BY <1>1, <1>2, <2>2
      <3> QED BY <1>3, <3>1, <3>2, HeldKept
    <2> QED BY <2>1, <2>2
  <1> QED BY <1>1, <1>3, <1>4, AbstractStutter DEF SameAs

(* BEGIN on a connection nothing was sent on. *)
LEMMA BeginOpensRoot ==
    ASSUME Base, Work, Borne, Base', Borne', NEW g \in Frames, phase[g] = "idle",
           phase' = [phase EXCEPT ![g] = "running"],
           UNCHANGED <<owner, enclosing, log, durable>>
    PROVE  Nested!Next
  <1>1. IsRoot(g) /\ enclosing[g] = {g}
    BY DEF Base, Structure, ChainOK, Nesting, EnclosingIs
  <1>2. Conn(g) = g /\ \A f \in Frames : Conn(f)' = Conn(f)
    BY <1>1, ConnAsBefore DEF Base, Chains
  <1>3. \A f \in Frames \ {g} : /\ OutcomeOf(f)' = OutcomeOf(f) /\ ParentOf(f)' = ParentOf(f)
                                /\ HasSavepoint(f)' <=> HasSavepoint(f)
    BY DEF Base, TypeOK, OutcomeOf, ParentOf, HasSavepoint
  <1>4. ASSUME NEW f \in Frames \ {g} PROVE HeldBy(f)' = HeldBy(f)
    <2>1. ASSUME NEW c \in Frames, Opened(c) PROVE Bears(f, c)' <=> Bears(f, c)
      <3>1. g \notin enclosing[c]
        BY <2>1 DEF Opened, Base, Structure, ChainOK
      <3>2. \A e \in enclosing[c] : HasSavepoint(e)' <=> HasSavepoint(e)
        BY <1>3, <3>1 DEF Base, TypeOK
      <3> QED BY <3>2 DEF Bears
    <2> QED BY <1>2, <1>3, <2>1, HeldKept
  <1>5. WritesIn(log[g]) = {}
    BY WriteSent DEF InTransaction
  <1>6. HeldBy(g)' = {} /\ HeldBy(g) = {}
    <2>1. BorneBy(g)' = {}
      BY <1>2, <1>5 DEF BorneBy, WritesIn
    <2> QED BY <2>1 DEF Borne, HeldBy, HasSavepoint
  <1>7. OutcomeOf(g) = "unopened" /\ OutcomeOf(g)' = "open"
    BY DEF OutcomeOf, HasSavepoint, Base, TypeOK
  <1>8. ParentOf(g)' = ParentOf(g)
    BY <1>1 DEF ParentOf, IsRoot
  <1> QED BY <1>3, <1>4, <1>6, <1>7, <1>8, AbstractOpenRoot DEF SameAs

(* SAVEPOINT: nothing was written in the frame yet, and its parent has no    *)
(* other call that is open.                                                  *)
LEMMA SavepointOpensNested ==
    ASSUME Base, Work, Borne, Base', Borne', NEW g \in Frames, Open(g)
    PROVE  Nested!Next
  <1> PICK o \in Frames : o = owner[g]
    BY DEF Open, Base, Structure, RootPhases, ChainOK, TypeOK, IsRoot
  <1> PICK r \in Frames : r = Conn(g)
    BY DEF Base, Chains, TypeOK
  <1>1. /\ phase[g] = "queued" /\ phase' = [phase EXCEPT ![g] = "running"]
        /\ log' = [log EXCEPT ![r] = Append(@, SavepointOf(g))]
        /\ UNCHANGED <<owner, enclosing, durable>>
    BY DEF Open
  <1>2. \A f \in Frames : Conn(f)' = Conn(f)
    BY <1>1, ConnAsBefore
  <1>3. ~ IsRoot(g) /\ Pending(g) /\ o # g /\ enclosing[g] = {g} \cup enclosing[o]
    BY <1>1 DEF Base, Structure, RootPhases, ChainOK, Nesting, EnclosingIs, Pending
  <1>4. phase[o] \in {"running", "finishing"}
    BY <1>3, OwnerRuns DEF Base
  <1>5. \A f \in Frames \ {g} : /\ OutcomeOf(f)' = OutcomeOf(f) /\ ParentOf(f)' = ParentOf(f)
                                /\ HasSavepoint(f)' <=> HasSavepoint(f)
    BY <1>1 DEF Base, TypeOK, OutcomeOf, ParentOf, HasSavepoint
  <1>6. \A f \in Frames : WritesIn(log'[f]) = WritesIn(log[f])
    <2>1. ASSUME NEW s \in Seq(Entries) PROVE WritesIn(Append(s, SavepointOf(g))) = WritesIn(s)
      BY EntryKinds DEF WritesIn
    <2>2. log' \in [Frames -> Seq(Entries)] /\ log \in [Frames -> Seq(Entries)]
      BY DEF Base, TypeOK
    <2> QED BY <1>1, <2>1, <2>2
  <1>7. \A c \in Frames : Opened(c) => g \notin enclosing[c]
    <2> SUFFICES ASSUME NEW c \in Frames, Opened(c), g \in enclosing[c] PROVE FALSE
      OBVIOUS
    <2>1. c # g
      BY <1>1 DEF Opened
    <2> QED BY <1>1, <2>1 DEF Work, Unopened, Opened
  <1>8. ASSUME NEW f \in Frames \ {g} PROVE HeldBy(f)' = HeldBy(f)
    <2>1. ASSUME NEW c \in Frames, Opened(c) PROVE Bears(f, c)' <=> Bears(f, c)
      <3>1. \A e \in enclosing[c] : HasSavepoint(e)' <=> HasSavepoint(e)
        BY <1>5, <1>7, <2>1 DEF Base, TypeOK
      <3> QED BY <1>1, <3>1 DEF Bears
    <2>2. WritesIn(log'[Conn(f)]) = WritesIn(log[Conn(f)])
      BY <1>6 DEF Base, Chains, TypeOK
    <2> QED BY <1>2, <1>5, <2>1, <2>2, HeldKept
  <1>9. HeldBy(g) = {} /\ HeldBy(g)' = {}
    <2>1. \A w \in WritesIn(log[r]) : g \notin enclosing[w.frame]
      BY <1>7, WriteSent
    <2>2. BorneBy(g)' = {w \in WritesIn(log'[r]) : Bears(g, w.frame)'}
      BY <1>2 DEF BorneBy, WritesIn
    <2>3. BorneBy(g)' = {}
      BY <1>1, <1>6, <2>1, <2>2 DEF Bears
    <2> QED BY <1>1, <2>3 DEF Borne, HeldBy, HasSavepoint
  <1>10. ASSUME NEW h \in Frames, OutcomeOf(h) = "open", ParentOf(h) = o PROVE FALSE
    <2>1. h # g /\ HasSavepoint(h) /\ owner[h] = o /\ ~ IsRoot(h)
      BY <1>1, <1>10, FramesAssumption DEF OutcomeOf, ParentOf, IsRoot, HasSavepoint
    <2>2. HasSavepoint(h)' /\ HasSavepoint(g)'
      BY <1>1, <1>5, <2>1 DEF HasSavepoint, Base, TypeOK
    <2>3. Conn(h) = Conn(g)
      BY <1>3, <2>1, ConnOfOwner DEF Base
    <2>4. enclosing[h] = {h} \cup enclosing[o] /\ o \in enclosing[h] /\ o # h
      BY <2>1 DEF Base, Structure, ChainOK, Nesting, EnclosingIs
    <2>5. h \in enclosing[g] \/ g \in enclosing[h]
      BY <1>1, <1>2, <2>2, <2>3 DEF Base, Chains, SavepointsNest
    <2>6. o \in enclosing[g]
      BY <1>3 DEF Base, Structure, ChainOK
    <2>7. CASE h \in enclosing[g]
      BY <1>3, <2>1, <2>4, <2>7, AroundEachOther
    <2>8. CASE g \in enclosing[h]
      BY <1>3, <2>1, <2>4, <2>6, <2>8, AroundEachOther
    <2> QED BY <2>5, <2>7, <2>8
  <1>11. OutcomeOf(o) = "open" /\ OutcomeOf(g) = "unopened" /\ OutcomeOf(g)' = "open"
    BY <1>1, <1>4 DEF OutcomeOf, HasSavepoint, Base, TypeOK
  <1>12. ParentOf(g)' = o
    BY <1>1 DEF ParentOf, Base, TypeOK
  <1> QED BY <1>1, <1>5, <1>8, <1>9, <1>10, <1>11, <1>12, AbstractOpenNested DEF SameAs

LEMMA RefusedIsRefused ==
    ASSUME Base, Work, Borne, Base', Borne', NEW g \in Frames, OpenFails(g)
    PROVE  Nested!Next
  <1>1. /\ phase[g] = "queued" /\ phase' = [phase EXCEPT ![g] = "rejected"]
        /\ UNCHANGED <<owner, enclosing, log, durable>>
    BY DEF OpenFails, data
  <1>2. \A f \in Frames : /\ Conn(f)' = Conn(f)
                          /\ HasSavepoint(f)' <=> HasSavepoint(f)
                          /\ f # g => OutcomeOf(f)' = OutcomeOf(f) /\ ParentOf(f)' = ParentOf(f)
    BY <1>1, ConnAsBefore DEF Base, TypeOK, OutcomeOf, ParentOf, HasSavepoint
  <1>3. ASSUME NEW f \in Frames PROVE HeldBy(f)' = HeldBy(f)
    <2>1. \A c \in Frames : Bears(f, c)' <=> Bears(f, c)
      BY <1>1, <1>2 DEF Base, TypeOK, Bears
    <2> QED BY <1>1, <1>2, <2>1, HeldKept
  <1>4. OutcomeOf(g) = "unopened" /\ OutcomeOf(g)' = "rejected"
    BY <1>1 DEF OutcomeOf, HasSavepoint, Base, TypeOK
  <1>5. ParentOf(g)' \in Frames
    BY <1>1 DEF ParentOf, Base, TypeOK, Structure, RootPhases, IsRoot
  <1> QED BY <1>1, <1>2, <1>3, <1>4, <1>5, AbstractRefuse DEF SameAs

(* The deepest open frame of its connection, which is how calls settle.      *)
Deepest(g) == HasSavepoint(g) /\ \A h \in Frames \ {g} : HasSavepoint(h) => g \notin enclosing[h]

LEMMA SettlesDeepest ==
    ASSUME Base, NEW g \in Frames,
           (HasSavepoint(g) /\ CallsSettled(g)) \/ phase[g] = "unwinding"
    PROVE  Deepest(g)
  <1>1. CASE HasSavepoint(g) /\ CallsSettled(g)
    BY <1>1, NoneOpenUnder DEF Base, Deepest, HasSavepoint, Pending
  <1>2. CASE phase[g] = "unwinding"
    BY <1>2 DEF Base, Chains, Deepest, HasSavepoint, Pending
  <1> QED BY <1>1, <1>2

LEMMA DeepestIs ==
    ASSUME Base, NEW g \in Frames, Deepest(g)
    PROVE  /\ \A h \in Frames : HasSavepoint(h) /\ Conn(h) = Conn(g) => h \in enclosing[g]
           /\ \A h \in Frames : ParentOf(h) = g => OutcomeOf(h) # "open"
           /\ OutcomeOf(g) = "open" /\ ParentOf(g) = owner[g]
  <1>1. ASSUME NEW h \in Frames, HasSavepoint(h), Conn(h) = Conn(g) PROVE h \in enclosing[g]
    BY <1>1 DEF Base, Chains, SavepointsNest, Deepest, Structure, ChainOK
  <1>2. ASSUME NEW h \in Frames, ParentOf(h) = g, OutcomeOf(h) = "open" PROVE FALSE
    <2>1. HasSavepoint(h) /\ owner[h] = g /\ ~ IsRoot(h)
      BY <1>2, FramesAssumption, OutcomeIs DEF ParentOf, IsRoot, HasSavepoint, Base
    <2> QED BY <2>1 DEF Deepest, Base, Structure, ChainOK
  <1>3. OutcomeOf(g) = "open" /\ ParentOf(g) = owner[g]
    BY DEF Deepest, OutcomeOf, ParentOf, HasSavepoint
  <1> QED BY <1>1, <1>2, <1>3

(* What the deepest frame bears, its parent bears once it has resolved.      *)
LEMMA ResolveHandsOn ==
    ASSUME Base, Work, Borne, Base', Borne', NEW g \in Frames, Resolve(g)
    PROVE  Nested!Next
  <1> PICK o \in Frames : o = owner[g]
    BY DEF Resolve, Base, TypeOK, IsRoot
  <1>1. /\ phase[g] = "running" /\ ~ IsRoot(g) /\ CallsSettled(g)
        /\ phase' = [phase EXCEPT ![g] = "resolved"]
        /\ UNCHANGED <<owner, enclosing, log, durable>>
    BY DEF Resolve, data
  <1>2. Deepest(g) /\ OutcomeOf(g) = "open" /\ ParentOf(g) = o
        /\ \A h \in Frames : ParentOf(h) = g => OutcomeOf(h) # "open"
    BY <1>1, SettlesDeepest, DeepestIs DEF HasSavepoint
  <1>3. o # g /\ enclosing[g] = {g} \cup enclosing[o] /\ o \in enclosing[g]
        /\ g \notin enclosing[o] /\ HasSavepoint(o)
    <2>1. o # g /\ enclosing[g] = {g} \cup enclosing[o] /\ o \in enclosing[g]
      BY <1>1 DEF Base, Structure, ChainOK, Nesting, EnclosingIs
    <2>2. HasSavepoint(o)
      BY <1>1, OwnerRuns DEF Base, Pending, HasSavepoint
    <2> QED BY <2>1, <2>2, AroundEachOther
  <1>4. \A f \in Frames : /\ Conn(f)' = Conn(f)
                          /\ HasSavepoint(f)' <=> HasSavepoint(f) /\ f # g
                          /\ f # g => OutcomeOf(f)' = OutcomeOf(f)
                          /\ ParentOf(f)' = ParentOf(f)
    BY <1>1, ConnAsBefore DEF Base, TypeOK, OutcomeOf, ParentOf, HasSavepoint
  <1>5. Conn(o) = Conn(g)
    BY <1>1, ConnOfOwner DEF Base
  <1>6. \A c \in Frames : \A e \in enclosing[c] : e \in Frames /\ enclosing[e] \subseteq enclosing[c]
                                                  /\ Conn(e) = Conn(c)
    BY EnclosingTransitive DEF Base, Chains, TypeOK
  <1>7. ASSUME NEW f \in Frames \ {o, g}, HasSavepoint(f)
        PROVE  \A c \in Frames : Bears(f, c)' <=> Bears(f, c)
    <2> SUFFICES ASSUME NEW c \in Frames, Bears(f, c)', g \in enclosing[c], f \in enclosing[g]
                 PROVE  FALSE
      BY <1>1, <1>4, <1>6 DEF Bears
    <2>1. f \in enclosing[o] /\ o \in enclosing[c] /\ HasSavepoint(o)'
      BY <1>3, <1>4, <1>6
    <2> QED BY <1>1, <2>1 DEF Bears
  <1>8. ASSUME NEW c \in Frames PROVE Bears(o, c)' <=> Bears(o, c) \/ Bears(g, c)
    <2>1. ASSUME Bears(o, c) PROVE Bears(o, c)'
      BY <1>1, <1>4, <1>6, <2>1 DEF Bears
    <2>2. ASSUME Bears(g, c) PROVE Bears(o, c)'
      <3>1. g \in enclosing[c] /\ o \in enclosing[c]
        BY <1>3, <1>6, <2>2 DEF Bears
      <3>2. ASSUME NEW h \in enclosing[c] \ {o}, HasSavepoint(h), h # g
            PROVE  o \notin enclosing[h]
        <4>1. h \in Frames /\ Conn(h) = Conn(g)
          BY <1>6, <3>1
        <4>2. h \in enclosing[o]
          BY <1>2, <1>3, <3>2, <4>1, DeepestIs
        <4> QED BY <3>2, <4>1, <4>2, AroundEachOther
      <3> QED BY <1>1, <1>4, <1>6, <3>1, <3>2 DEF Bears
    <2>3. ASSUME Bears(o, c)', ~ Bears(o, c) PROVE Bears(g, c)
      <3>1. g \in enclosing[c]
        BY <1>1, <1>4, <1>6, <2>3 DEF Bears
      <3>2. \A h \in enclosing[c] \ {g} : HasSavepoint(h) => g \notin enclosing[h]
        BY <1>2, <1>6 DEF Deepest
      <3> QED BY <3>1, <3>2 DEF Bears
    <2> QED BY <2>1, <2>2, <2>3
  <1>9. ASSUME NEW f \in Frames \ {o, g} PROVE HeldBy(f)' = HeldBy(f)
    <2>1. CASE HasSavepoint(f)
      BY <1>1, <1>4, <1>7, <2>1, HeldKept
    <2>2. CASE ~ HasSavepoint(f)
      BY <1>4, <2>2 DEF HeldBy
    <2> QED BY <2>1, <2>2
  <1>10. HeldBy(o)' = HeldBy(o) \cup HeldBy(g)
    <2> PICK r \in Frames : r = Conn(g)
      BY DEF Base, Chains, TypeOK
    <2>1. BorneBy(o)' = {w \in WritesIn(log[r]) : Bears(o, w.frame)'}
      BY <1>1, <1>4, <1>5 DEF BorneBy, WritesIn
    <2>2. \A w \in WritesIn(log[r]) : Bears(o, w.frame)' <=>
                                        Bears(o, w.frame) \/ Bears(g, w.frame)
      BY <1>8, WriteSent
    <2>3. BorneBy(o)' = BorneBy(o) \cup BorneBy(g)
      BY <1>5, <2>1, <2>2 DEF BorneBy
    <2> QED BY <1>2, <1>3, <1>4, <2>3 DEF Borne, Deepest
  <1>11. HeldBy(g)' = {}
    BY <1>4 DEF HeldBy
  <1>12. OutcomeOf(g)' = "resolved"
    BY <1>1 DEF OutcomeOf, HasSavepoint, Base, TypeOK
  <1> QED BY <1>1, <1>2, <1>3, <1>4, <1>9, <1>10, <1>11, <1>12, AbstractResolve

(* ROLLBACK TO takes what the frame bears and nothing else. *)
LEMMA RollbackToRejects ==
    ASSUME Base, Work, Borne, astray = {}, Base', Borne', NEW g \in Frames, RollbackTo(g)
    PROVE  Nested!Next
  <1> PICK r \in Frames : r = Conn(g)
    BY DEF Base, Chains, TypeOK
  <1>1. /\ phase[g] = "unwinding" /\ phase' = [phase EXCEPT ![g] = "compensating"]
        /\ UNCHANGED <<owner, enclosing, durable>>
    BY DEF RollbackTo
  <1>2. Deepest(g) /\ OutcomeOf(g) = "open"
        /\ \A h \in Frames : ParentOf(h) = g => OutcomeOf(h) # "open"
    BY <1>1, SettlesDeepest, DeepestIs
  <1>3. PICK p \in 1 .. Len(log[r]) : MarkedAt(g, p) /\ log' = [log EXCEPT ![r] = SubSeq(@, 1, p)]
    BY CutAtSavepoint
  <1>4. \A f \in Frames : /\ Conn(f)' = Conn(f)
                          /\ HasSavepoint(f)' <=> HasSavepoint(f) /\ f # g
                          /\ f # g => OutcomeOf(f)' = OutcomeOf(f)
                          /\ ParentOf(f)' = ParentOf(f)
    BY <1>1, ConnAsBefore DEF Base, TypeOK, OutcomeOf, ParentOf, HasSavepoint
  <1>5. WritesIn(log'[r]) = {w \in WritesIn(log[r]) : g \notin enclosing[w.frame]}
    <2>1. \A i \in 1 .. Len(log[r]) : /\ log[r][i] = SavepointOf(g) <=> i = p
                                      /\ p < i => g \in enclosing[log[r][i].frame]
                                      /\ i < p => g \notin enclosing[log[r][i].frame]
      BY <1>3 DEF MarkedAt
    <2>2. log[r] \in Seq(Entries) /\ Len(log[r]) \in Nat /\ p \in Nat
      BY DEF Base, TypeOK
    <2>3. log'[r] = SubSeq(log[r], 1, p)
      BY <1>3 DEF Base, TypeOK
    <2>4. Len(log'[r]) = p /\ DOMAIN log'[r] = 1 .. p /\ DOMAIN log[r] = 1 .. Len(log[r])
          /\ \A i \in 1 .. p : log'[r][i] = log[r][i]
      BY <2>2, <2>3
    <2>5. ASSUME NEW w \in WritesIn(log'[r])
          PROVE  w \in WritesIn(log[r]) /\ g \notin enclosing[w.frame]
      <3>1. PICK i \in 1 .. p : w = log[r][i] /\ w \in Writes
        BY <2>4 DEF WritesIn
      <3>2. i # p
        BY <2>1, <2>2, <3>1, EntryKinds
      <3> QED BY <2>1, <2>2, <2>4, <3>1, <3>2, SMTT(60) DEF WritesIn
    <2>6. ASSUME NEW w \in WritesIn(log[r]), g \notin enclosing[w.frame]
          PROVE  w \in WritesIn(log'[r])
      <3>1. PICK i \in 1 .. Len(log[r]) : w = log[r][i] /\ w \in Writes
        BY <2>4 DEF WritesIn
      <3>2. i \in 1 .. p
        BY <2>1, <2>2, <2>6, <3>1
      <3> QED BY <2>4, <3>1, <3>2 DEF WritesIn
    <2> QED BY <2>5, <2>6
  <1>6. \A c \in Frames : \A e \in enclosing[c] : e \in Frames /\ enclosing[e] \subseteq enclosing[c]
                                                  /\ Conn(e) = Conn(c)
    BY EnclosingTransitive DEF Base, Chains, TypeOK
  <1>7. ASSUME NEW f \in Frames \ {g}, NEW c \in Frames, g \notin enclosing[c]
        PROVE  Bears(f, c)' <=> Bears(f, c)
    BY <1>1, <1>4, <1>6, <1>7 DEF Bears
  <1>8. ASSUME NEW f \in Frames \ {g}, HasSavepoint(f), NEW c \in Frames, Bears(f, c)
        PROVE  g \notin enclosing[c]
    <2> SUFFICES ASSUME g \in enclosing[c] PROVE FALSE
      OBVIOUS
    <2>1. f \notin enclosing[g] /\ f \in enclosing[c]
      BY <1>2, <1>8 DEF Bears, Deepest
    <2>2. Conn(f) = Conn(g)
      BY <1>6, <2>1
    <2> QED BY <1>2, <1>8, <2>1, <2>2, DeepestIs
  <1>9. ASSUME NEW f \in Frames \ {g} PROVE HeldBy(f)' = HeldBy(f)
    <2>1. CASE HasSavepoint(f) /\ Conn(f) = r
      <3>1. BorneBy(f)' = {w \in WritesIn(log'[r]) : Bears(f, w.frame)'}
        BY <1>4, <2>1 DEF BorneBy, WritesIn
      <3>2. \A w \in WritesIn(log[r]) : g \notin enclosing[w.frame] /\ Bears(f, w.frame)' <=>
                                          Bears(f, w.frame)
        <4> SUFFICES ASSUME NEW w \in WritesIn(log[r])
                     PROVE  g \notin enclosing[w.frame] /\ Bears(f, w.frame)' <=>
                              Bears(f, w.frame)
          OBVIOUS
        <4>1. w.frame \in Frames
          BY WriteSent
        <4> QED BY <1>7, <1>8, <2>1, <4>1
      <3>3. BorneBy(f)' = BorneBy(f)
        BY <1>5, <2>1, <3>1, <3>2 DEF BorneBy
      <3> QED BY <1>4, <2>1, <3>3 DEF Borne
    <2>2. CASE HasSavepoint(f) /\ Conn(f) # r
      <3>1. WritesIn(log'[Conn(f)]) = WritesIn(log[Conn(f)])
        BY <1>3, <2>2 DEF Base, TypeOK, Chains
      <3>2. \A c \in Frames : Conn(c) = Conn(f) => g \notin enclosing[c]
        BY <1>6, <2>2
      <3> QED BY <1>4, <1>7, <2>2, <3>1, <3>2, HeldKept
    <2>3. CASE ~ HasSavepoint(f)
      BY <1>4, <2>3 DEF HeldBy
    <2> QED BY <2>1, <2>2, <2>3
  <1>10. HeldBy(g)' = {} /\ OutcomeOf(g)' = "rejected"
    BY <1>1, <1>4 DEF HeldBy, OutcomeOf, HasSavepoint, Base, TypeOK
  <1> QED BY <1>1, <1>2, <1>4, <1>9, <1>10, AbstractReject DEF SameAs

(* The end of a root touches nothing but what the root bears. *)
LEMMA RootEndsAlone ==
    ASSUME Base, Work, Borne, Base', Borne', NEW r \in Frames, IsRoot(r), Deepest(r),
           NEW q \in {"resolved", "compensating"}, phase' = [phase EXCEPT ![r] = q],
           log' = [log EXCEPT ![r] = <<>>], UNCHANGED <<owner, enclosing>>
    PROVE  /\ \A f \in Frames \ {r} : SameAs(f)
           /\ HeldBy(r)' = {} /\ ParentOf(r)' = ParentOf(r) /\ ParentOf(r) = NoFrame
  <1>1. \A f \in Frames : /\ Conn(f)' = Conn(f)
                          /\ HasSavepoint(f)' <=> HasSavepoint(f) /\ f # r
                          /\ f # r => OutcomeOf(f)' = OutcomeOf(f)
                          /\ ParentOf(f)' = ParentOf(f)
    <2>1. /\ phase[r] \notin {"idle", "queued"}
          /\ phase'[r] \notin {"idle", "queued", "running", "finishing", "unwinding"}
          /\ \A f \in Frames : f # r => phase'[f] = phase[f]
      BY DEF Base, TypeOK, Deepest, HasSavepoint
    <2> QED BY <2>1, ConnAsBefore DEF OutcomeOf, ParentOf, HasSavepoint
  <1>2. ASSUME NEW f \in Frames \ {r} PROVE HeldBy(f)' = HeldBy(f)
    <2>1. CASE HasSavepoint(f)
      <3>1. Conn(f) # r
        <4>1. Conn(f) \in enclosing[f]
          BY DEF Base, Chains
        <4> QED BY <2>1, <4>1 DEF Deepest
      <3>2. WritesIn(log'[Conn(f)]) = WritesIn(log[Conn(f)])
        BY <3>1 DEF Base, TypeOK, Chains
      <3>3. ASSUME NEW c \in Frames, Conn(c) = Conn(f) PROVE Bears(f, c)' <=> Bears(f, c)
        <4>1. r \notin enclosing[c]
          BY <3>1, <3>3 DEF Base, Chains
        <4>2. \A e \in enclosing[c] : e \in Frames
          BY DEF Base, TypeOK
        <4> QED BY <1>1, <4>1, <4>2 DEF Bears
      <3> QED BY <1>1, <2>1, <3>2, <3>3, HeldKept
    <2>2. CASE ~ HasSavepoint(f)
      BY <1>1, <2>2 DEF HeldBy
    <2> QED BY <2>1, <2>2
  <1>3. HeldBy(r)' = {} /\ ParentOf(r) = NoFrame
    BY <1>1 DEF HeldBy, ParentOf, IsRoot
  <1> QED BY <1>1, <1>2, <1>3 DEF SameAs

LEMMA RollbackRejects ==
    ASSUME Base, Work, Borne, Base', Borne', NEW r \in Frames, Rollback(r)
    PROVE  Nested!Next
  <1>1. /\ phase[r] = "unwinding" /\ IsRoot(r)
        /\ phase' = [phase EXCEPT ![r] = "compensating"]
        /\ log' = [log EXCEPT ![r] = <<>>]
        /\ UNCHANGED <<owner, enclosing, durable>>
    BY DEF Rollback
  <1>2. Deepest(r) /\ OutcomeOf(r) = "open"
        /\ \A h \in Frames : ParentOf(h) = r => OutcomeOf(h) # "open"
    BY <1>1, SettlesDeepest, DeepestIs
  <1>3. OutcomeOf(r)' = "rejected"
    BY <1>1 DEF OutcomeOf, HasSavepoint, Base, TypeOK
  <1> QED BY <1>1, <1>2, <1>3, RootEndsAlone, AbstractReject

(* COMMIT makes durable what the root bears, which is all that was sent.     *)
LEMMA CommitCommits ==
    ASSUME Base, Work, Borne, Base', Borne', NEW r \in Frames, Commit(r)
    PROVE  Nested!Next
  <1>1. /\ phase[r] = "finishing" /\ IsRoot(r) /\ CallsSettled(r)
        /\ phase' = [phase EXCEPT ![r] = "resolved"]
        /\ log' = [log EXCEPT ![r] = <<>>]
        /\ durable' = durable \cup WritesIn(log[r])
        /\ UNCHANGED <<owner, enclosing>>
    BY DEF Commit, Base, Structure, RootPhases
  <1>2. Deepest(r) /\ OutcomeOf(r) = "open"
        /\ \A h \in Frames : ParentOf(h) = r => OutcomeOf(h) # "open"
    BY <1>1, SettlesDeepest, DeepestIs DEF HasSavepoint
  <1>3. OutcomeOf(r)' = "resolved"
    BY <1>1 DEF OutcomeOf, HasSavepoint, Base, TypeOK
  <1>4. HeldBy(r) = WritesIn(log[r])
    <2>1. Conn(r) = r
      BY <1>1 DEF Base, Chains, Structure, ChainOK
    <2>2. ASSUME NEW w \in WritesIn(log[r]) PROVE Bears(r, w.frame)
      <3>1. w.frame \in Frames /\ r \in enclosing[w.frame]
        BY WriteSent DEF Base, Chains
      <3>2. enclosing[w.frame] \subseteq Frames
        BY <3>1 DEF Base, TypeOK
      <3> QED BY <1>2, <3>1, <3>2 DEF Bears, Deepest
    <2> QED BY <1>2, <2>1, <2>2 DEF Borne, BorneBy, Deepest
  <1> QED BY <1>1, <1>2, <1>3, <1>4, RootEndsAlone, AbstractCommit

(* A write is borne by the frame it was made in, which is open. *)
LEMMA WriteIsDone ==
    ASSUME Base, Work, Borne, Base', Borne', NEW f \in Frames, Write(f)
    PROVE  Nested!Next
  <1>1. PICK c \in Frames :
          /\ ActsIn(f, c)
          /\ writes[c] < MaxWrites
          /\ log' = [log EXCEPT ![Conn(c)] = Append(@, WriteOf(c, writes[c] + 1))]
          /\ UNCHANGED <<phase, owner, enclosing, durable>>
    BY DEF Write, control
  <1> PICK w : w = WriteOf(c, writes[c] + 1)
    OBVIOUS
  <1> PICK r \in Frames : r = Conn(c)
    BY DEF Base, Chains, TypeOK
  <1>2. w \in Writes /\ w.frame = c /\ w.n = writes[c] + 1 /\ writes[c] \in Nat
    <2>1. writes[c] \in 0 .. MaxWrites
      BY DEF Base, TypeOK
    <2>2. writes[c] \in Nat /\ writes[c] + 1 \in 1 .. MaxWrites
      BY <1>1, <2>1, FramesAssumption
    <2> QED BY <2>2, EntryKinds DEF Writes
  <1>3. \A d \in Frames : /\ Conn(d)' = Conn(d) /\ HasSavepoint(d)' = HasSavepoint(d)
                          /\ OutcomeOf(d)' = OutcomeOf(d) /\ ParentOf(d)' = ParentOf(d)
    BY <1>1, ConnAsBefore DEF OutcomeOf, ParentOf, HasSavepoint
  <1>4. \A d, e \in Frames : Bears(d, e)' <=> Bears(d, e)
    BY <1>1, <1>3 DEF Bears, Base, TypeOK
  <1>5. HasSavepoint(c) /\ OutcomeOf(c) = "open"
    BY <1>1, ActorRuns, OutcomeIs DEF Base, HasSavepoint
  <1>6. WritesIn(log'[r]) = WritesIn(log[r]) \cup {w}
        /\ \A q \in Frames \ {r} : log'[q] = log[q]
    <2>1. ASSUME NEW s \in Seq(Entries) PROVE WritesIn(Append(s, w)) = WritesIn(s) \cup {w}
      <3>1. Len(s) \in Nat /\ DOMAIN s = 1 .. Len(s)
            /\ DOMAIN Append(s, w) = 1 .. Len(s) + 1
            /\ \A i \in 1 .. Len(s) : Append(s, w)[i] = s[i]
            /\ Append(s, w)[Len(s) + 1] = w
        OBVIOUS
      <3> QED BY <1>2, <3>1 DEF WritesIn
    <2>2. log \in [Frames -> Seq(Entries)]
      BY DEF Base, TypeOK
    <2> QED BY <1>1, <2>1, <2>2
  <1>7. Bears(c, c) /\ \A d \in Frames \ {c} : ~ Bears(d, c)
    <2>1. \A g \in enclosing[c] : g \in Frames
      BY DEF Base, TypeOK
    <2>2. c \in enclosing[c]
      BY DEF Base, Structure, ChainOK
    <2> QED BY <1>5, <2>1, <2>2, AroundEachOther DEF Bears
  <1>8. \A d \in Frames : w \notin HeldBy(d)
    <2> SUFFICES ASSUME NEW d \in Frames, w \in WritesIn(log[Conn(d)]) PROVE FALSE
      BY DEF Borne, BorneBy
    <2>1. Conn(d) \in Frames
      BY DEF Base, Chains, TypeOK
    <2> QED BY <1>2, <2>1, WriteSent
  <1>9. w \notin durable
    <2> SUFFICES ASSUME w \in durable PROVE FALSE
      OBVIOUS
    <2>1. Kept(c)
      BY <1>2 DEF Work, Fates, DurableMeansKept
    <2> QED BY <1>5, <2>1 DEF Kept, HasSavepoint, Base, Structure, ChainOK
  <1>10. \A d \in Frames : BorneBy(d)' = {v \in WritesIn(log'[Conn(d)]) : Bears(d, v.frame)'}
    BY <1>3 DEF BorneBy, WritesIn
  <1>11. ASSUME NEW d \in Frames, NEW v \in WritesIn(log'[Conn(d)])
         PROVE  Bears(d, v.frame)' <=> Bears(d, v.frame)
    <2>1. Conn(d) \in Frames
      BY DEF Base, Chains, TypeOK
    <2>2. v \in WritesIn(log[Conn(d)]) \/ v = w
      BY <1>6, <2>1
    <2>3. v.frame \in Frames
      BY <1>2, <2>1, <2>2, WriteSent
    <2> QED BY <1>4, <2>3
  <1>12. HeldBy(c)' = HeldBy(c) \cup {w}
    <2>1. BorneBy(c)' = BorneBy(c) \cup {w}
      BY <1>2, <1>6, <1>7, <1>10, <1>11 DEF BorneBy
    <2> QED BY <1>3, <1>5, <2>1 DEF Borne
  <1>13. ASSUME NEW d \in Frames \ {c} PROVE HeldBy(d)' = HeldBy(d)
    <2>1. Conn(d) \in Frames
      BY DEF Base, Chains, TypeOK
    <2>2. BorneBy(d)' = BorneBy(d)
      BY <1>2, <1>6, <1>7, <1>10, <1>11, <2>1 DEF BorneBy
    <2> QED BY <1>3, <2>2 DEF Borne
  <1> QED BY <1>1, <1>2, <1>3, <1>5, <1>8, <1>9, <1>12, <1>13, AbstractDo

LEMMA NestedInitially == Init => Nested!Init
  <1> SUFFICES ASSUME Init PROVE Nested!Init
    OBVIOUS
  <1>1. \A f \in Frames : phase[f] = "idle"
    BY DEF Init
  <1>2. \A f \in Frames : ParentOf(f) = NoFrame /\ OutcomeOf(f) = "unopened" /\ HeldBy(f) = {}
    BY <1>1 DEF ParentOf, OutcomeOf, HeldBy, HasSavepoint
  <1>3. durable = {}
    BY DEF Init
  <1> QED BY <1>2, <1>3 DEF Nested!Init, ParentOf, OutcomeOf, HeldBy

LEMMA NestedStep ==
    /\ Base /\ Work /\ Borne /\ astray = {}
    /\ Base' /\ Borne' /\ [Next]_vars
    => [Nested!Next]_(Nested!absVars)
  <1> SUFFICES ASSUME Base, Work, Borne, astray = {}, Base', Borne', [Next]_vars
               PROVE  Nested!Next \/ UNCHANGED Nested!absVars
    OBVIOUS
  <1>1. CASE UNCHANGED vars
    BY <1>1, QuietIsStutter, FramesAssumption
  <1>2. CASE Begin
    BY <1>2, BeginOpensRoot, FramesAssumption DEF Begin, data
  <1>3. ASSUME NEW f \in Frames, NEW g \in Frames, CallNested(f, g)
        PROVE  UNCHANGED Nested!absVars
    BY <1>3, CallNestedIsStutter
  <1>4. ASSUME NEW f \in Frames, NEW g \in Frames, CallRequiresNew(f, g)
        PROVE  Nested!Next
    BY <1>4, BeginOpensRoot DEF CallRequiresNew, data
  <1>5. ASSUME NEW f \in Frames,
               \/ Open(f) \/ OpenFails(f) \/ Resolve(f) \/ RollbackTo(f)
               \/ Rollback(f) \/ Commit(f) \/ Write(f)
        PROVE  Nested!Next
    BY <1>5, SavepointOpensNested, RefusedIsRefused, ResolveHandsOn, RollbackToRejects,
       RollbackRejects, CommitCommits, WriteIsDone
  <1>6. ASSUME NEW f \in Frames,
               \/ Reject(f) \/ SettleRejected(f) \/ Finish(f) \/ FinishFails(f)
               \/ StatementFails(f) \/ BeforeCommitEnds(f) \/ AfterRollbackEnds(f)
               \/ \E k \in HookKinds : Register(f, k)
        PROVE  UNCHANGED Nested!absVars
    BY <1>6, QuietIsStutter
  <1> QED BY <1>1, <1>2, <1>3, <1>4, <1>5, <1>6 DEF Next, Step, Terminated

(* Nested calls that share one connection, with SAVEPOINTs nobody releases,  *)
(* behave as transactions that each own their writes: what a call wrote is   *)
(* its parent's when it resolves, gone when it rejects, and durable when the *)
(* root that then bears it commits (transaction/README.md, "Nested           *)
(* transactions"), as long as user code awaits the calls it makes and no     *)
(* write is sent behind another frame's SAVEPOINT.                           *)
THEOREM FramesImplementNestingUnlessAstray ==
    ASSUME ~ FailFast
    PROVE  Spec /\ [](astray = {}) => ImplementsNesting
  BY NestedInitially, NestedStep, BorneHolds, WorkAlways, PTL
     DEF Spec, ImplementsNesting, Nested!Spec

(* Only the afterRollback pass of a call with requiresNew sends a write      *)
(* there (runner.ts, 892-905): without such calls the implementation is      *)
(* unconditional.                                                            *)
THEOREM FramesImplementNesting ==
    ASSUME ~ FailFast, NewRoots = {}
    PROVE  Spec => ImplementsNesting
  <1>1. AstrayOnlyByNewRoot /\ TypeOK => astray = {}
    BY DEF AstrayOnlyByNewRoot
  <1>2. Base => TypeOK
    BY DEF Base
  <1> QED BY <1>1, <1>2, WorkAlways, FramesImplementNestingUnlessAstray, PTL
=============================================================================
