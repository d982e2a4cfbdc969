----------------------- MODULE DatabaseManager_proofs -----------------------
(***************************************************************************)
(* What the database manager promises for any number of initialisations,   *)
(* closes and rebuild loops, any number of retries and any threshold.      *)
(***************************************************************************)
EXTENDS DatabaseManager, FiniteSetTheorems, TLAPS

USE ManagerAssumption

-----------------------------------------------------------------------------
(* The inductive invariant, part by part. *)

(* initPromise and closePromise: one call at a time is past them. *)
OneCallEach ==
    /\ \A i \in Inits : pc[i] \in {"creating", "testing"} => init = i
    /\ \A c \in Closes : pc[c] \in {"waiting", "ending"} => closing = c
    /\ isClosing <=> closing # None

(* Who has created a pool and not stored it yet has it open, and for itself; *)
(* whoever stored one is done; a close that ends has closed what is stored.  *)
PoolsHeld ==
    /\ \A i \in Inits : pc[i] = "testing" => pool[<<i, 1>>] = "open"
    /\ \A l \in Loops : pc[l] = "testing" => pool[<<l, try[l]>>] = "open"
    /\ slot # None => pc[slot[1]] = "done"
    /\ \A c \in Closes : pc[c] = "ending" => slot # None /\ pool[slot] = "closed"

UnderWay == {l \in Loops : pc[l] \in Rebuilding \cup {"checking"}}
Running  == {l \in Loops : pc[l] \in Rebuilding}

(* A loop is under way only beside the check that began it, or its close.    *)
LoopsBegun == UnderWay # {} => checking \/ outlived # {}

(* The loops that run are the one that isReconnecting stands for and some    *)
(* that outlived a close.                                                    *)
Coalesced ==
    /\ IsFiniteSet(UnderWay) /\ IsFiniteSet(outlived)
    /\ Cardinality(Running) <= Cardinality(outlived) + (IF isReconnecting THEN 1 ELSE 0)
    /\ outlived = {} /\ isReconnecting => Running # {}

DbInv ==
    /\ DbTypeOK /\ OneCallEach /\ PoolsHeld
    /\ HandsOutOpenPool /\ NoStrayPool
    /\ ClosedStaysEmpty /\ LoopsBegun
    /\ Coalesced

-----------------------------------------------------------------------------
(* Pools, and where a call goes. *)

LEMMA PoolFacts ==
  /\ \A i \in Inits : <<i, 1>> \in Pools
  /\ \A l \in Loops, t \in 1 .. MaxRetries : <<l, t>> \in Pools
  /\ \A p \in Pools : /\ p = <<p[1], p[2]>> /\ p[1] \in Calls
                      /\ \/ p[1] \in Inits /\ p[1] \notin Loops /\ p[2] = 1
                         \/ p[1] \in Loops /\ p[1] \notin Inits /\ p[2] \in 1 .. MaxRetries
  /\ None \notin Pools
  <1>1. \A p \in Pools : p \in Inits \X Nat \/ p \in Loops \X Nat
    BY DEF Pools
  <1> QED BY <1>1 DEF Pools, Calls

LEMMA GotoLoop ==
  ASSUME DbTypeOK, NEW l \in Loops, NEW label \in Labels, Goto(l, label)
  PROVE  /\ UnderWay' = IF label \in Rebuilding \cup {"checking"} THEN UnderWay \cup {l}
                        ELSE UnderWay \ {l}
         /\ Running' = IF label \in Rebuilding THEN Running \cup {l} ELSE Running \ {l}
  BY DEF DbTypeOK, Goto, UnderWay, Running, Calls

LEMMA GotoOther ==
  ASSUME DbTypeOK, NEW c \in Inits \cup Closes, NEW label, Goto(c, label)
  PROVE  UnderWay' = UnderWay /\ Running' = Running
  BY DEF DbTypeOK, Goto, UnderWay, Running, Calls

-----------------------------------------------------------------------------
(* How many loops run. *)

LEMMA CoalescedStays ==
  ASSUME Coalesced, NEW l, Running' = Running, UnderWay' \subseteq UnderWay \cup {l},
         isReconnecting' = isReconnecting, outlived' = outlived
  PROVE  Coalesced'
  <1>1. IsFiniteSet(UnderWay')
    BY FS_AddElement, FS_Subset DEF Coalesced
  <1> QED BY <1>1 DEF Coalesced

LEMMA CoalescedBegins ==
  ASSUME Coalesced, NEW l, l \notin Running, ~isReconnecting, isReconnecting',
         Running' = Running \cup {l}, UnderWay' = UnderWay \cup {l}, outlived' = outlived
  PROVE  Coalesced'
  <1>1. IsFiniteSet(UnderWay') /\ IsFiniteSet(Running)
    BY FS_AddElement, FS_Subset DEF Coalesced, Running, UnderWay
  <1>2. /\ Cardinality(Running') = Cardinality(Running) + 1
        /\ Cardinality(Running) \in Nat /\ Cardinality(outlived) \in Nat
    BY <1>1, FS_AddElement, FS_CardinalityType DEF Coalesced
  <1> QED BY <1>1, <1>2 DEF Coalesced

LEMMA CoalescedEnds ==
  ASSUME Coalesced, NEW l \in Running, ~isReconnecting',
         Running' = Running \ {l}, UnderWay' = UnderWay \ {l}, outlived' = outlived
  PROVE  Coalesced'
  <1>1. IsFiniteSet(UnderWay') /\ IsFiniteSet(Running)
    BY FS_Subset DEF Coalesced, Running, UnderWay
  <1>2. /\ Cardinality(Running') = Cardinality(Running) - 1
        /\ Cardinality(Running) \in Nat /\ Cardinality(outlived) \in Nat
    BY <1>1, FS_RemoveElement, FS_CardinalityType DEF Coalesced
  <1> QED BY <1>1, <1>2 DEF Coalesced

LEMMA CoalescedCloses ==
  ASSUME Coalesced, ~isReconnecting', Running' = Running, UnderWay' = UnderWay,
         outlived' = outlived \cup UnderWay
  PROVE  Coalesced'
  <1>1. IsFiniteSet(outlived') /\ Running \subseteq outlived'
    BY FS_Union DEF Coalesced, Running, UnderWay
  <1>2. /\ Cardinality(Running) <= Cardinality(outlived')
        /\ Cardinality(outlived') \in Nat
    BY <1>1, FS_Subset, FS_CardinalityType
  <1>3. Cardinality(Running) \in Nat
    BY <1>1, FS_Subset, FS_CardinalityType
  <1> QED BY <1>1, <1>2, <1>3 DEF Coalesced

-----------------------------------------------------------------------------
(* Initialisations. *)

LEMMA DbInitInv ==
  ASSUME NEW some \in SUBSET Calls, DbInit(some)
  PROVE  DbInv
  <1>1. DbTypeOK
    <2>1. 1 \in 1 .. MaxRetries /\ 0 \in 0 .. Threshold - 1
      OBVIOUS
    <2>2. pool \in [Pools -> {"none", "open", "closed"}] /\ pc \in [Calls -> Labels]
      BY DEF DbInit, Labels
    <2>3. try \in [Loops -> 1 .. MaxRetries]
      BY <2>1 DEF DbInit
    <2> QED BY <2>1, <2>2, <2>3 DEF DbInit, DbTypeOK
  <1>2. UnderWay = {} /\ Running = {}
    BY DEF DbInit, UnderWay, Running, Rebuilding, Calls
  <1>3. Coalesced
    BY <1>2, FS_EmptySet DEF Coalesced, DbInit
  <1>4. OneCallEach /\ PoolsHeld
    BY DEF DbInit, OneCallEach, PoolsHeld, Calls
  <1>5. HandsOutOpenPool /\ NoStrayPool /\ ClosedStaysEmpty
    BY DEF DbInit, HandsOutOpenPool, NoStrayPool, ClosedStaysEmpty
  <1> QED BY <1>1, <1>2, <1>3, <1>4, <1>5 DEF DbInv, LoopsBegun

LEMMA InitSteps ==
  ASSUME DbInv, NEW i \in Inits,
         InitCall(i) \/ InitJoined(i) \/ InitCreates(i) \/ InitDiscards(i) \/ InitStores(i)
  PROVE  DbInv'
  <1> USE PoolFacts DEF DbInv
  <1> USE DEF InitCall, InitJoined, InitCreates, InitDiscards, InitStores, Goto, flags, locks, history
  <1>1. DbTypeOK'
    <2>1. \E label \in {"done", "failed", "joined", "creating", "testing"} :
            pc' = [pc EXCEPT ![i] = label]
      OBVIOUS
    <2>2. pc' \in [Calls -> Labels]
      BY <2>1 DEF DbTypeOK, Calls, Labels, Rebuilding
    <2>3. pool' \in [Pools -> {"none", "open", "closed"}]
      BY DEF DbTypeOK
    <2>4. /\ slot' \in Pools \cup {None} /\ init' \in Inits \cup {None}
          /\ dropped' \subseteq Pools /\ checking' \in BOOLEAN
      BY DEF DbTypeOK
    <2> QED BY <2>2, <2>3, <2>4 DEF DbTypeOK
  <1>2. OneCallEach'
    BY DEF DbTypeOK, OneCallEach, Calls
  <1>3. PoolsHeld'
    BY DEF DbTypeOK, OneCallEach, PoolsHeld, Calls
  <1>4. HandsOutOpenPool'
    BY DEF DbTypeOK, PoolsHeld, HandsOutOpenPool, Calls
  <1>5. NoStrayPool'
    BY DEF DbTypeOK, PoolsHeld, NoStrayPool, InHand, Calls
  <1>6. ClosedStaysEmpty'
    BY DEF ClosedStaysEmpty
  <1>7. UnderWay' = UnderWay /\ Running' = Running
    BY DEF DbTypeOK, UnderWay, Running, Calls
  <1>8. LoopsBegun'
    BY <1>7 DEF LoopsBegun
  <1>9. Coalesced'
    BY <1>7, CoalescedStays
  <1> QED BY <1>1, <1>2, <1>3, <1>4, <1>5, <1>6, <1>8, <1>9

-----------------------------------------------------------------------------
(* Closes. *)

LEMMA CloseSteps ==
  ASSUME DbInv, NEW c \in Closes,
         CloseCall(c) \/ CloseProceeds(c) \/ CloseEnds(c) \/ CloseJoined(c)
  PROVE  DbInv'
  <1> USE PoolFacts DEF DbInv
  <1> USE DEF CloseCall, CloseProceeds, CloseEnds, CloseJoined, Teardown, Goto, flags, locks, history
  <1>1. DbTypeOK'
    BY DEF DbTypeOK, Labels, Calls
  <1>2. OneCallEach'
    BY DEF DbTypeOK, OneCallEach, Calls
  <1>3. PoolsHeld'
    BY DEF DbTypeOK, OneCallEach, PoolsHeld, Calls
  <1>4. HandsOutOpenPool'
    BY DEF DbTypeOK, PoolsHeld, HandsOutOpenPool, Calls
  <1>5. NoStrayPool'
    BY DEF DbTypeOK, PoolsHeld, NoStrayPool, InHand, Calls
  <1>6. ClosedStaysEmpty'
    BY DEF DbTypeOK, ClosedStaysEmpty
  <1>7. UnderWay' = UnderWay /\ Running' = Running
    BY DEF DbTypeOK, UnderWay, Running, Calls
  <1>8. \/ outlived' = outlived /\ isReconnecting' = isReconnecting /\ checking' = checking
        \/ outlived' = outlived \cup UnderWay /\ ~isReconnecting'
    BY DEF UnderWay
  <1>9. LoopsBegun'
    BY <1>7, <1>8 DEF LoopsBegun
  <1>10. Coalesced'
    BY <1>7, <1>8, CoalescedStays, CoalescedCloses
  <1> QED BY <1>1, <1>2, <1>3, <1>4, <1>5, <1>6, <1>9, <1>10

-----------------------------------------------------------------------------
(* Checks, forced reconnects and rebuild loops. *)

(* attemptReconnection: the loop begins, or it is done. *)
LEMMA AttemptEffect ==
  ASSUME DbTypeOK, NEW l \in Loops, AttemptReconnection(l)
  PROVE  /\ \/ /\ Goto(l, "done") /\ isReconnecting' = isReconnecting
            \/ /\ ~isReconnecting /\ isReconnecting'
               /\ Goto(l, "creating") \/ Goto(l, "sleeping")
         /\ try' \in [Loops -> 1 .. MaxRetries]
         /\ isReconnecting' \in BOOLEAN
         /\ \A m \in Loops \ {l} : try'[m] = try[m]
  <1>1. MaxRetries # 1 => 2 \in 1 .. MaxRetries
    OBVIOUS
  <1> QED BY <1>1 DEF AttemptReconnection, DbTypeOK

(* A failed attempt: another one follows, or the loop ends. *)
LEMMA FailedEffect ==
  ASSUME DbTypeOK, NEW l \in Loops, AttemptFailed(l)
  PROVE  /\ \/ Goto(l, "sleeping") /\ isReconnecting' = isReconnecting
            \/ Goto(l, "done") /\ isReconnecting' = FALSE
         /\ try' \in [Loops -> 1 .. MaxRetries]
         /\ isReconnecting' \in BOOLEAN
         /\ \A m \in Loops \ {l} : try'[m] = try[m]
  <1>1. try[l] < MaxRetries => try[l] + 1 \in 1 .. MaxRetries
    BY DEF DbTypeOK
  <1> QED BY <1>1 DEF AttemptFailed, DbTypeOK

(* What moves a loop that holds no pool, and nothing but the loop. *)
LEMMA LoopMoves ==
  ASSUME DbInv, NEW l \in Loops, NEW label \in Labels \ {"testing"}, Goto(l, label),
         pc[l] # "done", pc[l] # "testing",
         try' \in [Loops -> 1 .. MaxRetries], \A m \in Loops \ {l} : try'[m] = try[m],
         isReconnecting' \in BOOLEAN, errors' \in 0 .. Threshold - 1,
         UNCHANGED <<slot, pool, isClosing, checking, locks, history>>
  PROVE  /\ DbTypeOK' /\ OneCallEach' /\ PoolsHeld'
         /\ HandsOutOpenPool' /\ NoStrayPool' /\ ClosedStaysEmpty'
  <1> USE PoolFacts DEF DbInv, Goto, locks, history
  <1>1. DbTypeOK'
    BY DEF DbTypeOK, Calls
  <1>2. OneCallEach'
    BY DEF DbTypeOK, OneCallEach, Calls
  <1>3. PoolsHeld'
    BY DEF DbTypeOK, PoolsHeld, Calls
  <1>4. HandsOutOpenPool' /\ ClosedStaysEmpty'
    BY DEF HandsOutOpenPool, ClosedStaysEmpty
  <1>5. NoStrayPool'
    BY DEF DbTypeOK, NoStrayPool, InHand, Calls
  <1> QED BY <1>1, <1>2, <1>3, <1>4, <1>5

(* The loop begins, or it is done without having begun. *)
LEMMA AttemptInv ==
  ASSUME DbInv, NEW l \in Loops, AttemptReconnection(l),
         pc[l] = "checking" \/ (pc[l] = "idle" /\ slot # None /\ ~isClosing),
         errors' \in 0 .. Threshold - 1,
         UNCHANGED <<slot, pool, isClosing, checking, locks, history>>
  PROVE  DbInv'
  <1> USE DEF DbInv
  <1>1. PICK label \in {"done", "creating", "sleeping"} :
          /\ Goto(l, label)
          /\ IF label = "done" THEN isReconnecting' = isReconnecting
             ELSE ~isReconnecting /\ isReconnecting'
    BY AttemptEffect
  <1>2. /\ try' \in [Loops -> 1 .. MaxRetries] /\ isReconnecting' \in BOOLEAN
        /\ \A m \in Loops \ {l} : try'[m] = try[m]
    BY AttemptEffect
  <1>3. label \in Labels \ {"testing"} /\ pc[l] # "done" /\ pc[l] # "testing"
    BY DEF Labels, Rebuilding
  <1>4. /\ DbTypeOK' /\ OneCallEach' /\ PoolsHeld'
        /\ HandsOutOpenPool' /\ NoStrayPool' /\ ClosedStaysEmpty'
    BY <1>1, <1>2, <1>3, LoopMoves
  <1>5. l \notin Running /\ outlived' = outlived /\ checking' = checking
    BY DEF Running, Rebuilding, history
  <1>6. LoopsBegun'
    <2>1. checking \/ outlived # {}
      BY DEF LoopsBegun, UnderWay, ClosedStaysEmpty, OneCallEach
    <2> QED BY <1>5, <2>1 DEF LoopsBegun
  <1>7. Coalesced'
    <2>1. CASE label = "done"
      <3>1. Running' = Running \ {l} /\ UnderWay' = UnderWay \ {l}
        BY <1>1, <1>3, <2>1, GotoLoop DEF Rebuilding
      <3> QED BY <1>1, <1>5, <2>1, <3>1, CoalescedStays
    <2>2. CASE label # "done"
      <3>1. Running' = Running \cup {l} /\ UnderWay' = UnderWay \cup {l}
        BY <1>1, <1>3, <2>2, GotoLoop DEF Rebuilding
      <3> QED BY <1>1, <1>5, <2>2, <3>1, CoalescedBegins
    <2> QED BY <2>1, <2>2
  <1> QED BY <1>4, <1>6, <1>7

(* A loop that runs sleeps and tries again, or ends. *)
LEMMA FailedCounts ==
  ASSUME DbInv, NEW l \in Loops, AttemptFailed(l), pc[l] \in Rebuilding,
         checking' = checking, outlived' = outlived
  PROVE  LoopsBegun' /\ Coalesced'
  <1> USE DEF DbInv
  <1>1. PICK label \in {"sleeping", "done"} :
          /\ Goto(l, label)
          /\ isReconnecting' = IF label = "done" THEN FALSE ELSE isReconnecting
    BY FailedEffect
  <1>2. l \in Running /\ l \in UnderWay /\ label \in Labels
    BY DEF Running, UnderWay, Labels, Rebuilding
  <1>3. CASE label = "sleeping"
    <2>1. Running' = Running /\ UnderWay' = UnderWay
      BY <1>1, <1>2, <1>3, GotoLoop DEF Rebuilding
    <2> QED BY <1>1, <1>3, <2>1, CoalescedStays DEF LoopsBegun
  <1>4. CASE label = "done"
    <2>1. Running' = Running \ {l} /\ UnderWay' = UnderWay \ {l}
      BY <1>1, <1>2, <1>4, GotoLoop DEF Rebuilding
    <2> QED BY <1>1, <1>2, <1>4, <2>1, CoalescedEnds DEF LoopsBegun
  <1> QED BY <1>3, <1>4

(* A loop that has nothing to do is done. *)
LEMMA DoneInv ==
  ASSUME DbInv, NEW l \in Loops, Goto(l, "done"), pc[l] = "checking" \/ pc[l] = "idle",
         UNCHANGED <<isReconnecting, try>>, errors' \in 0 .. Threshold - 1,
         UNCHANGED <<slot, pool, isClosing, checking, locks, history>>
  PROVE  DbInv'
  <1>1. /\ "done" \in Labels \ {"testing"} /\ DbTypeOK
        /\ try \in [Loops -> 1 .. MaxRetries] /\ isReconnecting \in BOOLEAN
    BY DEF DbInv, DbTypeOK, Labels
  <1>2. /\ DbTypeOK' /\ OneCallEach' /\ PoolsHeld'
        /\ HandsOutOpenPool' /\ NoStrayPool' /\ ClosedStaysEmpty'
    BY <1>1, LoopMoves
  <1>3. UnderWay' \subseteq UnderWay /\ Running' = Running
    BY <1>1, GotoLoop DEF Rebuilding, Running
  <1>4. LoopsBegun' /\ Coalesced'
    BY <1>3, CoalescedStays DEF LoopsBegun, DbInv, history
  <1> QED BY <1>2, <1>4 DEF DbInv

LEMMA TriggerInv ==
  ASSUME DbInv, NEW l \in Loops, TriggerForceReconnect(l), errors' \in 0 .. Threshold - 1,
         UNCHANGED <<slot, pool, isClosing, checking, locks, history>>
  PROVE  DbInv'
  <1>1. pc[l] = "idle"
    BY DEF TriggerForceReconnect
  <1>2. CASE slot # None /\ ~isClosing
    BY <1>1, <1>2, AttemptInv DEF TriggerForceReconnect
  <1>3. CASE ~(slot # None /\ ~isClosing)
    BY <1>1, <1>3, DoneInv DEF TriggerForceReconnect
  <1> QED BY <1>2, <1>3

LEMMA WaitingLoops ==
  ASSUME DbInv, NEW l \in Loops, Tick(l) \/ CheckEnds(l) \/ ForceReconnect(l) \/ Retry(l)
  PROVE  DbInv'
  <1>0. errors \in 0 .. Threshold - 1
    BY DEF DbInv, DbTypeOK
  <1>0a. DbTypeOK /\ try \in [Loops -> 1 .. MaxRetries] /\ isReconnecting \in BOOLEAN
    BY DEF DbInv, DbTypeOK
  <1>1. CASE Tick(l)
    <2>1. /\ Goto(l, "checking") /\ pc[l] = "idle" /\ checking /\ try' = try /\ errors' = errors
          /\ isReconnecting' = isReconnecting /\ outlived' = outlived /\ checking' = checking
          /\ UNCHANGED <<slot, pool, isClosing, checking, locks, history>>
      BY <1>1 DEF Tick, flags, history
    <2>2. "checking" \in Labels \ {"testing"}
      BY DEF Labels, Rebuilding
    <2>3. /\ DbTypeOK' /\ OneCallEach' /\ PoolsHeld'
          /\ HandsOutOpenPool' /\ NoStrayPool' /\ ClosedStaysEmpty'
      BY <1>0, <1>0a, <2>1, <2>2, LoopMoves
    <2>4. UnderWay' = UnderWay \cup {l} /\ Running' = Running
      BY <1>0a, <2>1, <2>2, GotoLoop DEF Rebuilding, Running
    <2>5. LoopsBegun' /\ Coalesced'
      BY <2>1, <2>4, CoalescedStays DEF LoopsBegun, DbInv
    <2> QED BY <2>3, <2>5 DEF DbInv
  <1>3. CASE CheckEnds(l)
    <2>1. pc[l] = "checking" /\ UNCHANGED <<slot, pool, isClosing, checking, locks, errors, history>>
      BY <1>3 DEF CheckEnds
    <2>2. CASE Goto(l, "done") /\ UNCHANGED <<isReconnecting, try>>
      BY <1>0, <2>1, <2>2, DoneInv
    <2>3. CASE AttemptReconnection(l)
      BY <1>0, <2>1, <2>3, AttemptInv
    <2> QED BY <1>3, <2>2, <2>3 DEF CheckEnds
  <1>4. CASE ForceReconnect(l)
    BY <1>0, <1>4, TriggerInv DEF ForceReconnect
  <1>5. CASE Retry(l)
    <2>1. /\ pc[l] = "sleeping" /\ pc[l] \in Rebuilding
          /\ UNCHANGED <<slot, pool, isClosing, checking, locks, errors, history>>
          /\ outlived' = outlived
      BY <1>5 DEF Retry, Rebuilding, history
    <2>2. CASE AttemptFailed(l)
      <3>1. PICK label \in {"sleeping", "done"} : Goto(l, label)
        BY <1>0a, <2>2, FailedEffect
      <3>2. label \in Labels \ {"testing"}
        BY DEF Labels, Rebuilding
      <3>3. /\ DbTypeOK' /\ OneCallEach' /\ PoolsHeld'
            /\ HandsOutOpenPool' /\ NoStrayPool' /\ ClosedStaysEmpty'
        BY <1>0, <1>0a, <2>1, <2>2, <3>1, <3>2, FailedEffect, LoopMoves
      <3> QED BY <2>1, <2>2, <3>3, FailedCounts DEF DbInv
    <2>3. CASE Goto(l, "creating") /\ UNCHANGED <<isReconnecting, try>>
      <3>1. "creating" \in Labels \ {"testing"}
        BY DEF Labels, Rebuilding
      <3>2. /\ DbTypeOK' /\ OneCallEach' /\ PoolsHeld'
            /\ HandsOutOpenPool' /\ NoStrayPool' /\ ClosedStaysEmpty'
        BY <1>0, <1>0a, <2>1, <2>3, <3>1, LoopMoves
      <3>3. UnderWay' = UnderWay /\ Running' = Running
        BY <1>0a, <2>1, <2>3, <3>1, GotoLoop DEF Rebuilding, Running, UnderWay
      <3>4. LoopsBegun' /\ Coalesced'
        BY <2>1, <2>3, <3>3, CoalescedStays DEF LoopsBegun, DbInv
      <3> QED BY <3>2, <3>4 DEF DbInv
    <2> QED BY <1>5, <2>2, <2>3 DEF Retry
  <1> QED BY <1>1, <1>3, <1>4, <1>5

(* What the end of an attempt does to everything but pools and counts. *)
LEMMA FailedTypes ==
  ASSUME DbInv, NEW l \in Loops, AttemptFailed(l)
  PROVE  /\ pc' \in [Calls -> Labels] /\ try' \in [Loops -> 1 .. MaxRetries]
         /\ isReconnecting' \in BOOLEAN
         /\ pc'[l] \in {"sleeping", "done"}
         /\ \A c \in Calls \ {l} : pc'[c] = pc[c]
         /\ \A m \in Loops \ {l} : try'[m] = try[m]
  <1>0. DbTypeOK
    BY DEF DbInv
  <1>1. PICK label \in {"sleeping", "done"} : pc' = [pc EXCEPT ![l] = label]
    BY <1>0, FailedEffect DEF Goto
  <1>2. pc \in [Calls -> Labels] /\ l \in Calls /\ label \in Labels
    BY DEF DbInv, DbTypeOK, Calls, Labels, Rebuilding
  <1> QED BY <1>0, <1>1, <1>2, FailedEffect

(* The attempt fails and its pool, if there is one, is closed or left. *)
LEMMA FailedInv ==
  ASSUME DbInv, NEW l \in Loops, AttemptFailed(l),
         UNCHANGED <<slot, isClosing, checking, locks, errors, outlived>>,
         \/ pool' = pool /\ pc[l] = "creating" /\ dropped' = dropped
         \/ pool' = pool /\ pc[l] = "testing" /\ dropped' = dropped \cup {<<l, try[l]>>}
         \/ /\ pool' = [pool EXCEPT ![<<l, try[l]>>] = "closed"] /\ pc[l] = "testing"
            /\ dropped' = dropped
  PROVE  DbInv'
  <1> USE PoolFacts DEF DbInv
  <1>1. /\ pc' \in [Calls -> Labels] /\ try' \in [Loops -> 1 .. MaxRetries]
        /\ isReconnecting' \in BOOLEAN /\ pc'[l] \in {"sleeping", "done"}
        /\ \A c \in Calls \ {l} : pc'[c] = pc[c]
        /\ \A m \in Loops \ {l} : try'[m] = try[m]
    BY FailedTypes
  <1>2. /\ <<l, try[l]>> \in Pools /\ l \in Calls /\ pc[l] \in Rebuilding
        /\ pc[l] \in {"creating", "testing"}
    BY DEF DbTypeOK, Calls, Rebuilding
  <1>3. slot # None => slot[1] # l /\ slot # <<l, try[l]>>
    BY <1>2 DEF PoolsHeld
  <1>4. DbTypeOK' /\ OneCallEach'
    BY <1>1, <1>2 DEF DbTypeOK, OneCallEach, locks, Calls
  <1>5. PoolsHeld'
    BY <1>1, <1>2, <1>3 DEF DbTypeOK, PoolsHeld, Calls
  <1>6. HandsOutOpenPool' /\ ClosedStaysEmpty'
    BY <1>2, <1>3 DEF DbTypeOK, HandsOutOpenPool, ClosedStaysEmpty, locks
  <1>7. NoStrayPool'
    BY <1>1, <1>2 DEF DbTypeOK, NoStrayPool, InHand, Calls
  <1>8. LoopsBegun' /\ Coalesced'
    BY <1>2, FailedCounts
  <1> QED BY <1>4, <1>5, <1>6, <1>7, <1>8

LEMMA RebuildSteps ==
  ASSUME DbInv, NEW l \in Loops, RebuildCreates(l) \/ RebuildTestFails(l) \/ RebuildSwaps(l)
  PROVE  DbInv'
  <1> USE PoolFacts DEF DbInv
  <1>0. /\ <<l, try[l]>> \in Pools /\ l \in Calls /\ pc[l] \in {"creating", "testing"}
        /\ l \in Running /\ l \in UnderWay /\ checking' = checking /\ outlived' = outlived
        /\ UNCHANGED <<isClosing, checking, locks, errors, outlived>>
    BY DEF DbTypeOK, Calls, Running, UnderWay, Rebuilding,
           RebuildCreates, RebuildTestFails, RebuildSwaps, history
  <1>0a. slot # None => slot[1] # l /\ slot # <<l, try[l]>>
    BY <1>0 DEF PoolsHeld
  <1>1. ASSUME pc[l] = "creating", Goto(l, "testing"),
               pool' = [pool EXCEPT ![<<l, try[l]>>] = "open"],
               UNCHANGED <<slot, isReconnecting, try, dropped>>
        PROVE  DbInv'
    <2>2. pc' \in [Calls -> Labels] /\ pc'[l] = "testing" /\ \A c \in Calls \ {l} : pc'[c] = pc[c]
      BY <1>0, <1>1 DEF DbTypeOK, Goto, Labels, Rebuilding
    <2>3. DbTypeOK' /\ OneCallEach'
      BY <1>0, <1>1, <2>2 DEF DbTypeOK, OneCallEach, locks, Calls
    <2>4. PoolsHeld' /\ HandsOutOpenPool' /\ ClosedStaysEmpty'
      BY <1>0, <1>0a, <1>1, <2>2
         DEF DbTypeOK, PoolsHeld, HandsOutOpenPool, ClosedStaysEmpty, locks, Calls
    <2>5. NoStrayPool'
      BY <1>0, <1>1, <2>2 DEF DbTypeOK, NoStrayPool, InHand, Calls
    <2>6. UnderWay' = UnderWay /\ Running' = Running
      <3>1. /\ UnderWay' = UnderWay \cup {l} /\ Running' = Running \cup {l}
        BY <1>1, GotoLoop DEF Labels, Rebuilding
      <3> QED BY <1>0, <3>1
    <2>7. LoopsBegun' /\ Coalesced'
      BY <1>0, <1>1, <2>6, CoalescedStays DEF LoopsBegun
    <2> QED BY <2>3, <2>4, <2>5, <2>7
  <1>2. ASSUME pc[l] = "testing", ~isClosing,
               slot' = <<l, try[l]>>,
               pool' = IF slot = None THEN pool ELSE [pool EXCEPT ![slot] = "closed"],
               Goto(l, "done"), isReconnecting' = FALSE, try' = try, dropped' = dropped
        PROVE  DbInv'
    <2>2. pc' \in [Calls -> Labels] /\ pc'[l] = "done" /\ \A c \in Calls \ {l} : pc'[c] = pc[c]
      BY <1>0, <1>2 DEF DbTypeOK, Goto, Labels
    <2>3. DbTypeOK' /\ OneCallEach'
      BY <1>0, <1>2, <2>2 DEF DbTypeOK, OneCallEach, locks, Calls
    <2>4. PoolsHeld'
      BY <1>0, <1>0a, <1>2, <2>2 DEF DbTypeOK, OneCallEach, PoolsHeld, locks, Calls
    <2>5. HandsOutOpenPool'
      BY <1>0, <1>0a, <1>2, <2>2 DEF DbTypeOK, PoolsHeld, HandsOutOpenPool, locks, Calls
    <2>6. ClosedStaysEmpty'
      BY <1>0, <1>2 DEF LoopsBegun, ClosedStaysEmpty
    <2>7. NoStrayPool'
      BY <1>0, <1>0a, <1>2, <2>2 DEF DbTypeOK, NoStrayPool, InHand, Calls
    <2>8. UnderWay' = UnderWay \ {l} /\ Running' = Running \ {l}
      BY <1>2, GotoLoop DEF Labels, Rebuilding
    <2>9. LoopsBegun' /\ Coalesced'
      BY <1>0, <1>2, <2>8, CoalescedEnds DEF LoopsBegun
    <2> QED BY <2>3, <2>4, <2>5, <2>6, <2>7, <2>9
  <1>3. CASE RebuildCreates(l)
    <2>1. pc[l] = "creating" /\ slot' = slot /\ dropped' = dropped
      BY <1>3 DEF RebuildCreates, history
    <2> QED BY <1>0, <1>1, <1>3, <2>1, FailedInv DEF RebuildCreates
  <1>4. CASE RebuildTestFails(l)
    <2>1. pc[l] = "testing" /\ slot' = slot /\ pool' = pool /\ AttemptFailed(l)
          /\ dropped' = dropped \cup {<<l, try[l]>>}
      BY <1>4 DEF RebuildTestFails
    <2> QED BY <1>0, <2>1, FailedInv
  <1>5. CASE RebuildSwaps(l)
    <2>1. pc[l] = "testing" /\ dropped' = dropped
      BY <1>5 DEF RebuildSwaps, history
    <2>2. CASE isClosing
      <3>1. /\ pool' = [pool EXCEPT ![<<l, try[l]>>] = "closed"]
            /\ AttemptFailed(l) /\ slot' = slot
        BY <1>5, <2>2 DEF RebuildSwaps, SwapOrDiscard
      <3> QED BY <1>0, <2>1, <3>1, FailedInv
    <2>3. CASE ~isClosing
      <3>1. /\ slot' = <<l, try[l]>>
            /\ pool' = IF slot = None THEN pool ELSE [pool EXCEPT ![slot] = "closed"]
            /\ Goto(l, "done") /\ isReconnecting' = FALSE /\ try' = try
        BY <1>5, <2>3 DEF RebuildSwaps, SwapOrDiscard
      <3> QED BY <1>2, <2>1, <2>3, <3>1
    <2> QED BY <2>2, <2>3
  <1> QED BY <1>3, <1>4, <1>5

LEMMA ErrorSteps ==
  ASSUME DbInv, ReportDatabaseError \/ ForgetErrors
  PROVE  DbInv'
  <1>1. ASSUME errors' \in 0 .. Threshold - 1,
               UNCHANGED <<slot, pool, flags, locks, where, history>>
        PROVE  DbInv'
    <2>1. DbTypeOK'
      BY <1>1 DEF DbInv, DbTypeOK, flags, locks, where, history
    <2>2. OneCallEach' /\ PoolsHeld'
      BY <1>1 DEF DbInv, OneCallEach, PoolsHeld, flags, locks, where, history
    <2>3. HandsOutOpenPool' /\ NoStrayPool' /\ ClosedStaysEmpty'
      BY <1>1 DEF DbInv, HandsOutOpenPool, NoStrayPool, InHand, ClosedStaysEmpty,
                  flags, locks, where, history
    <2>4. UnderWay' = UnderWay /\ Running' = Running
      BY <1>1 DEF UnderWay, Running, where
    <2>5. LoopsBegun' /\ Coalesced'
      BY <1>1, <2>4 DEF DbInv, LoopsBegun, Coalesced, flags, history
    <2> QED BY <2>1, <2>2, <2>3, <2>5 DEF DbInv
  <1>2. CASE ForgetErrors
    <2>1. errors' \in 0 .. Threshold - 1
      BY <1>2 DEF ForgetErrors, DbInv, DbTypeOK
    <2> QED BY <1>1, <1>2, <2>1 DEF ForgetErrors
  <1>3. CASE ReportDatabaseError /\ errors + 1 < Threshold
    <2>1. errors' \in 0 .. Threshold - 1
      BY <1>3 DEF ReportDatabaseError, DbInv, DbTypeOK
    <2> QED BY <1>1, <1>3, <2>1 DEF ReportDatabaseError, flags
  <1>4. CASE ReportDatabaseError /\ ~(errors + 1 < Threshold)
    <2>1. PICK l \in Loops : TriggerForceReconnect(l)
      BY <1>4 DEF ReportDatabaseError
    <2>2. /\ errors' \in 0 .. Threshold - 1
          /\ UNCHANGED <<slot, pool, isClosing, checking, locks, history>>
      BY <1>4 DEF ReportDatabaseError
    <2> QED BY <2>1, <2>2, TriggerInv
  <1> QED BY <1>2, <1>3, <1>4

-----------------------------------------------------------------------------
(* The theorems. *)

LEMMA DbStepInv ==
  ASSUME DbInv, [DbNext]_dbVars
  PROVE  DbInv'
  <1>1. CASE UNCHANGED dbVars
    <2>1. UnderWay' = UnderWay /\ Running' = Running
      BY <1>1 DEF UnderWay, Running, dbVars, where
    <2>2. DbTypeOK' /\ OneCallEach' /\ PoolsHeld'
      BY <1>1 DEF DbInv, DbTypeOK, OneCallEach, PoolsHeld, dbVars, flags, locks, where, history
    <2>3. HandsOutOpenPool' /\ NoStrayPool' /\ ClosedStaysEmpty'
      BY <1>1 DEF DbInv, HandsOutOpenPool, NoStrayPool, InHand, ClosedStaysEmpty,
                  dbVars, flags, locks, where, history
    <2>4. LoopsBegun' /\ Coalesced'
      BY <1>1, <2>1 DEF DbInv, LoopsBegun, Coalesced, dbVars, flags, history
    <2> QED BY <2>2, <2>3, <2>4 DEF DbInv
  <1>2. CASE DbNext
    BY <1>2, InitSteps, CloseSteps, WaitingLoops, RebuildSteps, ErrorSteps
       DEF DbNext, DbStep, DbCall
  <1> QED BY <1>1, <1>2

(* The loops that run at once are what the flag and the closes allow. *)
LEMMA InvOneRebuild ==
  ASSUME DbInv
  PROVE  OneRebuild
  <1>1. IsFiniteSet(Running) /\ Running = {l \in Loops : pc[l] \in Rebuilding}
    BY FS_Subset DEF DbInv, Coalesced, UnderWay, Running
  <1>2. Cardinality(Running) \in Nat /\ Cardinality(outlived) \in Nat
    BY <1>1, FS_CardinalityType DEF DbInv, Coalesced
  <1>3. Cardinality(Running) <= 1 + Cardinality(outlived)
    BY <1>2 DEF DbInv, Coalesced
  <1>4. ASSUME outlived = {} PROVE isReconnecting <=> Running # {}
    <2>1. Running # {} => Cardinality(Running) # 0
      BY <1>1, FS_EmptySet
    <2>2. Cardinality(outlived) = 0
      BY <1>4, FS_EmptySet
    <2>3. ~isReconnecting => Cardinality(Running) <= 0
      BY <2>2, <1>2 DEF DbInv, Coalesced
    <2> QED BY <1>2, <1>4, <2>1, <2>3 DEF DbInv, Coalesced
  <1> QED BY <1>1, <1>3, <1>4 DEF OneRebuild

(* Every reachable state of the database manager is one of the invariant's.  *)
THEOREM ManagerInvariant == DbSpec => []DbInv
  <1>1. (\E some \in SUBSET Calls : DbInit(some)) => DbInv
    BY DbInitInv
  <1>2. DbInv /\ [DbNext]_dbVars => DbInv'
    BY DbStepInv
  <1> QED BY <1>1, <1>2, PTL DEF DbSpec

(* A query gets an open pool unless a close is under way, whatever           *)
(* initialisations, closes and rebuild loops overlap (getDatabase).          *)
THEOREM OpenPoolHandedOut == DbSpec => []HandsOutOpenPool
  <1>1. DbInv => HandsOutOpenPool
    BY DEF DbInv
  <1> QED BY <1>1, ManagerInvariant, PTL

(* No pool stays open in nobody's hands, but for the two known ways.         *)
THEOREM NoPoolLost == DbSpec => []NoStrayPool
  <1>1. DbInv => NoStrayPool
    BY DEF DbInv
  <1> QED BY <1>1, ManagerInvariant, PTL

(* closeDatabase() leaves an empty slot that only a loop it did not stop can *)
(* fill before the next initialisation.                                      *)
THEOREM StaysClosed == DbSpec => []ClosedStaysEmpty
  <1>1. DbInv => ClosedStaysEmpty
    BY DEF DbInv
  <1> QED BY <1>1, ManagerInvariant, PTL

(* isReconnecting coalesces rebuilds, but for those that outlived a close.   *)
THEOREM RebuildsCoalesced == DbSpec => []OneRebuild
  BY InvOneRebuild, ManagerInvariant, PTL
=============================================================================
