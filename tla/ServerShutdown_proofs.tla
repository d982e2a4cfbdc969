------------------------ MODULE ServerShutdown_proofs ------------------------
(***************************************************************************)
(* What a shutdown promises, for any number of operations and hooks, any   *)
(* orders, and any use of the database beside it.                          *)
(***************************************************************************)
EXTENDS ServerShutdown, DatabaseManager_proofs, SequenceTheorems

-----------------------------------------------------------------------------
(* The inductive invariant. *)

(* trackOperation refuses from the first step of a shutdown on. *)
DrainInv ==
    /\ phase \in {"listeners", "drain"} \cup Ending => state # "running"
    /\ DrainedOrAbandoned

(* The loop of executeHooks has called what is at position i. *)
Passed(i) == i < next \/ (i = next /\ hook # None)

(* The hooks are distinct, and those that came while hooks ran are counted.  *)
Registered ==
    /\ late \subseteq ToSet(hooks) /\ IsFiniteSet(late)
    /\ \A i, j \in 1 .. Len(hooks) : hooks[i] = hooks[j] => i = j
    /\ \A h \in Hooks : h \notin ToSet(hooks) => runs[h] = 0

(* Hooks run in the phase that is theirs.  One may still run after it ends,  *)
(* but that phase ends only when the loop is past every position.            *)
Walk ==
    /\ hook # None => next <= Len(hooks)
    /\ phase \notin Ending \cup {"exited"} => next = 1 /\ hook = None

(* A position that the loop has passed was called, and at most once more for *)
(* each late hook; one ahead of it was called again for a late hook at most. *)
Counts ==
    \A i \in 1 .. Len(hooks) :
      /\ runs[hooks[i]] <= 1 + Cardinality(late)
      /\ Passed(i) /\ hooks[i] \notin late => runs[hooks[i]] >= 1
      /\ ~Passed(i) => runs[hooks[i]] <= Cardinality(late)

AllCalled ==
    phase \in {"before", "database", "stopped"} =>
      \A h \in ToSet(hooks) \ late : runs[h] >= 1

ShutdownInv ==
    /\ TypeOK /\ DrainInv
    /\ Registered /\ Walk /\ Counts /\ AllCalled

-----------------------------------------------------------------------------
(* Sequences. *)

LEMMA InsertAtProperties ==
  ASSUME NEW S, NEW s \in Seq(S), NEW e \in S, NEW k \in 1 .. Len(s) + 1
  PROVE  /\ InsertAt(s, k, e) \in Seq(S)
         /\ Len(InsertAt(s, k, e)) = Len(s) + 1
         /\ \A i \in 1 .. Len(s) + 1 :
              InsertAt(s, k, e)[i] = IF i < k THEN s[i] ELSE IF i = k THEN e ELSE s[i - 1]
  <1> DEFINE n == Len(s)
             front == SubSeq(s, 1, k - 1)
             back == SubSeq(s, k, n)
             one == <<e>>
  <1>1. n \in Nat /\ k \in 1 .. n + 1 /\ \A i \in 1 .. n : s[i] \in S
    BY LenProperties
  <1>2. /\ front \in Seq(S) /\ Len(front) = k - 1
        /\ \A i \in 1 .. k - 1 : front[i] = s[i]
    <2>1. \A i \in 1 .. k - 1 : s[i] \in S
      BY <1>1
    <2>2. /\ front \in Seq(S)
          /\ Len(front) = IF 1 <= k - 1 THEN k - 1 - 1 + 1 ELSE 0
          /\ \A i \in 1 .. k - 1 - 1 + 1 : front[i] = s[1 + i - 1]
      BY <1>1, <2>1, SubSeqProperties
    <2> HIDE DEF front, n
    <2> QED BY <1>1, <2>2
  <1>3. /\ back \in Seq(S) /\ Len(back) = n - k + 1
        /\ \A i \in 1 .. n - k + 1 : back[i] = s[k + i - 1]
    <2>1. \A i \in k .. n : s[i] \in S
      BY <1>1
    <2>2. /\ back \in Seq(S)
          /\ Len(back) = IF k <= n THEN n - k + 1 ELSE 0
          /\ \A i \in 1 .. n - k + 1 : back[i] = s[k + i - 1]
      BY <1>1, <2>1, SubSeqProperties
    <2> HIDE DEF back, n
    <2> QED BY <1>1, <2>2
  <1>4. one \in Seq(S) /\ Len(one) = 1 /\ one[1] = e
    OBVIOUS
  <1> HIDE DEF n, front, back, one
  <1> DEFINE head == front \o one
             all == head \o back
  <1>5. /\ head \in Seq(S) /\ Len(head) = k
        /\ \A i \in 1 .. k : i < k => head[i] = s[i]
        /\ head[k] = e
    <2>1. /\ head \in Seq(S) /\ Len(head) = Len(front) + Len(one)
          /\ \A i \in 1 .. Len(front) + Len(one) :
               head[i] = IF i <= Len(front) THEN front[i] ELSE one[i - Len(front)]
      BY <1>2, <1>4, ConcatProperties
    <2> HIDE DEF head
    <2>2. (k - 1) + 1 = k /\ k - (k - 1) = 1 /\ ~(k <= k - 1) /\ k \in 1 .. k
      BY <1>1
    <2>3. /\ head \in Seq(S) /\ Len(head) = k
          /\ \A i \in 1 .. k : head[i] = IF i <= k - 1 THEN front[i] ELSE one[i - (k - 1)]
      BY <1>2, <1>4, <2>1, <2>2
    <2>4. head[k] = e
      BY <1>4, <2>2, <2>3
    <2>5. \A i \in 1 .. k : i < k => head[i] = s[i]
      BY <1>1, <1>2, <2>3
    <2> QED BY <2>3, <2>4, <2>5
  <1>6. InsertAt(s, k, e) = all
    BY DEF InsertAt, front, one, back, n
  <1>7. /\ all \in Seq(S) /\ Len(all) = n + 1
        /\ \A i \in 1 .. n + 1 : all[i] = IF i <= k THEN head[i] ELSE back[i - k]
    <2> HIDE DEF head
    <2>1. /\ all \in Seq(S) /\ Len(all) = Len(head) + Len(back)
          /\ \A i \in 1 .. Len(head) + Len(back) :
               all[i] = IF i <= Len(head) THEN head[i] ELSE back[i - Len(head)]
      BY <1>3, <1>5, ConcatProperties
    <2> HIDE DEF all
    <2>2. Len(head) + Len(back) = n + 1
      BY <1>1, <1>3, <1>5
    <2> QED BY <1>5, <2>1, <2>2
  <1> HIDE DEF head, all
  <1>8. ASSUME NEW i \in 1 .. n + 1
        PROVE  all[i] = IF i < k THEN s[i] ELSE IF i = k THEN e ELSE s[i - 1]
    <2>1. CASE i < k
      BY <1>1, <1>5, <1>7, <2>1
    <2>2. CASE i = k
      BY <1>1, <1>5, <1>7, <2>2
    <2>3. CASE i > k
      <3>1. i - k \in 1 .. n - k + 1 /\ k + (i - k) - 1 = i - 1 /\ ~(i <= k) /\ ~(i < k) /\ i # k
        BY <1>1, <2>3
      <3>2. all[i] = back[i - k]
        BY <1>7, <3>1
      <3> QED BY <1>3, <3>1, <3>2
    <2> QED BY <1>1, <2>1, <2>2, <2>3
  <1> QED BY <1>6, <1>7, <1>8 DEF n

(* The place of a hook among those of a lower or the same order. *)
LEMMA PlaceInRange ==
  ASSUME NEW s, Len(s) \in Nat, NEW T, T \subseteq 1 .. Len(s)
  PROVE  Cardinality(T) + 1 \in 1 .. Len(s) + 1
  <1>1. IsFiniteSet(1 .. Len(s)) /\ Cardinality(1 .. Len(s)) = Len(s)
    BY FS_Interval
  <1>2. Cardinality(T) \in Nat /\ Cardinality(T) <= Len(s)
    BY <1>1, FS_Subset, FS_CardinalityType
  <1> QED BY <1>2

-----------------------------------------------------------------------------
(* The database below. *)

(* Every step of the server is one of the database manager or leaves it be.  *)
LEMMA ServerStepsDatabase ==
  ASSUME [Next]_vars
  PROVE  [DbNext]_dbVars
  <1>0. StartInit \in Inits /\ ShutdownClose \in Closes
    BY ShutdownAssumption
  <1>1. CASE UNCHANGED vars
    BY <1>1 DEF vars
  <1>2. CASE Start \/ StartFails \/ CloseInfrastructure
    BY <1>0, <1>2 DEF Start, StartFails, CloseInfrastructure, DbNext, DbCall
  <1>3. CASE Started \/ Shutdown \/ Deadline
    BY <1>3 DEF Started, Shutdown, Deadline
  <1>4. CASE ShutdownStep
    BY <1>2, <1>4 DEF ShutdownStep, ListenersClosed, Drain, CallHook, HookOver, HooksExecuted,
                InfrastructureClosed, Exit
  <1>5. CASE UserStep
    BY <1>5 DEF UserStep, TrackOperation, OperationEnds, OnShutdown
  <1>6. CASE \/ DbStep
             \/ \E i \in Inits : (phase = "script" \/ i # StartInit) /\ InitCall(i)
             \/ \E c \in Closes : (phase = "script" \/ c # ShutdownClose) /\ CloseCall(c)
    BY <1>6 DEF DbNext, DbCall
  <1> QED BY <1>1, <1>2, <1>3, <1>4, <1>5, <1>6 DEF Next

(* A process with a server is one that uses the database manager, so what    *)
(* the manager promises holds beside any start and shutdown.                 *)
THEOREM ServerUsesDatabase == Spec => DbSpec
  <1>1. Init => \E some \in SUBSET Calls : DbInit(some)
    BY ShutdownAssumption DEF Init
  <1>2. [Next]_vars => [DbNext]_dbVars
    BY ServerStepsDatabase
  <1> QED BY <1>1, <1>2, PTL DEF Spec, DbSpec

(* The manager's promises, for the process with a server. *)
THEOREM DatabaseBesideServer ==
  Spec => [](HandsOutOpenPool /\ NoStrayPool /\ ClosedStaysEmpty /\ OneRebuild)
  BY ServerUsesDatabase, OpenPoolHandedOut, NoPoolLost, StaysClosed, RebuildsCoalesced, PTL

-----------------------------------------------------------------------------
(* Steps of the shutdown. *)

LEMMA ShutdownInitInv ==
  ASSUME Init
  PROVE  ShutdownInv
  <1>1. DbTypeOK
    <2>1. \E some \in SUBSET Calls : DbInit(some)
      BY ShutdownAssumption DEF Init
    <2> QED BY <2>1, DbInitInv DEF DbInv
  <1>2. TypeOK
    <2>1. hooks \in Seq(Hooks) /\ Len(hooks) = 0 /\ next \in 1 .. Len(hooks) + 1
      BY DEF Init
    <2> QED BY <1>1, <2>1 DEF Init, TypeOK, Phases
  <1>3. ToSet(hooks) = {} /\ Len(hooks) = 0
    BY DEF Init, ToSet
  <1>4. DrainInv
    BY DEF Init, DrainInv, DrainedOrAbandoned, Ending
  <1>5. Registered
    BY <1>3, FS_EmptySet DEF Init, Registered
  <1>6. Walk /\ Counts /\ AllCalled
    BY <1>3 DEF Init, Walk, Counts, AllCalled
  <1> QED BY <1>2, <1>4, <1>5, <1>6 DEF ShutdownInv

(* What leaves hooks, and the phases in which they run, alone. *)
LEMMA HooksUntouched ==
  ASSUME ShutdownInv, UNCHANGED hooking,
         phase' \in {"before", "database", "stopped"} =>
           phase \in {"before", "database", "stopped"},
         phase' \notin Ending \cup {"exited"} => phase \notin Ending \cup {"exited"}
  PROVE  Registered' /\ Walk' /\ Counts' /\ AllCalled'
  <1>1. Registered'
    BY DEF ShutdownInv, Registered, hooking
  <1>2. Walk'
    BY DEF ShutdownInv, Walk, hooking
  <1>3. Counts'
    BY DEF ShutdownInv, Counts, Passed, hooking
  <1>4. AllCalled'
    BY DEF ShutdownInv, AllCalled, hooking
  <1> QED BY <1>1, <1>2, <1>3, <1>4

(* What happens in the database, or to the phase before or after the drain.  *)
LEMMA OuterSteps ==
  ASSUME ShutdownInv, DbTypeOK', UNCHANGED <<armed, manager, hooking>>,
         \/ phase' = phase
         \/ phase = "starting" /\ phase' \in {"up", "failed"}
         \/ phase = "listeners" /\ phase' = "drain"
         \/ phase = "before" /\ phase' = "database"
         \/ phase = "database" /\ phase' = "stopped"
         \/ phase' = "exited"
  PROVE  ShutdownInv'
  <1>1. TypeOK'
    BY DEF ShutdownInv, TypeOK, Phases, manager, hooking
  <1>2. DrainInv'
    BY DEF ShutdownInv, DrainInv, DrainedOrAbandoned, Ending, manager
  <1>3. Registered' /\ Walk' /\ Counts' /\ AllCalled'
    BY HooksUntouched DEF Ending
  <1> QED BY <1>1, <1>2, <1>3 DEF ShutdownInv

LEMMA DrainSteps ==
  ASSUME ShutdownInv, DbTypeOK', Shutdown \/ Drain
  PROVE  ShutdownInv'
  <1>1. TypeOK'
    BY DEF ShutdownInv, TypeOK, Phases, manager, hooking, Shutdown, Drain
  <1>2. DrainInv'
    BY DEF ShutdownInv, TypeOK, DrainInv, DrainedOrAbandoned, Ending, manager, Shutdown, Drain
  <1>3. Registered' /\ Walk' /\ Counts' /\ AllCalled'
    BY HooksUntouched DEF Ending, Shutdown, Drain
  <1> QED BY <1>1, <1>2, <1>3 DEF ShutdownInv

LEMMA OperationSteps ==
  ASSUME ShutdownInv, DbTypeOK', NEW o \in Ops, TrackOperation(o) \/ OperationEnds(o)
  PROVE  ShutdownInv'
  <1>1. TypeOK'
    BY DEF ShutdownInv, TypeOK, manager, hooking, TrackOperation, OperationEnds
  <1>2. DrainInv'
    BY DEF ShutdownInv, TypeOK, DrainInv, DrainedOrAbandoned, manager, TrackOperation, OperationEnds
  <1>3. Registered' /\ Walk' /\ Counts' /\ AllCalled'
    BY HooksUntouched DEF TrackOperation, OperationEnds
  <1> QED BY <1>1, <1>2, <1>3 DEF ShutdownInv

-----------------------------------------------------------------------------
(* Steps of executeHooks. *)

LEMMA HookFacts ==
  ASSUME ShutdownInv
  PROVE  /\ Len(hooks) \in Nat /\ DOMAIN hooks = 1 .. Len(hooks)
         /\ \A i \in 1 .. Len(hooks) : hooks[i] \in Hooks /\ hooks[i] # None
         /\ ToSet(hooks) = {hooks[i] : i \in 1 .. Len(hooks)}
         /\ Cardinality(late) \in Nat /\ next \in Nat
         /\ \A h \in Hooks : runs[h] \in Nat
  <1>1. /\ Len(hooks) \in Nat /\ DOMAIN hooks = 1 .. Len(hooks)
        /\ \A i \in 1 .. Len(hooks) : hooks[i] \in Hooks
    BY LenProperties DEF ShutdownInv, TypeOK
  <1>2. Cardinality(late) \in Nat
    BY FS_CardinalityType DEF ShutdownInv, Registered
  <1> QED BY <1>1, <1>2, ShutdownAssumption DEF ShutdownInv, TypeOK, ToSet

LEMMA CallHookInv ==
  ASSUME ShutdownInv, DbTypeOK', CallHook
  PROVE  ShutdownInv'
  <1> DEFINE L == Len(hooks)
             h == hooks[next]
  <1>1. /\ L \in Nat /\ next \in 1 .. L /\ h \in Hooks /\ h # None /\ hook = None
        /\ hook' = h /\ runs' = [runs EXCEPT ![h] = @ + 1] /\ next' = next
        /\ hooks' = hooks /\ late' = late /\ phase' = phase /\ phase = "hooks"
        /\ UNCHANGED <<armed, state, op, abandoned>>
    <2>1. next \in 1 .. L + 1 /\ next <= L /\ L \in Nat
      BY HookFacts DEF CallHook, ShutdownInv, TypeOK
    <2>2. next \in 1 .. L
      BY <2>1
    <2> QED BY <2>2, HookFacts DEF CallHook, manager
  <1>2. TypeOK'
    BY <1>1 DEF ShutdownInv, TypeOK
  <1>3. DrainInv'
    BY <1>1 DEF ShutdownInv, DrainInv, DrainedOrAbandoned
  <1>4. /\ \A i \in 1 .. L : hooks[i] = h => i = next
        /\ h \in ToSet(hooks)
    BY <1>1, HookFacts DEF ShutdownInv, Registered
  <1>5. Registered'
    <2>1. \A g \in Hooks \ {h} : runs'[g] = runs[g]
      BY <1>1 DEF ShutdownInv, TypeOK
    <2> QED BY <1>1, <1>4, <2>1 DEF ShutdownInv, Registered
  <1>6. Walk' /\ AllCalled'
    BY <1>1 DEF ShutdownInv, Walk, AllCalled, Ending
  <1>7. Counts'
    <2> SUFFICES ASSUME NEW i \in 1 .. L
                 PROVE  /\ runs'[hooks[i]] <= 1 + Cardinality(late)
                        /\ Passed(i)' /\ hooks[i] \notin late => runs'[hooks[i]] >= 1
                        /\ ~Passed(i)' => runs'[hooks[i]] <= Cardinality(late)
      BY <1>1 DEF Counts
    <2>1. /\ runs[hooks[i]] <= 1 + Cardinality(late)
          /\ Passed(i) /\ hooks[i] \notin late => runs[hooks[i]] >= 1
          /\ ~Passed(i) => runs[hooks[i]] <= Cardinality(late)
          /\ runs[hooks[i]] \in Nat /\ hooks[i] \in Hooks /\ Cardinality(late) \in Nat
      BY HookFacts DEF ShutdownInv, Counts
    <2>2. CASE i = next
      <3>1. ~Passed(i) /\ Passed(i)'
        BY <1>1, <2>2 DEF Passed
      <3>2. runs'[hooks[i]] = runs[hooks[i]] + 1
        BY <1>1, <2>1, <2>2 DEF ShutdownInv, TypeOK
      <3> HIDE DEF L, h
      <3> QED BY <2>1, <3>1, <3>2
    <2>3. CASE i # next
      <3>1. Passed(i)' <=> Passed(i)
        BY <1>1, <2>3 DEF Passed
      <3>2. runs'[hooks[i]] = runs[hooks[i]]
        BY <1>1, <1>4, <2>1, <2>3 DEF ShutdownInv, TypeOK
      <3> QED BY <2>1, <3>1, <3>2
    <2> QED BY <2>2, <2>3
  <1> QED BY <1>2, <1>3, <1>5, <1>6, <1>7 DEF ShutdownInv

LEMMA HookOverInv ==
  ASSUME ShutdownInv, DbTypeOK', HookOver
  PROVE  ShutdownInv'
  <1>1. /\ next \in 1 .. Len(hooks) /\ Len(hooks) \in Nat /\ hook # None
        /\ hook' = None /\ next' = next + 1
        /\ UNCHANGED <<armed, state, op, abandoned, phase, hooks, runs, late>>
    BY HookFacts DEF HookOver, manager, ShutdownInv, TypeOK, Walk
  <1>2. TypeOK'
    <2>1. next' \in 1 .. Len(hooks) + 1
      BY <1>1
    <2> QED BY <1>1, <2>1 DEF ShutdownInv, TypeOK
  <1>3. DrainInv' /\ Registered' /\ AllCalled'
    BY <1>1 DEF ShutdownInv, DrainInv, DrainedOrAbandoned, Registered, AllCalled
  <1>4. Walk'
    BY <1>1 DEF ShutdownInv, Walk
  <1>5. Counts'
    <2>1. \A i \in 1 .. Len(hooks) : Passed(i)' <=> Passed(i)
      BY <1>1 DEF Passed
    <2> QED BY <1>1, <2>1 DEF ShutdownInv, Counts
  <1> QED BY <1>2, <1>3, <1>4, <1>5 DEF ShutdownInv

LEMMA HooksExecutedInv ==
  ASSUME ShutdownInv, DbTypeOK', HooksExecuted
  PROVE  ShutdownInv'
  <1>1. TypeOK' /\ DrainInv'
    BY DEF ShutdownInv, TypeOK, Phases, DrainInv, DrainedOrAbandoned, Ending, HooksExecuted, hooking
  <1>2. Registered' /\ Walk' /\ Counts'
    BY DEF ShutdownInv, Registered, Walk, Counts, Passed, Ending, HooksExecuted, hooking
  <1>3. AllCalled'
    <2>1. \A i \in 1 .. Len(hooks) : Passed(i)
      BY HookFacts DEF HooksExecuted, Passed
    <2>2. \A g \in ToSet(hooks) \ late : runs[g] >= 1
      BY <2>1, HookFacts DEF ShutdownInv, Counts
    <2> QED BY <2>2 DEF HooksExecuted, hooking, AllCalled
  <1> QED BY <1>1, <1>2, <1>3 DEF ShutdownInv

(* A hook is put into its place; if hooks run already, it counts as late. *)
LEMMA OnShutdownInv ==
  ASSUME ShutdownInv, DbTypeOK', NEW h \in Hooks, OnShutdown(h), phase # "exited"
  PROVE  ShutdownInv'
  <1> DEFINE L == Len(hooks)
             k == Cardinality({i \in DOMAIN hooks : Order[hooks[i]] <= Order[h]}) + 1
  <1>1. /\ L \in Nat /\ hooks \in Seq(Hooks) /\ h \notin ToSet(hooks)
        /\ hooks' = InsertAt(hooks, k, h)
        /\ late' = IF phase \in Ending THEN late \cup {h} ELSE late
        /\ UNCHANGED <<phase, armed, state, op, abandoned, next, hook, runs>>
    BY HookFacts DEF OnShutdown, manager, ShutdownInv, TypeOK
  <1>2. k \in 1 .. L + 1
    BY <1>1, HookFacts, PlaceInRange
  <1> HIDE DEF L, k
  <1>3. /\ hooks' \in Seq(Hooks) /\ Len(hooks') = L + 1
        /\ \A i \in 1 .. L + 1 :
             hooks'[i] = IF i < k THEN hooks[i] ELSE IF i = k THEN h ELSE hooks[i - 1]
    <2>1. /\ InsertAt(hooks, k, h) \in Seq(Hooks) /\ Len(InsertAt(hooks, k, h)) = Len(hooks) + 1
          /\ \A i \in 1 .. Len(hooks) + 1 :
               InsertAt(hooks, k, h)[i] =
                 IF i < k THEN hooks[i] ELSE IF i = k THEN h ELSE hooks[i - 1]
      <3>1. hooks \in Seq(Hooks) /\ k \in 1 .. Len(hooks) + 1
        BY <1>1, <1>2 DEF L
      <3> QED BY <3>1, InsertAtProperties
    <2> QED BY <1>1, <2>1 DEF L
  <1>4. \A i \in 1 .. L : hooks[i] # h
    BY <1>1, HookFacts DEF L
  <1>5. ToSet(hooks') = ToSet(hooks) \cup {h}
    <2>1. ToSet(hooks') = {hooks'[i] : i \in 1 .. L + 1}
      <3>1. DOMAIN hooks' = 1 .. L + 1
        BY <1>3, LenProperties
      <3> QED BY <3>1 DEF ToSet
    <2>2. ToSet(hooks) = {hooks[i] : i \in 1 .. L}
      BY HookFacts DEF L
    <2>3. ASSUME NEW i \in 1 .. L + 1 PROVE hooks'[i] \in {hooks[j] : j \in 1 .. L} \cup {h}
      <3>1. CASE i < k
        BY <1>1, <1>2, <1>3, <3>1
      <3>2. CASE i = k
        BY <1>1, <1>2, <1>3, <3>2
      <3>3. CASE i > k
        <4>1. i - 1 \in 1 .. L /\ ~(i < k) /\ i # k
          BY <1>1, <1>2, <3>3
        <4> QED BY <1>3, <4>1
      <3> QED BY <1>1, <1>2, <3>1, <3>2, <3>3
    <2>4. ASSUME NEW j \in 1 .. L PROVE hooks[j] \in {hooks'[i] : i \in 1 .. L + 1}
      <3>1. CASE j < k
        BY <1>1, <1>2, <1>3, <3>1
      <3>2. CASE j >= k
        <4>1. j + 1 \in 1 .. L + 1 /\ ~(j + 1 < k) /\ j + 1 # k /\ (j + 1) - 1 = j
          BY <1>1, <1>2, <3>2
        <4> QED BY <1>3, <4>1
      <3> QED BY <1>1, <1>2, <3>1, <3>2
    <2>5. k \in 1 .. L + 1 /\ hooks'[k] = h
      BY <1>1, <1>2, <1>3
    <2> QED BY <2>1, <2>2, <2>3, <2>4, <2>5
  <1>6. TypeOK'
    <2>1. next' \in 1 .. Len(hooks') + 1
      <3>1. next \in 1 .. L + 1
        BY DEF ShutdownInv, TypeOK, L
      <3> QED BY <1>1, <1>3, <3>1
    <2> QED BY <1>1, <1>3, <2>1 DEF ShutdownInv, TypeOK
  <1>7. DrainInv'
    BY <1>1 DEF ShutdownInv, DrainInv, DrainedOrAbandoned
  <1>8. /\ IsFiniteSet(late') /\ Cardinality(late) \in Nat
        /\ Cardinality(late') = Cardinality(late) + (IF phase \in Ending THEN 1 ELSE 0)
    <2>1. h \notin late /\ IsFiniteSet(late) /\ Cardinality(late) \in Nat
      BY <1>1, HookFacts DEF ShutdownInv, Registered
    <2> QED BY <1>1, <2>1, FS_AddElement
  <1>9. Registered'
    <2>1. late' \subseteq ToSet(hooks')
      BY <1>1, <1>5 DEF ShutdownInv, Registered
    <2>2. ASSUME NEW i \in 1 .. L + 1, NEW j \in 1 .. L + 1, hooks'[i] = hooks'[j]
          PROVE  i = j
      <3> DEFINE Old(m) == IF m < k THEN m ELSE m - 1
      <3>1. ASSUME NEW m \in 1 .. L + 1, m # k
            PROVE  Old(m) \in 1 .. L /\ hooks'[m] = hooks[Old(m)] /\ hooks'[m] # h
        <4>1. Old(m) \in 1 .. L
          BY <1>1, <1>2, <3>1
        <4>2. hooks'[m] = hooks[Old(m)]
          BY <1>3, <3>1
        <4> QED BY <1>4, <4>1, <4>2
      <3>2. hooks'[k] = h
        BY <1>1, <1>2, <1>3
      <3>3. CASE i = k \/ j = k
        BY <2>2, <3>1, <3>2, <3>3
      <3>4. CASE i # k /\ j # k
        <4>1. Old(i) = Old(j)
          <5>1. hooks[Old(i)] = hooks[Old(j)] /\ Old(i) \in 1 .. L /\ Old(j) \in 1 .. L
            BY <2>2, <3>1, <3>4
          <5> HIDE DEF Old
          <5> QED BY <5>1 DEF ShutdownInv, Registered, L
        <4> QED BY <1>1, <1>2, <3>4, <4>1
      <3> QED BY <3>3, <3>4
    <2>3. \A g \in Hooks : g \notin ToSet(hooks') => runs'[g] = 0
      BY <1>1, <1>5 DEF ShutdownInv, Registered
    <2> QED BY <1>3, <1>8, <2>1, <2>2, <2>3 DEF Registered
  <1>10. Walk'
    BY <1>1, <1>3, HookFacts DEF ShutdownInv, Walk, L
  <1>11. runs[h] = 0
    BY <1>1 DEF ShutdownInv, Registered
  <1>12. Counts'
    <2> SUFFICES ASSUME NEW i \in 1 .. L + 1
                 PROVE  /\ runs[hooks'[i]] <= 1 + Cardinality(late')
                        /\ Passed(i)' /\ hooks'[i] \notin late' => runs[hooks'[i]] >= 1
                        /\ ~Passed(i)' => runs[hooks'[i]] <= Cardinality(late')
      BY <1>1, <1>3 DEF Counts
    <2>0. phase \notin Ending => ~Passed(i)'
      BY <1>1 DEF Passed, ShutdownInv, Walk
    <2>1. CASE i = k
      <3>1. hooks'[i] = h
        BY <1>1, <1>2, <1>3, <2>1
      <3>2. phase \in Ending => h \in late'
        BY <1>1
      <3> QED BY <1>8, <1>11, <2>0, <3>1, <3>2
    <2>2. CASE i # k
      <3>1. PICK j \in 1 .. L : /\ hooks'[i] = hooks[j] /\ j <= i
                                /\ j = IF i < k THEN i ELSE i - 1
        <4>1. CASE i < k
          BY <1>1, <1>2, <1>3, <4>1
        <4>2. CASE i > k
          <5>1. i - 1 \in 1 .. L /\ ~(i < k) /\ i # k /\ i - 1 <= i
            BY <1>1, <1>2, <4>2
          <5> QED BY <1>3, <5>1
        <4> QED BY <1>1, <1>2, <2>2, <4>1, <4>2
      <3>2. Passed(i)' => Passed(j)
        BY <1>1, <3>1, HookFacts DEF Passed
      <3>3. /\ runs[hooks[j]] <= 1 + Cardinality(late)
            /\ Passed(j) /\ hooks[j] \notin late => runs[hooks[j]] >= 1
            /\ ~Passed(j) => runs[hooks[j]] <= Cardinality(late)
            /\ runs[hooks[j]] \in Nat
        BY <3>1, HookFacts DEF ShutdownInv, Counts, L
      <3>4. late \subseteq late'
        BY <1>1
      <3>5. CASE phase \in Ending
        <4>1. runs[hooks[j]] <= Cardinality(late')
          BY <1>8, <3>3, <3>5
        <4> QED BY <1>8, <3>1, <3>2, <3>3, <3>4, <4>1
      <3>6. CASE phase \notin Ending
        <4>1. ~Passed(j)
          BY <3>1, <3>6, HookFacts DEF Passed, ShutdownInv, Walk, L
        <4> QED BY <1>8, <2>0, <3>1, <3>3, <3>6, <4>1
      <3> QED BY <3>5, <3>6
    <2> QED BY <2>1, <2>2
  <1>13. AllCalled'
    <2>1. phase \in {"before", "database", "stopped"} => h \in late'
      BY <1>1 DEF Ending
    <2> QED BY <1>1, <1>5, <2>1 DEF ShutdownInv, AllCalled
  <1> QED BY <1>6, <1>7, <1>9, <1>10, <1>12, <1>13 DEF ShutdownInv

-----------------------------------------------------------------------------
(* The theorems. *)

LEMMA ShutdownStepInv ==
  ASSUME ShutdownInv, DbTypeOK', [Next]_vars
  PROVE  ShutdownInv'
  <1>1. CASE UNCHANGED vars
    BY <1>1, OuterSteps DEF vars
  <1>2. CASE Start \/ Started \/ StartFails \/ Deadline
    BY <1>2, OuterSteps DEF Start, Started, StartFails, Deadline
  <1>3. CASE ListenersClosed \/ CloseInfrastructure \/ InfrastructureClosed \/ Exit
    BY <1>3, OuterSteps DEF ListenersClosed, CloseInfrastructure, InfrastructureClosed, Exit
  <1>4. CASE Shutdown \/ Drain
    BY <1>4, DrainSteps
  <1>5. CASE CallHook \/ HookOver \/ HooksExecuted
    BY <1>5, CallHookInv, HookOverInv, HooksExecutedInv
  <1>6. CASE UserStep /\ phase # "exited"
    BY <1>6, OperationSteps, OnShutdownInv DEF UserStep
  <1>7. CASE UNCHANGED <<phase, armed, manager, hooking>>
    BY <1>7, OuterSteps
  <1> QED BY <1>1, <1>2, <1>3, <1>4, <1>5, <1>6, <1>7 DEF Next, ShutdownStep

(* The server, its hooks and its operations stay in the invariant's states.  *)
THEOREM ServerInvariant == Spec => []ShutdownInv
  <1>1. Init => ShutdownInv
    BY ShutdownInitInv
  <1>2. ShutdownInv /\ DbTypeOK' /\ [Next]_vars => ShutdownInv'
    BY ShutdownStepInv
  <1>3. DbInv => DbTypeOK
    BY DEF DbInv
  <1> QED BY <1>1, <1>2, <1>3, ServerUsesDatabase, ManagerInvariant, PTL DEF Spec

(* Type correctness. *)
THEOREM ServerTypeCorrect == Spec => []TypeOK
  <1>1. ShutdownInv => TypeOK
    BY DEF ShutdownInv
  <1> QED BY <1>1, ServerInvariant, PTL

(* Once hooks run, an operation that still runs is one the drain gave up.    *)
THEOREM DrainedBeforeHooks == Spec => []DrainedOrAbandoned
  <1>1. ShutdownInv => DrainedOrAbandoned
    BY DEF ShutdownInv, DrainInv
  <1> QED BY <1>1, ServerInvariant, PTL

(* The infrastructure closes after every hook that registered in time, and   *)
(* only hooks that registered late have one called twice.                    *)
THEOREM HooksOnce == Spec => []HooksCalledOnce
  <1>1. ASSUME ShutdownInv PROVE HooksCalledOnce
    <2>1. \A h \in Hooks : runs[h] <= 1 + Cardinality(late)
      <3> TAKE h \in Hooks
      <3>1. CASE h \in ToSet(hooks)
        BY <1>1, <3>1, HookFacts DEF ShutdownInv, Counts
      <3>2. CASE h \notin ToSet(hooks)
        BY <1>1, <3>2, HookFacts DEF ShutdownInv, Registered
      <3> QED BY <3>1, <3>2
    <2> QED BY <1>1, <2>1 DEF ShutdownInv, AllCalled, HooksCalledOnce
  <1> QED BY <1>1, ServerInvariant, PTL
=============================================================================
