--------------------------- MODULE DatabaseManager ---------------------------
(***************************************************************************)
(* The process-wide database of @spfn/core (packages/core/src/db/manager): *)
(* one pool in a global slot, put there by initDatabase, replaced by       *)
(* rebuild loops that a periodic check or a run of query errors starts,    *)
(* and closed by closeDatabase.  An action is what runs between two awaits. *)
(* Left out: external providers, pools set by hand (setDatabase) and the   *)
(* replica, whose pool is created, swapped and closed with the other one.  *)
(***************************************************************************)
EXTENDS Integers, FiniteSets

CONSTANTS
    Inits,       \* initDatabase() calls
    Closes,      \* closeDatabase() calls
    Loops,       \* checks and forced reconnects, each may become a rebuild loop
    None,        \* no pool, no call
    MaxRetries,  \* rebuilds a loop tries (healthCheck.maxRetries)
    Threshold    \* query errors that force a reconnect

ASSUME ManagerAssumption ==
    /\ Inits \cap Closes = {} /\ Inits \cap Loops = {} /\ Closes \cap Loops = {}
    /\ None \notin Inits \cup Closes \cup (Loops \X Nat) \cup (Inits \X Nat)
    /\ MaxRetries \in Nat \ {0}
    /\ Threshold \in Nat \ {0}

Calls == Inits \cup Closes \cup Loops
Pools == (Inits \X {1}) \cup (Loops \X (1 .. MaxRetries))   \* who created it, in which try

VARIABLES
    slot,            \* the pool getDatabase() hands out
    pool,            \* what became of each pool
    isClosing, isReconnecting,
    checking,        \* the periodic check runs
    init, closing,   \* the calls that initPromise and closePromise belong to
    pc, try,         \* where each call and loop is; a loop's attempt
    errors,          \* recent connection errors
    outlived,        \* loops that were under way when a close stopped them
    dropped          \* pools that nobody closed, see NoStrayPool

flags   == <<isClosing, isReconnecting, checking>>
locks   == <<init, closing>>
where   == <<pc, try>>
history == <<outlived, dropped>>
dbVars  == <<slot, pool, flags, locks, where, errors, history>>

Rebuilding == {"sleeping", "creating", "testing"}
Labels == {"idle", "checking", "waiting", "ending", "joined", "done", "failed"} \cup Rebuilding

DbTypeOK ==
    /\ slot \in Pools \cup {None}
    /\ pool \in [Pools -> {"none", "open", "closed"}]
    /\ isClosing \in BOOLEAN /\ isReconnecting \in BOOLEAN /\ checking \in BOOLEAN
    /\ init \in Inits \cup {None} /\ closing \in Closes \cup {None}
    /\ pc \in [Calls -> Labels]
    /\ try \in [Loops -> 1 .. MaxRetries]
    /\ errors \in 0 .. Threshold - 1
    /\ outlived \subseteq Loops /\ dropped \subseteq Pools

(* At most the given calls and loops will be made. *)
DbInit(some) ==
    /\ slot = None /\ pool = [p \in Pools |-> "none"]
    /\ isClosing = FALSE /\ isReconnecting = FALSE /\ checking = FALSE
    /\ init = None /\ closing = None
    /\ pc = [c \in Calls |-> IF c \in some THEN "idle" ELSE "done"]
    /\ try = [l \in Loops |-> 1]
    /\ errors = 0 /\ outlived = {} /\ dropped = {}

Goto(c, label) == pc' = [pc EXCEPT ![c] = label]

-----------------------------------------------------------------------------
(* initDatabase *)

InitCall(i) ==
    /\ pc[i] = "idle"
    /\ IF isClosing THEN Goto(i, "failed") /\ UNCHANGED init
       ELSE IF slot # None THEN Goto(i, "done") /\ UNCHANGED init
       ELSE IF init # None THEN Goto(i, "joined") /\ UNCHANGED init
       ELSE Goto(i, "creating") /\ init' = i
    /\ UNCHANGED <<slot, pool, flags, closing, try, errors, history>>

(* Another call's promise is awaited; it fails like that one. *)
InitJoined(i) ==
    /\ pc[i] = "joined" /\ i \in Inits
    /\ init = None
    /\ Goto(i, IF slot = None THEN "failed" ELSE "done")
    /\ UNCHANGED <<slot, pool, flags, locks, try, errors, history>>

(* createDatabaseFromEnv connects, or gives up after its own retries. *)
InitCreates(i) ==
    /\ i \in Inits /\ pc[i] = "creating"
    /\ \/ /\ Goto(i, "testing") /\ pool' = [pool EXCEPT ![<<i, 1>>] = "open"]
          /\ UNCHANGED init
       \/ /\ Goto(i, "failed") /\ init' = None
          /\ UNCHANGED pool
    /\ UNCHANGED <<slot, flags, closing, try, errors, history>>

(* The test failed, or a close began meanwhile: the new pool is closed. *)
InitDiscards(i) ==
    /\ i \in Inits /\ pc[i] = "testing"
    /\ pool' = [pool EXCEPT ![<<i, 1>>] = "closed"]
    /\ Goto(i, "failed") /\ init' = None
    /\ UNCHANGED <<slot, flags, closing, try, errors, history>>

(* What is in the slot by now, put there by a loop, is overwritten.          *)
InitStores(i) ==
    /\ i \in Inits /\ pc[i] = "testing"
    /\ ~isClosing
    /\ slot' = <<i, 1>>
    /\ dropped' = dropped \cup ({slot} \ {None})
    /\ checking' = TRUE
    /\ Goto(i, "done") /\ init' = None
    /\ UNCHANGED <<pool, isClosing, isReconnecting, closing, try, errors, outlived>>

-----------------------------------------------------------------------------
(* closeDatabase *)

(* From the wait for an initialisation up to the wait for the pool to end:   *)
(* the check is stopped and isReconnecting cleared, the loops are not.       *)
Teardown(c) ==
    IF slot = None
    THEN /\ Goto(c, "done")
         /\ isClosing' = FALSE /\ closing' = None
         /\ UNCHANGED <<pool, isReconnecting, checking, outlived>>
    ELSE /\ Goto(c, "ending")
         /\ isClosing' = TRUE /\ closing' = c
         /\ checking' = FALSE /\ isReconnecting' = FALSE
         /\ pool' = [pool EXCEPT ![slot] = "closed"]
         /\ outlived' = outlived \cup {l \in Loops : pc[l] \in Rebuilding \cup {"checking"}}

CloseCall(c) ==
    /\ c \in Closes /\ pc[c] = "idle"
    /\ IF closing # None
       THEN Goto(c, "joined") /\ UNCHANGED <<pool, flags, closing, outlived>>
       ELSE IF init # None
       THEN /\ Goto(c, "waiting") /\ isClosing' = TRUE /\ closing' = c
            /\ UNCHANGED <<pool, isReconnecting, checking, outlived>>
       ELSE Teardown(c)
    /\ UNCHANGED <<slot, init, try, errors, dropped>>

(* The initialisation has ended, one way or the other. *)
CloseProceeds(c) ==
    /\ c \in Closes /\ pc[c] = "waiting"
    /\ init = None
    /\ Teardown(c)
    /\ UNCHANGED <<slot, init, try, errors, dropped>>

(* Mutant: the slot keeps the pool that was closed. *)
CloseKeepsSlot(c) ==
    /\ c \in Closes /\ pc[c] = "ending"
    /\ isClosing' = FALSE /\ closing' = None
    /\ Goto(c, "done")
    /\ UNCHANGED <<slot, pool, isReconnecting, checking, init, try, errors, history>>

CloseEnds(c) ==
    /\ c \in Closes /\ pc[c] = "ending"
    /\ slot' = None
    /\ isClosing' = FALSE /\ closing' = None
    /\ Goto(c, "done")
    /\ UNCHANGED <<pool, isReconnecting, checking, init, try, errors, history>>

CloseJoined(c) ==
    /\ c \in Closes /\ pc[c] = "joined"
    /\ closing = None
    /\ Goto(c, "done")
    /\ UNCHANGED <<slot, pool, flags, locks, try, errors, history>>

-----------------------------------------------------------------------------
(* Health checks and rebuild loops *)

(* Mutant: a loop starts without looking at isReconnecting. *)
AttemptUncoalesced(l) ==
    /\ isReconnecting' = TRUE
    /\ IF ~isClosing THEN Goto(l, "creating") /\ UNCHANGED try
       ELSE Goto(l, "sleeping") /\ UNCHANGED try

(* attemptReconnection up to its first await: one loop at a time; the first  *)
(* attempt is made at once, and fails at once while the database closes.     *)
AttemptReconnection(l) ==
    IF isReconnecting
    THEN Goto(l, "done") /\ UNCHANGED <<isReconnecting, try>>
    ELSE IF ~isClosing
    THEN Goto(l, "creating") /\ isReconnecting' = TRUE /\ UNCHANGED try
    ELSE IF MaxRetries = 1
    THEN Goto(l, "done") /\ UNCHANGED <<isReconnecting, try>>
    ELSE Goto(l, "sleeping") /\ isReconnecting' = TRUE /\ try' = [try EXCEPT ![l] = 2]

(* The interval fires: skipped while a loop runs, or the database is tested. *)
Tick(l) ==
    /\ l \in Loops /\ pc[l] = "idle"
    /\ checking /\ ~isReconnecting
    /\ Goto(l, "checking")
    /\ UNCHANGED <<slot, pool, flags, locks, try, errors, history>>

CheckEnds(l) ==
    /\ pc[l] = "checking"
    /\ \/ Goto(l, "done") /\ UNCHANGED <<isReconnecting, try>>
       \/ AttemptReconnection(l)
    /\ UNCHANGED <<slot, pool, isClosing, checking, locks, errors, history>>

(* Mutant: a reconnect is also forced on a database nobody initialised. *)
TriggerAnyway(l) ==
    /\ pc[l] = "idle"
    /\ IF ~isClosing THEN AttemptReconnection(l)
       ELSE Goto(l, "done") /\ UNCHANGED <<isReconnecting, try>>

(* triggerForceReconnect: not before an initialisation, nor during a close. *)
TriggerForceReconnect(l) ==
    /\ pc[l] = "idle"
    /\ IF slot # None /\ ~isClosing THEN AttemptReconnection(l)
       ELSE Goto(l, "done") /\ UNCHANGED <<isReconnecting, try>>

ForceReconnect(l) ==
    /\ TriggerForceReconnect(l)
    /\ UNCHANGED <<slot, pool, isClosing, checking, locks, errors, history>>

(* A query failed for its connection.  Errors are forgotten after a while.   *)
ReportDatabaseError ==
    /\ ~isReconnecting
    /\ IF errors + 1 < Threshold
       THEN /\ errors' = errors + 1
            /\ UNCHANGED <<isReconnecting, where>>
       ELSE /\ errors' = 0
            /\ \E l \in Loops : TriggerForceReconnect(l)
    /\ UNCHANGED <<slot, pool, isClosing, checking, locks, history>>

ForgetErrors ==
    /\ errors > 0
    /\ errors' \in 0 .. errors - 1
    /\ UNCHANGED <<slot, pool, flags, locks, where, history>>

(* Mutant: one attempt too many. *)
AttemptFailedOnceMore(l) ==
    IF try[l] <= MaxRetries
    THEN Goto(l, "sleeping") /\ try' = [try EXCEPT ![l] = @ + 1] /\ UNCHANGED isReconnecting
    ELSE Goto(l, "done") /\ isReconnecting' = FALSE /\ UNCHANGED try

(* The attempt failed: sleep and try again, or leave it to the next check.   *)
AttemptFailed(l) ==
    IF try[l] < MaxRetries
    THEN Goto(l, "sleeping") /\ try' = [try EXCEPT ![l] = @ + 1] /\ UNCHANGED isReconnecting
    ELSE Goto(l, "done") /\ isReconnecting' = FALSE /\ UNCHANGED try

(* The next attempt: it looks at isClosing, and at nothing else. *)
Retry(l) ==
    /\ pc[l] = "sleeping"
    /\ IF isClosing THEN AttemptFailed(l)
       ELSE Goto(l, "creating") /\ UNCHANGED <<isReconnecting, try>>
    /\ UNCHANGED <<slot, pool, isClosing, checking, locks, errors, history>>

RebuildCreates(l) ==
    /\ l \in Loops /\ pc[l] = "creating"
    /\ \/ /\ pool' = [pool EXCEPT ![<<l, try[l]>>] = "open"]
          /\ Goto(l, "testing") /\ UNCHANGED <<isReconnecting, try>>
       \/ AttemptFailed(l) /\ UNCHANGED pool
    /\ UNCHANGED <<slot, isClosing, checking, locks, errors, history>>

(* The new pool does not answer: the attempt fails and the pool is left.     *)
RebuildTestFails(l) ==
    /\ l \in Loops /\ pc[l] = "testing"
    /\ dropped' = dropped \cup {<<l, try[l]>>}
    /\ AttemptFailed(l)
    /\ UNCHANGED <<slot, pool, isClosing, checking, locks, errors, outlived>>

(* Mutant: isClosing is not read again before the swap. *)
SwapWhileClosing(l) ==
    /\ slot' = <<l, try[l]>>
    /\ pool' = IF slot = None THEN pool ELSE [pool EXCEPT ![slot] = "closed"]
    /\ Goto(l, "done") /\ isReconnecting' = FALSE /\ UNCHANGED try

(* What follows the test: a close that has begun means the new pool is       *)
(* closed, otherwise it takes the old one's place, which is closed.          *)
SwapOrDiscard(l) ==
    IF isClosing
    THEN /\ pool' = [pool EXCEPT ![<<l, try[l]>>] = "closed"]
         /\ AttemptFailed(l) /\ UNCHANGED slot
    ELSE /\ slot' = <<l, try[l]>>
         /\ pool' = IF slot = None THEN pool ELSE [pool EXCEPT ![slot] = "closed"]
         /\ Goto(l, "done") /\ isReconnecting' = FALSE /\ UNCHANGED try

RebuildSwaps(l) ==
    /\ l \in Loops /\ pc[l] = "testing"
    /\ SwapOrDiscard(l)
    /\ UNCHANGED <<isClosing, checking, locks, errors, history>>

-----------------------------------------------------------------------------

DbStep ==
    \/ \E i \in Inits : InitJoined(i) \/ InitCreates(i) \/ InitDiscards(i) \/ InitStores(i)
    \/ \E c \in Closes : CloseProceeds(c) \/ CloseEnds(c) \/ CloseJoined(c)
    \/ \E l \in Loops :
         \/ Tick(l) \/ CheckEnds(l) \/ ForceReconnect(l) \/ Retry(l)
         \/ RebuildCreates(l) \/ RebuildTestFails(l) \/ RebuildSwaps(l)
    \/ ReportDatabaseError \/ ForgetErrors

DbCall == (\E i \in Inits : InitCall(i)) \/ (\E c \in Closes : CloseCall(c))

DbNext == DbStep \/ DbCall

DbSpec == (\E some \in SUBSET Calls : DbInit(some)) /\ [][DbNext]_dbVars

-----------------------------------------------------------------------------
(* Properties *)

(* The pool that getDatabase() hands out is never one that has been closed,  *)
(* unless a close is under way: rebuilds that overlap, a discarded            *)
(* initialisation and a loop that outlived a close all leave an open one.    *)
HandsOutOpenPool == slot # None /\ ~isClosing => pool[slot] = "open"

(* Every open pool is the one in use or in the hands of a call that will     *)
(* install or close it, so that a close ends all connections.  Two ways of   *)
(* losing one are known: a rebuilt pool that fails its test, and one that a  *)
(* loop swapped in while an initialisation was under way.                    *)
InHand(p) == pc[p[1]] = "testing" /\ (p[1] \in Loops => p[2] = try[p[1]])
NoStrayPool ==
    \A p \in Pools : pool[p] = "open" => p = slot \/ InHand(p) \/ p \in dropped

(* The isClosing guards keep a pool out of a closed manager, where nobody    *)
(* would close it: after a close, and until the next initialisation, the     *)
(* slot is empty unless a rebuild began before the close.                    *)
ClosedStaysEmpty ==
    slot # None /\ ~checking /\ closing = None => outlived # {} /\ slot[1] \in Loops

(* Rebuilds are coalesced: two at once take a loop that outlived a close.    *)
OneRebuild ==
    LET running == {l \in Loops : pc[l] \in Rebuilding} IN
    /\ Cardinality(running) <= 1 + Cardinality(outlived)
    /\ outlived = {} => (isReconnecting <=> running # {})
=============================================================================
