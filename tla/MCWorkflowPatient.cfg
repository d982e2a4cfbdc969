SPECIFICATION Spec
CONSTANTS
    start = start
    r1 = r1
    r2 = r2
    x1 = x1
    sv1 = sv1
    sv2 = sv2
    Starter = start
    Retries = {r1}
    Cancels = {x1}
    Servers = {sv1}
    Home <- OneServer
    NumSteps = 3
    Group <- Fork
    Compensable = {0, 1}
    Fallible = {0, 1, 2}
    Terse = {0, 1}
    Resumable = FALSE
    RollbackEnabled = TRUE
    CancelRollback = {x1}
    Watched = {}
    Patient = TRUE
    Faults = {"crash", "db", "store", "compensate"}
INVARIANT TypeOK
INVARIANT GuardReleased
INVARIANT ResultsComplete
INVARIANT RollbackBarrier
INVARIANT NeverOverCompensated
INVARIANT RollbackUndoes
PROPERTY CompensatedInReverse
PROPERTY ImplementsLifecycle
CHECK_DEADLOCK FALSE
