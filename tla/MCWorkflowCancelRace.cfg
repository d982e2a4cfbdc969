SPECIFICATION Spec
CONSTANTS
    start = start
    r1 = r1
    r2 = r2
    x1 = x1
    sv1 = sv1
    sv2 = sv2
    Starter = start
    Retries = {}
    Cancels = {x1}
    Servers = {sv1}
    Home <- OneServer
    NumSteps = 2
    Group <- Chain
    Compensable = {0}
    Fallible = {1}
    Terse = {}
    Resumable = TRUE
    RollbackEnabled = TRUE
    CancelRollback = {}
    Watched = {}
    Patient = FALSE
    Faults = {}
PROPERTY CancelledIsFinal
CHECK_DEADLOCK FALSE
