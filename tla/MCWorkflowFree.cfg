SPECIFICATION FairSpec
CONSTANTS
    start = start
    r1 = r1
    r2 = r2
    x1 = x1
    sv1 = sv1
    sv2 = sv2
    Starter = start
    Retries = {r1}
    Cancels = {x1}
    Servers = {sv1, sv2}
    Home <- TwoServers
    NumSteps = 2
    Group <- Chain
    Compensable = {0}
    Fallible = {1}
    Terse = {1}
    Resumable = TRUE
    RollbackEnabled = TRUE
    CancelRollback = {x1}
    Watched = {sv1}
    Patient = FALSE
    Faults = {}
INVARIANT UnsettledHasOwner
PROPERTY EverySettles
PROPERTY SubscribersReleased
CHECK_DEADLOCK FALSE
