SPECIFICATION FairSpec
CONSTANTS
    s1 = s1
    s2 = s2
    d1 = d1
    d2 = d2
    x1 = x1
    NoToken = NoToken
    Schedules = {s1, s2}
    Bulk = {s2}
    Guarded = {s1}
    Sends = {d1, d2}
    Cancels = {x1}
    MaxAttempts = 2
    Faults = {"crash", "db", "throw", "queue"}
INVARIANT TypeOK
INVARIANT HolderOwnsRow
INVARIANT CancelMeansNotSent
INVARIANT DuplicatesOnlyLost
INVARIANT ScheduledHasJob
PROPERTY ScheduledSettles
PROPERTY ImplementsPromise
CHECK_DEADLOCK FALSE
