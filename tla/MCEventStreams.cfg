SPECIFICATION FairSpec
CONSTANTS
    p1 = p1
    p2 = p2
    c1 = c1
    c2 = c2
    k1 = k1
    k2 = k2
    grant = grant
    revoke = revoke
    e1 = e1
    e2 = e2
    None = None
    Close = Close
    Pods = {p1, p2}
    Processes = {p1, p2}
    Keys = {k1, k2}
    Conns = {c1, c2}
    Changes = {grant, revoke}
    Grants = {grant}
    Emits = {e1, e2}
    Messages = {k1, k2, grant, revoke, e1, e2}
    KeyCloses = {k1, k2}
    Pod <- PodOf
    Key <- KeyOf
    Reach <- ReachOf
    At <- CallAt
    Scenarios <- Cases
    MaxQueue = 2
    Initials = {0, 1}
    Cap = 1
    MaxFaults = 3
INVARIANT TypeOK
INVARIANT KeyCloseIsFinal
INVARIANT FramesInStep
INVARIANT PermissionInStep
PROPERTY CloseArrives
CHECK_DEADLOCK FALSE
