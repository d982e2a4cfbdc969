SPECIFICATION FairSpec
CONSTANTS
    i1 = i1
    i2 = i2
    c1 = c1
    c2 = c2
    l1 = l1
    l2 = l2
    o1 = o1
    h1 = h1
    h2 = h2
    None = None
    Inits = {i1, i2}
    Closes = {c1, c2}
    Loops = {l1, l2}
    MaxRetries = 2
    Threshold = 2
    StartInit = i1
    ShutdownClose = c2
    ServerCalls = {i1, i2, c2, l1}
    Ops = {o1}
    Hooks = {h1, h2}
    Order <- HookOrder
INVARIANT TypeOK
INVARIANT HandsOutOpenPool
INVARIANT NoStrayPool
INVARIANT ClosedStaysEmpty
INVARIANT OneRebuild
INVARIANT DrainedOrAbandoned
INVARIANT HooksCalledOnce
PROPERTY ShutdownEnds
CHECK_DEADLOCK FALSE
