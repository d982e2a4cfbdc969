SPECIFICATION FairSpec
CONSTANTS
    top = top
    c1 = c1
    c2 = c2
    c3 = c3
    NoFrame = NoFrame
    Top = top
    Frames = {top, c1, c2}
    MaxWrites = 1
    MaxHooks = 1
    HookKinds = {"beforeCommit", "afterCommit", "afterRollback"}
    NewRoots = {c2}
    FailFast = FALSE
INVARIANT TypeOK
INVARIANT WorkFollowsFrames
INVARIANT HooksFollowWork
PROPERTY EveryCallSettles
CHECK_DEADLOCK FALSE
