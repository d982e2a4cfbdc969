SPECIFICATION Spec
CONSTANTS
    top = top
    c1 = c1
    c2 = c2
    c3 = c3
    NoFrame = NoFrame
    Top = top
    Frames = {top, c1, c2, c3}
    MaxWrites = 1
    MaxHooks = 1
    HookKinds = {"afterRollback"}
    NewRoots = {}
    FailFast = FALSE
SYMMETRY InnerCalls
INVARIANT SavepointsNest
PROPERTY ImplementsNesting
