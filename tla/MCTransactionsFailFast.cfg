SPECIFICATION Spec
CONSTANTS
    top = top
    c1 = c1
    c2 = c2
    c3 = c3
    NoFrame = NoFrame
    Top = top
    Frames = {top, c1, c2}
    MaxWrites = 1
    MaxHooks = 1
    HookKinds = {}
    NewRoots = {}
    FailFast = TRUE
SYMMETRY InnerCalls
INVARIANT ResolvedAsDurableAsParent
