SPECIFICATION Spec
CONSTANTS
    t1 = t1
    t2 = t2
    t3 = t3
    f1 = f1
    f2 = f2
    i1 = i1
    i2 = i2
    Root = Root
    NoId = NoId
    Nobody = Nobody
    Tasks = {t1, t2}
    Frames = {f1, f2}
    Ids = {i1, i2}
    Calm = FALSE
SYMMETRY Interchangeable
CHECK_DEADLOCK FALSE
INVARIANT QueriesRunBound
