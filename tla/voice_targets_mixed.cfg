\* Two calls for two ids in one session.
CONSTANTS
    Ids = {w1, w2}
    Targets = {t1, t2}
    w1 = w1
    w2 = w2
    t1 = t1
    t2 = t2
    MaxCalls = 2
SYMMETRY Symmetry
SPECIFICATION Spec
INVARIANT TargetsAsAsked
