\* Four calls for two ids and two targets, in and between any number of sessions.
CONSTANTS
    Ids = {w1, w2}
    Targets = {t1, t2}
    w1 = w1
    w2 = w2
    t1 = t1
    t2 = t2
    MaxCalls = 4
SYMMETRY Symmetry
SPECIFICATION Spec
INVARIANTS
    TypeOK
    TargetsReached
