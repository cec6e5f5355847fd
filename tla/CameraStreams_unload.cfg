SPECIFICATION FairSpec
CONSTANTS
    Keys = {k1, k2}
    Requests = {r1, r2, r3}
    MaxSetups = 2
    NoOne = NoOne
CHECK_DEADLOCK FALSE
INVARIANTS Accounted ServedFromThisSetup OneRefresh
PROPERTIES RestreamCloseEnds
