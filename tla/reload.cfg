SPECIFICATION ReloadSpec
CONSTANTS
    Callers = {c1, c2}
    Keys = {k1}
    PoolIds = {1, 2, 3}
    StateIds = {1, 2, 3}
    MaxStates = 1
    TTL = 0
    MaxTime = 1
    MaxVersion = 1
    Events = {"publish", "notify", "loadFail", "sweep", "close"}
    None = None
VIEW ReloadView
SYMMETRY ReloadSymmetry
INVARIANTS
    ApartIsFresh
    CleanIsFresh
    CurrentIsNewest
    CachedIsFresh
