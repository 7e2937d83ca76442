SPECIFICATION ReloadSpec
CONSTANTS
    Callers = {c1, c2}
    Keys = {k1}
    PoolIds = {1, 2, 3}
    StateIds = {1, 2}
    MaxStates = 1
    TTL = 1
    MaxTime = 0
    MaxVersion = 1
    Events = {"publish", "notify"}
    None = None
INVARIANTS
    NotifiedIsFresh
