SPECIFICATION FairSpec
CONSTANTS
    Callers = {c1, c2, c3}
    Keys = {k1}
    PoolIds = {1, 2, 3, 4}
    StateIds = {1}
    MaxStates = 1
    TTL = 1
    MaxTime = 0
    MaxVersion = 1
    Events = {"cancel", "notify", "publish", "buildFail"}
    None = None
INVARIANTS
    NoStrandedSlot
PROPERTIES
    CallsDrain
