SPECIFICATION ShutdownFairSpec
CONSTANTS
    Callers = {c1, c2}
    Keys = {k1}
    PoolIds = {1, 2, 3}
    StateIds = {1}
    MaxStates = 1
    TTL = 1
    MaxTime = 0
    MaxVersion = 1
    Events = {"notify", "close", "buildFail", "sweep", "cancel", "recheck", "giveUp"}
    None = None
    Closers = {d1, d2}
INVARIANTS
    ReturnedClean
    InFlightCount
    LastSignal
PROPERTIES
    ShutdownReturns
    CloseDrains
