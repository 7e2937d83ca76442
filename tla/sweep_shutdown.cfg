SPECIFICATION Spec
CONSTANTS
    Callers = {c1, c2}
    Keys = {k1, k2}
    PoolIds = {1, 2, 3, 4}
    StateIds = {1, 2, 3, 4, 5}
    MaxStates = 2
    TTL = 1
    MaxTime = 3
    MaxVersion = 0
    Events = {"sweep", "close"}
    None = None
INVARIANTS
    ClosedLeavesNoState
