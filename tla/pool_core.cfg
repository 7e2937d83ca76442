SPECIFICATION Spec
CONSTANTS
    Callers = {c1, c2, c3}
    Keys = {k1, k2}
    PoolIds = {1, 2, 3, 4, 5}
    StateIds = {1, 2}
    MaxStates = 2
    TTL = 1
    MaxTime = 0
    MaxVersion = 1
    Events = {"notify", "close", "loadFail", "buildFail", "cancel"}
    None = None
VIEW View
SYMMETRY Symmetry
INVARIANTS
    TypeOK
    IInv
    HandedOutOpen
    LiveIsIdlePlusInUse
    CapRespected
    CheckedOutExact
    RetiredPoolsAreEmpty
    ClosedLeavesNoState
    SingleFlight
PROPERTIES
    NeverClobbered
    ImplementsSlots
