SPECIFICATION ExecFairSpec
CONSTANTS
    c1 = c1
    c2 = c2
    Callers = {c1, c2}
    Users <- MCUsers
    VMs = {v1, v2}
    Cap = 2
    MaxLost = 1
    Events = {"loops", "buildFail", "handlePanics", "cancel", "close"}
    None = None
INVARIANTS
    ExecTypeOK
    SlotsSafe
    EndedOwnsNothing
    BoundToOwner
    SomebodyGoesOn
PROPERTIES
    CappedCallsEnd
