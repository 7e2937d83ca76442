SPECIFICATION ExecFairSpec
CONSTANTS
    c1 = c1
    c2 = c2
    Callers = {c1}
    Users <- MCUsersOfOne
    VMs = {v1, v2}
    Cap = 2
    MaxLost = 0
    Events = {"loops", "chunkLoops"}
    None = None
PROPERTIES
    CappedCallsEnd
