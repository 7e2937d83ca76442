SPECIFICATION ScriptsSpec
CONSTANTS
    Users = {u1, u2}
    Keys = {k1}
    Sources = {good, newer, bad, raises}
    Bad = {bad}
    Raises = {raises}
    VMs = {v1, v2}
    FixedN = 1
    Closing = TRUE
    None = None
INVARIANTS
    CompilesOnce
    OneOwner
    FixedIsFixed
PROPERTIES
    CallsEnd
