SPECIFICATION Spec
CONSTANTS
    Keys = {k1, k2, k3}
    Downloads = {d1, d2, d3}
    MaxConc = 1
    MaxFiles = 1
    MaxCalls = 4
    MaxCrashes = 1
    CreateMayFail = TRUE
INVARIANTS SlotsCounted OneWriter PartialIsActive
PROPERTY PendingServed
CHECK_DEADLOCK FALSE
