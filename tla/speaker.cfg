SPECIFICATION Spec
CONSTANTS
    Rates = {44, 96}
    DeviceRates = {44}
    HwRates = {44, 48}
    Handles = {1, 2}
    MaxSessions = 2
    MaxFiles = 3
    MaxPauses = 2
    MaxReinits = 1
INVARIANTS DeviceAccounted PauseApplied PlayIsHeard RateTold PlaysOnDevice
PROPERTY OpenEnds
CHECK_DEADLOCK FALSE
