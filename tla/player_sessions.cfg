SPECIFICATION LifeSpec
CONSTANTS
    Runs = {r1, r2, r3}
    MaxMessages = 5
INVARIANTS OneSession NoStaleStop
PROPERTY ExhaustedHasCause
CHECK_DEADLOCK FALSE
