SPECIFICATION Spec
CONSTANTS
    Callers = {"loader"}
    Ws = "ws"
    Handler = "app"
    Apps = 2
INVARIANTS NoSleepOverToken OnlyDialsAreMissed
PROPERTIES WaitIsBounded StopEndsRun Reconnects
CHECK_DEADLOCK FALSE
