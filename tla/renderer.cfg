SPECIFICATION Spec
CONSTANTS
    Runners = {r1, r2}
    Last = 1
    MaxLoads = 2
    MaxMessages = 5
INVARIANT NoOldPosition
PROPERTIES EchoRevivesNothing NewQueueStarts
CHECK_DEADLOCK FALSE
