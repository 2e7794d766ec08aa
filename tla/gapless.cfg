SPECIFICATION Spec
CONSTANTS
    N = 3
    Seeks = 1
INVARIANTS SlotsPlayable HeardInOrder NothingCutOff
PROPERTIES StopEndsSession SessionEnds
CHECK_DEADLOCK FALSE
