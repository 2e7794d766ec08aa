SPECIFICATION Spec
CONSTANTS
    Readers = {1, 2}
    Size = 3
    Seeks = 2
INVARIANTS NoLostWakeup ReadsWhatIsThere EndIsTheEnd
PROPERTY StopEndsReading
CHECK_DEADLOCK FALSE
