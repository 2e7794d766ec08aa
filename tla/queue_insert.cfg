SPECIFICATION Spec
CONSTANTS
    Items = {1, 2, 3, 4}
    TrackOf <- MCInsertTrackOf
    Slots <- MCSlots
    Messages = {"append", "insert"}
    MaxMessages = 4
    Shuffles = {}
    Batches = {1}
    Failures = {}
PROPERTY RelabelsSameTrack
CHECK_DEADLOCK FALSE
