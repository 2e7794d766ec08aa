SPECIFICATION Spec
CONSTANTS
    Items = {1, 2, 3}
    TrackOf <- MCTrackOf
    Slots <- MCSlots
    Messages = {"append", "remove"}
    MaxMessages = 3
    Shuffles = {}
    Batches = {1, 2}
    Failures = {}
INVARIANT NoPanic
CHECK_DEADLOCK FALSE
