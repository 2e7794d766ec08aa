SPECIFICATION Spec
CONSTANTS
    Items = {1, 2, 3}
    TrackOf <- MCTrackOf
    Slots <- MCSlots
    Messages = {"insert", "remove", "state", "shuffle", "autoplay", "start"}
    MaxMessages = 3
    Shuffles <- MCShuffles
    Batches = {2}
    Failures = {}
INVARIANT PlaysEachOnce
CHECK_DEADLOCK FALSE
