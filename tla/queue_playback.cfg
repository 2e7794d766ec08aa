SPECIFICATION Spec
CONSTANTS
    Items = {1, 2, 3, 4}
    TrackOf <- MCTrackOf
    Slots <- MCSlots
    Messages = {"append", "state", "seek", "load", "clear", "stop"}
    MaxMessages = 3
    Shuffles = {}
    Batches = {2}
    Failures = {"failed"}
INVARIANTS WindowAligned RestingLoaderIsDone
PROPERTIES ImplementsPlayCursor ConsumeTerminates
