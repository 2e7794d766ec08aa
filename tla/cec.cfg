SPECIFICATION CecSpec
CONSTANTS
    Timers = {t1, t2}
    Wakes = {w1, w2}
    Appliers = {a1}
    Volumes = {0, 2}
    AmpVolumes = {1}
    MaxCalls = 4
    MaxVolumes = 2
    MaxEvents = 1
INVARIANT VolumeInStep
PROPERTIES StandbyHasReason StopEndsInStandby
CHECK_DEADLOCK FALSE
