\* One handler of each kind, one update.
CONSTANTS
    Producers = {p1}
    Streams = {s1}
    Updates = {u1}
    MaxUpdates = 1
    MaxStarts = 1
SPECIFICATION LifecycleFairSpec
PROPERTY
    StartReturnsAfterStop
CHECK_DEADLOCK FALSE
