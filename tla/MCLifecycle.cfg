\* Two handlers of each kind, two updates.
CONSTANTS
    Producers = {p1, p2}
    Streams = {s1, s2}
    Updates = {u1}
    MaxUpdates = 2
    MaxStarts = 1
SPECIFICATION LifecycleFairSpec
INVARIANTS
    LifecycleTypeOK
    OutstationOutlivesFlush
    AnsweredIsApplied
    NoHandlerAfterExit
PROPERTY
    SignalEndsServingProcess
CHECK_DEADLOCK FALSE
