\* Two handler threads, two calls of two points each, started and stopped twice.
CONSTANTS
    Producers = {p1, p2}
    Updates <- MCUpdates
    MaxUpdates = 4
    MaxStarts = 2
    Requests <- MCRequests
    IndexWidth = 2
    MaxCalls = 2
SPECIFICATION FairUpdatePointsSpec
INVARIANTS
    OneFlushThread
    NothingLostOrReordered
    NoLostWakeup
    StopDrains
    AnsweredBeforeStopIsApplied
PROPERTIES
    ImplementsChannel
    RunningBridgeApplies
    ControlReturns
CHECK_DEADLOCK FALSE
