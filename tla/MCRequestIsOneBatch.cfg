\* Two handler threads, two calls of two points each, one start and stop.
CONSTANTS
    Producers = {p1, p2}
    Updates <- MCUpdates
    MaxUpdates = 4
    MaxStarts = 1
    Requests <- MCRequests
    IndexWidth = 2
    MaxCalls = 2
SPECIFICATION UpdatePointsSpec
PROPERTY
    RequestIsOneBatch
CHECK_DEADLOCK FALSE
