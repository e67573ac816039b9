\* Values 0..4 and NaN, deadband 1, started twice.
CONSTANTS
    NaN = NaN
    AnalogIndices = {0, 7}
    BinaryIndices = {0}
    AnalogPoints = {0}
    BinaryPoints = {0}
    Deadband <- MCDeadband
    FiniteValues <- MCFinite
    NonFiniteValues <- MCNonFinite
    NoPoint = NoPoint
    MaxStarts = 2
SPECIFICATION Spec
INVARIANTS
    TypeOK
    AnalogEventsFollow
    BinaryEventsFollow
PROPERTY
    FiniteQualityChangeIsNoEvent
CHECK_DEADLOCK FALSE
