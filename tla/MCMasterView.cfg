\* Points, buffers and classes of MCMasterView; four values, one fault, two starts.
CONSTANTS
    AnalogIndices = {1, 2}
    AnalogPoints = {1, 2}
    BinaryIndices = {1}
    BinaryPoints = {1}
    Deadband <- MCDeadband
    FiniteValues = {0, 1, 2, 3}
    NonFiniteValues = {}
    NoPoint = NoPoint
    MaxStarts = 2
    eventBufferConfig <- MCEventBufferConfig
    allowUnsolicited = TRUE
    class_mask <- MCClassMask
    ClassOf <- MCClassOf
    Updated = {"Good"}
    MaxUpdates = 3
    MaxPolls = 1
    MaxFaults = 1
    Nothing = Nothing
SPECIFICATION FairViewSpec
INVARIANT
    ViewFollows
PROPERTY
    EventsAreDelivered
CHECK_DEADLOCK FALSE
