\* No symmetry: TLC cannot combine it with liveness.
CONSTANTS
    Callers = {c1, c2}
    Writers = {w1, w2}
    Answers = {success}
    MaxCommands = 2
    NoWriter = NoWriter
    NoStatus = NoStatus
SPECIFICATION FairSpec
PROPERTIES
    DispatchReturns
    CancelledStreamEnds
