\* Two threads in dispatch(), two stream handlers, three commands, two answers.
CONSTANTS
    Callers = {c1, c2}
    Writers = {w1, w2}
    Answers = {success, hardware_error}
    MaxCommands = 3
    NoWriter = NoWriter
    NoStatus = NoStatus
SPECIFICATION Spec
SYMMETRY Symmetry
INVARIANTS
    TypeOK
    PendingIsInFlight
    NewestStreamServes
    WritesAreSafe
    OutcomeIsExplained
    RefusedIsSettled
PROPERTY
    AnswersAreFinal
