\* One strand, as in the program; two streams, two commands, a restart or a break.
CONSTANTS
    Strand = c1
    Callers = {c1}
    Writers = {w1, w2}
    Answers = {"SUCCESS"}
    MaxCommands = 2
    NoWriter = NoWriter
    NoStatus = NoStatus
    MaxRestarts = 1
    Crobs <- MCCrobs
    Typed <- MCTyped
    OtherTasks <- MCOtherTasks
    MaxDialogues = 1
    MaxTasks = 2
    MaxFaults = 1
    Int16Range = 16
    Invalid = Invalid
    Nothing = Nothing
SPECIFICATION FairPathSpec
INVARIANTS
    ClientSeesOperatesOnce
    SuccessIsTheClientsAnswer
    OneCommandPerDialogue
PROPERTY
    StreamIsRestored
CHECK_DEADLOCK FALSE
