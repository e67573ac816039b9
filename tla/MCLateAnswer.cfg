\* One caller, as in the program, one stream, one command.
CONSTANTS
    Callers = {c1}
    Writers = {w1}
    Answers = {success}
    MaxCommands = 1
    NoWriter = NoWriter
    NoStatus = NoStatus
SPECIFICATION Spec
INVARIANT
    LateAnswerIsRefused
