\* One caller and one stream, as in the program; one restart, one command per process.
CONSTANTS
    Callers = {c1}
    Writers = {w1}
    Answers = {success}
    MaxCommands = 1
    MaxRestarts = 1
    NoWriter = NoWriter
    NoStatus = NoStatus
SPECIFICATION RestartSpec
INVARIANT
    CommandIdIsUnique
