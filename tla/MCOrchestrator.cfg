SPECIFICATION Spec
CHECK_DEADLOCK FALSE
CONSTANTS
    N = 3
    MaxRetries = 3
    MaxConf = 1
    Threshold = 1
INVARIANTS
    TypeOK
    AnswersOwnRecord
    PendingIsOpen
    NullOnlyAfterAllAttempts
PROPERTIES
    BestAnswerKept
    KeepsPromise
    Delivers
