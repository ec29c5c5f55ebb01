SPECIFICATION ClientSpec
CONSTANTS
    NumKeys = 2
    Cooldown = 2
    Callers = {c1, c2}
    Limit = 1
    MaxAttempts = 2
    RetryDelay = 1
    MaxItems = 2
    Jobs = {"bulk", "choices", "complete", "health"}
INVARIANTS
    TypeOK
    PermitsBalanced
    InFlightBounded
    PostsBounded
    BulkShape
PROPERTIES
    ValidLinesKept
    CallsReturn
