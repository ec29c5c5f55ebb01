CONSTANTS
    Clients = {c1, c2}
    MaxRequests = 2
    WindowSeconds = 1
    TicksPerSecond = 2
    MaxTime = 5
    MaxLag = 2
SPECIFICATION Spec
INVARIANT WindowBound
PROPERTIES RejectsOnlyFullWindow RetryAfterIsEnough
