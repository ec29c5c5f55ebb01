SPECIFICATION Spec
CHECK_DEADLOCK FALSE
CONSTANTS
    Batches = {b1, b2}
    Columns = {"material"}
    Raws = {"wool"}
    Keys = {"wool"}
    Clean <- Lower
    Static = {}
    MaxInput = 2
INVARIANTS
    CacheHitIsUsed
