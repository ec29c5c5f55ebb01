SPECIFICATION Spec
CHECK_DEADLOCK FALSE
CONSTANTS
    Batches = {b1, b2}
    Columns = {"material"}
    Raws = {"Wool", "wool", "silk", "linen"}
    Keys = {"wool", "silk", "linen"}
    Clean <- Lower
    Static = {"linen"}
    MaxInput = 2
INVARIANTS
    OwnValue
    EveryUnknownResolved
    CallBudget
