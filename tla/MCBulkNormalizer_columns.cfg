SPECIFICATION Spec
CHECK_DEADLOCK FALSE
CONSTANTS
    Batches = {b1}
    Columns = {"material", "step", "category"}
    Raws = {"wool", "silk", ""}
    Keys = {"wool", "silk", ""}
    Clean <- Lower
    Static = {"silk"}
    MaxInput = 1
INVARIANTS
    BlankIsExplained
PROPERTIES
    BatchesPatched
