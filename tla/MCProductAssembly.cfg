CONSTANTS
    Products = {1, 2}
    Categories = {"clothes", "tops", "shirts"}
    Canonical <- Synonyms
    StartRows <- Rows
    StartCategory <- InCategory
    StartParent <- Chain
    NewRows <- Written
    MaxEdits = 2
SPECIFICATION Spec
INVARIANTS EveryPartWasTrue MassesMatchNames PathIsAncestry OneInputEach RefusedForOwnRow
CHECK_DEADLOCK FALSE
