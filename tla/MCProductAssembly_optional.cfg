CONSTANTS
    Products = {1, 2}
    Categories = {"clothes", "tops", "shirts"}
    Canonical <- Synonyms
    StartRows <- Rows
    StartCategory <- InCategory
    StartParent <- Chain
    NewRows <- Written
    MaxEdits = 0
SPECIFICATION Spec
INVARIANT MigrationIsOptional
CHECK_DEADLOCK FALSE
