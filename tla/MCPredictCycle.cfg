CONSTANTS
    p1 = p1
    p2 = p2
    b1 = b1
    b2 = b2
    Products = {p1, p2}
    Brands = {b1, b2}
    Owner <- Catalogue
    Requests = {r1, r2}
SPECIFICATION Spec
INVARIANTS RowsOfVerifiedBrand FailedLeavesNoValue CleanRunIsStored HalfWrittenIsExplained FirstValueLastPrediction
PROPERTIES Answered
CHECK_DEADLOCK FALSE
