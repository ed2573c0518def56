CONSTANTS
    p1 = p1
    p2 = p2
    Null = Null
    Punks = {p1, p2}
    Returned = {p2}
    PageBid = 2
    MaxBid = 2
    MinAcceptBid = 1
    Sessions <- MCSessions
    MaxSteps = 3
SPECIFICATION Spec
INVARIANTS
    ReportsRealSale
CHECK_DEADLOCK FALSE
