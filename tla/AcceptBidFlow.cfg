CONSTANTS
    p1 = p1
    p2 = p2
    Null = Null
    Punks = {p1, p2}
    Returned = {}
    PageBid = 2
    MaxBid = 2
    MinAcceptBid = 1
    Sessions <- MCSessions
    MaxSteps = 2
SPECIFICATION FairSpec
INVARIANTS
    PaidWhatWasReviewed
    DoneMeansSold
    NoPrematureAccept
PROPERTY
    FinalizeIsNoticed
CHECK_DEADLOCK FALSE
