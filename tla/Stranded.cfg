\* The records core under every order of records and settlements: the last path to a scarce trait can be lost.
CONSTANTS
    p1 = p1
    p2 = p2
    p3 = p3
    p4 = p4
    NoPunk = NoPunk
    Punks = {p1, p2, p3, p4}
    TraitCount = 4
    Carries <- MCCarries
    CarrierCount <- MCCarrierCount
    SolePunk = p1
    SoleTrait = 2
    Accounts = {alice}
    Prices = {1}
    MaxAcquisitions = 6
SPECIFICATION Spec
INVARIANT NoTraitStranded
CHECK_DEADLOCK FALSE
