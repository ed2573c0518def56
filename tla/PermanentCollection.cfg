\* The records core under every order of records and settlements.
CONSTANTS
    p1 = p1
    p2 = p2
    p3 = p3
    p4 = p4
    NoPunk = NoPunk
    Punks = {p1, p2, p3, p4}
    TraitCount = 4
    Carries <- MCCarries
    CarrierCount <- MCCarrierCount
    SolePunk = p1
    SoleTrait = 2
    Accounts = {alice}
    Prices = {1}
    MaxAcquisitions = 5
SPECIFICATION Spec
INVARIANTS
    TypeOK
    PendingMatchesAuctions
    OneVaultedPunkPerTrait
    LogMatchesCustody
    SoleCarrierNeverWasted
    RarestPathPreserved
PROPERTIES
    HistoryIsKept
    RefinesTraitLedger
CHECK_DEADLOCK FALSE
