CONSTANTS
    p1 = p1
    p2 = p2
    p3 = p3
    alice = alice
    bob = bob
    NoPunk = NoPunk
    NoAccount = NoAccount
    NoProof = NoProof
    Module = Module
    Vault = Vault
    Punks = {p1, p2}
    TraitCount = 3
    Carries <- MCCarries
    CarrierCount <- MCCarrierCount
    SolePunk = p1
    SoleTrait = 2
    Accounts = {alice, bob}
    Prices = {100}
    Bids = {103, 105}
    Referrers = {}
    Wallet = 105
    Duration = 2
    Extension = 2
    Window = 1
    MinBidForListing = 110
    FinderFeeFixedCap = 1
    AllowlistDelay = 1
    AllowlistCandidates = {alice}
    Inflows = {102}
    MaxLiveBid = 204
    MaxAcquisitions = 2
    NoRow = NoRow
    NoTrait = NoTrait
SPECIFICATION IndexedSpec
INVARIANTS
    TablesMirrorRecords
    TablesMirrorAuctions
PROPERTY
    EveryAcquisitionSettles
CHECK_DEADLOCK FALSE
