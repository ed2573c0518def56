CONSTANTS
    p1 = p1
    p2 = p2
    p3 = p3
    alice = alice
    bob = bob
    NoPunk = NoPunk
    NoAccount = NoAccount
    NoProof = NoProof
    Module = Module
    Vault = Vault
    Punks = {p2, p3, p1}
    TraitCount = 3
    Carries <- MCCarries
    CarrierCount <- MCCarrierCount
    SolePunk = p1
    SoleTrait = 2
    Accounts = {alice, bob}
    Prices = {100}
    Bids = {103}
    Referrers = {}
    Wallet = 103
    Duration = 2
    Extension = 2
    Window = 1
    MinBidForListing = 110
    FinderFeeFixedCap = 1
    AllowlistDelay = 1
    AllowlistCandidates = {}
    Inflows = {102}
    MaxLiveBid = 204
    MaxAcquisitions = 3
    NoRow = NoRow
    NoTrait = NoTrait
SPECIFICATION IndexedSpec
INVARIANT AuctionRowsNameTarget
CHECK_DEADLOCK FALSE
