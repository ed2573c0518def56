CONSTANTS
    alice = alice
    bob = bob
    p1 = p1
    p2 = p2
    NoAccount = NoAccount
    Module = Module
    Vault = Vault
    Punks = {p1, p2}
    Traits = {t1}
    Accounts = {alice, bob}
    Costs = {200}
    Bids = {201, 205, 224}
    Wallet = 430
    MaxAttempts = 0
    Duration = 3
    Extension = 3
    Window = 2
SPECIFICATION FairSpec
INVARIANTS
    TypeOK
    EveryWeiAccounted
    BidsCoverCost
    OwnsExactlyOpenPunks
PROPERTIES
    RefinesAuctionHouse
    TimeToAnswer
    EveryAuctionSettles
CHECK_DEADLOCK FALSE
