CONSTANTS
    alice = alice
    carol = carol
    bob = bob
    NoAccount = NoAccount
    House = House
    Accounts = {alice, bob, carol}
    PayoutRecipient = bob
    Bids = {1, 100, 104, 105, 120}
    Wallet = 225
    Duration = 3
    Extension = 3
    Window = 2
    MaxQueue = 4
    MaxRestarts = 2
SPECIFICATION IndexedSpec
INVARIANTS
    TypeOK
    Solvent
    TablesMirrorTitle
PROPERTIES
    RefinesAuctionHouse
    NeverStranded
    BidEndsInAward
CHECK_DEADLOCK FALSE
