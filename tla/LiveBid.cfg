CONSTANTS
    seller = seller
    finder = finder
    Accounts = {seller, finder}
    MinBidForListing = 200
    FinderFeeFixedCap = 1
    AllowlistDelay = 1
    MinStreamWei = 10
    KeeperRewardCap = 1
    ThresholdHi = 350
    Seed = 300
    SweepCaps = {100, 200}
    Cooldowns = {1, 2}
    Thresholds = {0}
    Inflows = {200}
    Forced = {150}
    Prices = {200, 480}
    MaxEth = 500
    MaxAcquisitions = 1
SPECIFICATION FairLiveBidSpec
INVARIANTS
    LiveBidTypeOK
    BidIsBacked
PROPERTIES
    MeteredGrowth
    BufferFeedsBid
