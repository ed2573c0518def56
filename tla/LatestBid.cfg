CONSTANTS
    seller = seller
    finder = seller
    Accounts = {seller}
    MinBidForListing = 200
    FinderFeeFixedCap = 1
    AllowlistDelay = 1
    MinStreamWei = 10
    KeeperRewardCap = 1
    ThresholdHi = 800
    Seed = 700
    SweepCaps = {700}
    Cooldowns = {1}
    Thresholds = {}
    Inflows = {700}
    Forced = {}
    Prices = {200, 400}
    MaxEth = 1500
    MaxAcquisitions = 2
SPECIFICATION LiveBidSpec
INVARIANT
    TracksLatestBid
