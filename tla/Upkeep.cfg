CONSTANTS
    a = a
    b = b
    s = s
    NoOne = NoOne
    Unread = Unread
    Accounts = {a, b}
    Sellers = {s}
    TimerDuration = 2
    ExecRewardCap = 2
    Cooldowns = {1, 2}
    MaxSteps = {600}
    Deposits = {600}
    PartialFills = {300}
    ForcedAmounts = {50}
    MaxEth = 650
    MaxForced = 50
SPECIFICATION FairSpec
INVARIANT
    QueueIsBacked
PROPERTIES
    PowerOnlyShrinks
    QueueKeepsBurning
