--------------------------- MODULE ReturnAuction ---------------------------
(***************************************************************************)
(* The return auctions (contracts/src/ReturnAuctionModule.sol with          *)
(* ReturnAuctionEscrow.sol).  Every acquired Punk is offered back to the    *)
(* market: bids above the reserve, refunds of outbid bidders pushed or      *)
(* queued, late bids extending the auction, and a settlement that either    *)
(* delivers the Punk and splits the hammer price, or locks the Punk.        *)
(*                                                                          *)
(* One action is one transaction: a call that reverts changes nothing and   *)
(* is an action that is not enabled.  Time is relative: left is what is     *)
(* left until endsAt, and Tick lets one unit of time pass for every sale.   *)
(* wallet and received are ETH balances outside this contract, kept so that *)
(* the model accounts for every wei.                                        *)
(***************************************************************************)
EXTENDS Integers, FiniteSets, Functions

CONSTANTS
    Punks,          \* the Punks that may be auctioned
    Traits,         \* target traits (only carried through)
    Accounts,       \* owners, bidders and referrers
    NoAccount,      \* address(0)
    Module,         \* this contract as owner of a Punk
    Vault,          \* PunkVault as owner of a Punk
    Costs,          \* acquisition costs that occur
    Bids,           \* bid values that occur
    Wallet,         \* the ETH every account starts with
    MaxAttempts,    \* bound on previous attempts of a trait (model checking only)
    Duration,       \* AUCTION_DURATION, 72 hours
    Extension,      \* SNIPE_EXTENSION, 1 hour
    Window          \* SNIPE_TRIGGER_WINDOW, 15 minutes

ASSUME AuctionAssumption ==
    /\ Costs \subseteq Nat /\ Bids \subseteq Nat /\ Wallet \in Nat /\ MaxAttempts \in Nat
    /\ Duration \in Nat /\ Extension \in Nat /\ Window \in Nat
    /\ 0 < Window /\ Window < Extension /\ Extension <= Duration

ASSUME AddressAssumption ==
    /\ {NoAccount, Module, Vault} \cap Accounts = {}
    /\ Module # Vault /\ Module # NoAccount /\ Vault # NoAccount

\* There are 10,000 Punks, and an address has 160 bits.
ASSUME FiniteAssumption == IsFiniteSet(Punks) /\ IsFiniteSet(Accounts)

BpsDenom == 10000
ClearedBidBps == 6500           \* CLEARED_BID_BPS
ClearedVaultBurnBps == 1000     \* CLEARED_VAULT_BURN_BPS
ReferrerPremiumBps == 500       \* REFERRER_PREMIUM_BPS
MinBidIncrementBps == 100       \* minBidIncrementBps

Sinks == {"adapter", "burner", "vaultBurnPool"}

VARIABLES
    sales,              \* sales[p]: the auction slot of Punk p
    pendingRefund,      \* refunds that could not be pushed
    referrerOfHighBid,  \* the referrer named by the current high bid
    punkOwner,          \* owners of the Punks on the CryptoPunks market
    eth,                \* the ETH this contract holds
    wallet,             \* the ETH of every account
    received            \* the ETH delivered to the protocol's sinks
                        \* (for the burn pool: what it still holds)

vars == <<sales, pendingRefund, referrerOfHighBid, punkOwner, eth, wallet, received>>

\* phase is (endsAt, settled): "none" is endsAt = 0, "open" is started and not
\* settled, whether or not its time is over.
Sale == [phase : {"none", "open", "settled"}, cost : Nat, high : Nat,
         bidder : Accounts \cup {NoAccount}, left : Nat, reserve : Nat,
         target : Traits \cup {NoAccount}]

EmptySlot == [phase |-> "none", cost |-> 0, high |-> 0, bidder |-> NoAccount,
              left |-> 0, reserve |-> 0, target |-> NoAccount]

TypeOK ==
    /\ sales \in [Punks -> Sale]
    /\ pendingRefund \in [Accounts -> Nat]
    /\ referrerOfHighBid \in [Punks -> Accounts \cup {NoAccount}]
    /\ punkOwner \in [Punks -> Accounts \cup {Module, Vault}]
    /\ eth \in Nat
    /\ wallet \in [Accounts -> Nat]
    /\ received \in [Sinks -> Nat]

Init ==
    /\ sales = [p \in Punks |-> EmptySlot]
    /\ pendingRefund = [a \in Accounts |-> 0]
    /\ referrerOfHighBid = [p \in Punks |-> NoAccount]
    /\ punkOwner \in [Punks -> Accounts]
    /\ eth = 0
    /\ wallet = [a \in Accounts |-> Wallet]
    /\ received = [s \in Sinks |-> 0]

-----------------------------------------------------------------------------
Open(p) == sales[p].phase = "open"
Live(p) == Open(p) /\ sales[p].left > 0

\* Mutant: only an auction with a winner can be settled.
Settleable_Sold(p) == Open(p) /\ sales[p].left = 0 /\ sales[p].bidder # NoAccount

Settleable(p) == Open(p) /\ sales[p].left = 0

\* paid * (101 + previous attempts) / 100, rounded up.
ReserveFor(cost, prevAttempts) == (cost * (101 + prevAttempts) + 99) \div 100

\* Called by Patron after the Punk is transferred here, in one transaction: the
\* owner it reads is the one the transfer has set.  The slot of a settled sale
\* is reused and fully reset.
StartSale(p, cost, target, prevAttempts) ==
    /\ ~Open(p)
    /\ punkOwner'[p] = Module
    /\ sales' = [sales EXCEPT ![p] =
            [phase |-> "open", cost |-> cost, high |-> 0, bidder |-> NoAccount,
             left |-> Duration, reserve |-> ReserveFor(cost, prevAttempts),
             target |-> target]]
    /\ referrerOfHighBid' = [referrerOfHighBid EXCEPT ![p] = NoAccount]
    /\ UNCHANGED <<pendingRefund, eth, received>>

\* Mutant: the reserve does not bind the first bid.
MinBid_NoReserve(s) == s.high + (s.high * MinBidIncrementBps) \div BpsDenom + 1

\* The least acceptable bid: the reserve, and 1% (at least 1 wei) above a
\* standing bid.
MinBid(s) ==
    IF s.high = 0 THEN IF s.reserve > 0 THEN s.reserve ELSE 1
    ELSE LET raised == s.high + (s.high * MinBidIncrementBps) \div BpsDenom
             next == IF raised > s.high THEN raised ELSE s.high + 1
         IN  IF next > s.reserve THEN next ELSE s.reserve

\* Mutant: late bids do not extend the auction.
LeftAfterBid_NoExtension(s) == s.left

\* A bid in the last Window restarts the clock at Extension.
LeftAfterBid(s) == IF s.left < Window THEN Extension ELSE s.left

\* Mutant: a refund that cannot be pushed is dropped instead of queued.
Refund_Dropped(funds, a, value, pushed) ==
    /\ wallet' = IF a # NoAccount /\ pushed
                 THEN [funds EXCEPT ![a] = @ + value] ELSE funds
    /\ UNCHANGED pendingRefund

\* Give a bidder back what it bid: pushed, or queued when the push fails.
Refund(funds, a, value, pushed) ==
    IF a = NoAccount THEN wallet' = funds /\ UNCHANGED pendingRefund
    ELSE IF pushed
    THEN wallet' = [funds EXCEPT ![a] = @ + value] /\ UNCHANGED pendingRefund
    ELSE wallet' = funds /\ pendingRefund' = [pendingRefund EXCEPT ![a] = @ + value]

PlaceBid(p, a, value, referrer, pushed) ==
    LET s == sales[p]
        funds == [wallet EXCEPT ![a] = @ - value]
        refunded == IF s.bidder # NoAccount /\ pushed THEN s.high ELSE 0
    IN  /\ Live(p)
        /\ value >= MinBid(s)
        /\ value <= wallet[a]
        /\ sales' = [sales EXCEPT ![p].high = value, ![p].bidder = a,
                                  ![p].left = LeftAfterBid(s)]
        /\ referrerOfHighBid' = [referrerOfHighBid EXCEPT ![p] = referrer]
        /\ Refund(funds, s.bidder, s.high, pushed)
        /\ eth' = eth + value - refunded
        /\ UNCHANGED <<punkOwner, received>>

-----------------------------------------------------------------------------
\* Mutant: the Punk of a settled auction stays here.
TransferPunk_Missing(p, to) == UNCHANGED punkOwner

TransferPunk(p, to) == punkOwner' = [punkOwner EXCEPT ![p] = to]

\* VaultBurnPool.sweep: the pool's ETH goes on to the burner, whose receive()
\* refuses nothing.
Sweep ==
    received' = [received EXCEPT !["burner"] = @ + received["vaultBurnPool"],
                                 !["vaultBurnPool"] = 0]

\* No bid: the Punk goes to the vault for ever, and the burn pool is swept.
SettleUnsold(p) ==
    /\ Settleable(p)
    /\ sales[p].bidder = NoAccount
    /\ sales' = [sales EXCEPT ![p].phase = "settled"]
    /\ TransferPunk(p, Vault)
    /\ Sweep
    /\ UNCHANGED <<pendingRefund, referrerOfHighBid, eth, wallet>>

LiveBidShare(s) == (s.cost * ClearedBidBps) \div BpsDenom
VaultBurnFromCost(s) == (s.cost * ClearedVaultBurnBps) \div BpsDenom
BurnShare(s) == s.cost - LiveBidShare(s) - VaultBurnFromCost(s)
Premium(s) == s.high - s.cost

\* Mutant: basis points taken for per cent.
ReferrerShare_PerCent(p, accepted) ==
    IF referrerOfHighBid[p] # NoAccount /\ accepted
    THEN (Premium(sales[p]) * ReferrerPremiumBps) \div 100 ELSE 0

\* The referrer's cut of the premium; nothing when none is named or when it
\* refuses the transfer.
ReferrerShare(p, accepted) ==
    IF referrerOfHighBid[p] # NoAccount /\ accepted
    THEN (Premium(sales[p]) * ReferrerPremiumBps) \div BpsDenom ELSE 0

\* A winning bid: the Punk makes its round trip through the escrow, so that the
\* market records the hammer price, goes to the winner, and the hammer price is
\* split four ways.
SettleCleared(p, accepted) ==
    LET s == sales[p]
        toReferrer == ReferrerShare(p, accepted)
    IN  /\ Settleable(p)
        /\ s.bidder # NoAccount
        /\ eth >= s.high /\ s.high >= s.cost
        /\ sales' = [sales EXCEPT ![p].phase = "settled"]
        /\ TransferPunk(p, s.bidder)
        /\ eth' = eth - s.high
        /\ received' = [received EXCEPT
                !["adapter"] = @ + LiveBidShare(s),
                !["burner"] = @ + BurnShare(s),
                !["vaultBurnPool"] = @ + VaultBurnFromCost(s) + Premium(s) - toReferrer]
        /\ wallet' = IF toReferrer > 0
                     THEN [wallet EXCEPT ![referrerOfHighBid[p]] = @ + toReferrer]
                     ELSE wallet
        /\ UNCHANGED <<pendingRefund, referrerOfHighBid>>

\* Mutant: the queued refund is paid but not cleared.
WithdrawRefund_NotCleared(a) ==
    /\ pendingRefund[a] > 0
    /\ eth >= pendingRefund[a]
    /\ eth' = eth - pendingRefund[a]
    /\ wallet' = [wallet EXCEPT ![a] = @ + pendingRefund[a]]
    /\ UNCHANGED <<pendingRefund, sales, referrerOfHighBid, punkOwner, received>>

WithdrawRefund(a) ==
    /\ pendingRefund[a] > 0
    /\ eth >= pendingRefund[a]
    /\ pendingRefund' = [pendingRefund EXCEPT ![a] = 0]
    /\ eth' = eth - pendingRefund[a]
    /\ wallet' = [wallet EXCEPT ![a] = @ + pendingRefund[a]]
    /\ UNCHANGED <<sales, referrerOfHighBid, punkOwner, received>>

\* One unit of time passes for every sale that still has some.
Elapse ==
    /\ sales' = [p \in Punks |->
            [sales[p] EXCEPT !.left = IF @ > 0 THEN @ - 1 ELSE 0]]
    /\ UNCHANGED <<pendingRefund, referrerOfHighBid, punkOwner, eth, wallet, received>>

Tick == (\E p \in Punks : sales[p].left > 0) /\ Elapse

-----------------------------------------------------------------------------
\* Patron buys a Punk from its owner and opens its auction.
Acquire(p) ==
    \E cost \in Costs, target \in Traits, prev \in 0 .. MaxAttempts :
        /\ punkOwner[p] \in Accounts
        /\ punkOwner' = [punkOwner EXCEPT ![p] = Module]
        /\ StartSale(p, cost, target, prev)
        /\ UNCHANGED wallet

Bid(p) ==
    \E a \in Accounts, value \in Bids, referrer \in Accounts \cup {NoAccount},
       pushed \in BOOLEAN :
        PlaceBid(p, a, value, referrer, pushed)

Settle(p) == SettleUnsold(p) \/ \E accepted \in BOOLEAN : SettleCleared(p, accepted)

Withdraw == \E a \in Accounts : WithdrawRefund(a)

Next ==
    \/ \E p \in Punks : Acquire(p) \/ Bid(p) \/ Settle(p)
    \/ Withdraw
    \/ Tick

Spec == Init /\ [][Next]_vars

\* settle is permissionless and self-incentivised, and time passes.  Nobody has
\* to bid, to withdraw or to start an auction.
FairSpec == Spec /\ WF_vars(Tick) /\ \A p \in Punks : WF_vars(Settle(p))

-----------------------------------------------------------------------------
(***************************************************************************)
(* Properties.                                                              *)
(***************************************************************************)
StandingBid(p) == IF Open(p) THEN sales[p].high ELSE 0
StandingBids == SumFunction([p \in Punks |-> StandingBid(p)])

\* The contract holds exactly what it owes: the standing bids of the auctions
\* still open and the queued refunds, and no wei is created or lost between
\* the bidders, this contract and the sinks of the split.
EveryWeiAccounted ==
    /\ eth = StandingBids + SumFunction(pendingRefund)
    /\ SumFunction(wallet) + eth + SumFunction(received)
            = SumFunction([a \in Accounts |-> Wallet])

\* What account a owns or can get back.
HighBidsOf(a) ==
    SumFunction([p \in Punks |-> IF sales[p].bidder = a THEN StandingBid(p) ELSE 0])
Claim(a) == wallet[a] + pendingRefund[a] + HighBidsOf(a)

\* The auctions as their bidders see them: lots, leaders, bids and claims.
OpenLots == {p \in Punks : Open(p)}
Leaders == [p \in Punks |-> IF Open(p) THEN sales[p].bidder ELSE NoAccount]
Leading == [p \in Punks |-> StandingBid(p)]
Claims == [a \in Accounts |-> Claim(a)]

PunkHouse == INSTANCE AuctionHouse WITH
    Lots <- Punks, open <- OpenLots, leader <- Leaders, high <- Leading,
    holder <- punkOwner, claim <- Claims

\* A Punk goes to its highest bidder at exactly its bid; being outbid, a refused
\* refund, a withdrawal or another auction's settlement never costs anyone
\* anything, and every bid beats the one before.
RefinesAuctionHouse == PunkHouse!Spec

\* A standing bid covers the reserve, and the reserve exceeds the cost, so the
\* premium of a settlement is never negative and always pays a burn share.
BidsCoverCost ==
    \A p \in Punks : Open(p) =>
        /\ sales[p].cost > 0 => sales[p].reserve > sales[p].cost
        /\ sales[p].bidder # NoAccount => sales[p].high >= sales[p].reserve
        /\ sales[p].bidder = NoAccount <=> sales[p].high = 0

\* This contract owns a Punk exactly while its auction is open: no Punk is
\* stuck here after a settlement, and none is auctioned that it does not own.
OwnsExactlyOpenPunks == \A p \in Punks : Open(p) <=> punkOwner[p] = Module

\* A bid never shortens an auction and always leaves the others Window to
\* answer; no other step takes more than one unit off the clock of an open sale.
TimeToAnswer ==
    [][ \A p \in Punks : Open(p) /\ Open(p)' =>
            LET s == sales[p]
                t == sales'[p]
            IN  IF t.high # s.high
                THEN t.left >= s.left /\ t.left >= Window
                ELSE t.left >= s.left - 1 ]_vars

\* Every auction comes to an end (MISSION_PROPERTIES.md R6): extensions cannot
\* go on for ever, because every bid must exceed the last one.
EveryAuctionSettles == \A p \in Punks : Open(p) ~> ~Open(p)
=============================================================================
