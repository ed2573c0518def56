---------------------------- MODULE TitleAuction ----------------------------
(***************************************************************************)
(* The auction of the Title, token 111 of the vault                         *)
(* (contracts/src/PunkVaultTitleAuction.sol).  It opens once, when enough   *)
(* traits are collected; without a bid its settlement starts the clock      *)
(* again, with one it ends the auction for ever.  Refunds are pushed or     *)
(* queued, the proceeds are always queued.                                  *)
(*                                                                          *)
(* Time is relative: left is what is left until endsAt.  A call that        *)
(* reverts is an action that is not enabled.                                *)
(***************************************************************************)
EXTENDS Integers, FiniteSets, Functions

CONSTANTS
    Accounts,           \* bidders
    NoAccount,          \* address(0): no bidder, or no Title yet
    House,              \* this contract as the holder of the Title
    PayoutRecipient,    \* who is credited the proceeds
    Bids,               \* bid values that occur
    Wallet,             \* the ETH every account starts with
    Duration,           \* AUCTION_DURATION, 24 hours
    Extension,          \* SNIPE_EXTENSION, 1 hour
    Window              \* SNIPE_TRIGGER_WINDOW, 15 minutes

ASSUME TitleAssumption ==
    /\ Bids \subseteq Nat /\ Wallet \in Nat
    /\ Duration \in Nat /\ Extension \in Nat /\ Window \in Nat
    /\ 0 < Window /\ Window < Extension /\ Extension <= Duration
    /\ PayoutRecipient \in Accounts
    /\ NoAccount \notin Accounts /\ House \notin Accounts /\ House # NoAccount
    /\ IsFiniteSet(Accounts)    \* an address has 160 bits

BpsDenom == 10000
MinIncreaseBps == 500       \* MIN_INCREASE_BPS

VARIABLES
    collectedEnough,    \* collection.collectedCount() >= KICKOFF_THRESHOLD
    titleOwner,         \* the holder of the Title: NoAccount before it is minted
    kickedOff,
    settled,
    left,
    highBidWei,
    highBidder,
    pendingRefund,      \* refunds that could not be pushed
    pendingProceeds,    \* the proceeds of the settlement
    eth,                \* the ETH this contract holds
    wallet              \* the ETH of every account

auctionVars == <<kickedOff, settled, left, highBidWei, highBidder>>
moneyVars == <<pendingRefund, pendingProceeds, eth, wallet>>
vars == <<collectedEnough, titleOwner, auctionVars, moneyVars>>

TypeOK ==
    /\ collectedEnough \in BOOLEAN /\ kickedOff \in BOOLEAN /\ settled \in BOOLEAN
    /\ titleOwner \in Accounts \cup {NoAccount, House}
    /\ left \in 0 .. Duration
    /\ highBidWei \in Nat
    /\ highBidder \in Accounts \cup {NoAccount}
    /\ pendingRefund \in [Accounts -> Nat]
    /\ pendingProceeds \in [Accounts -> Nat]
    /\ eth \in Nat
    /\ wallet \in [Accounts -> Nat]

Init ==
    /\ collectedEnough = FALSE
    /\ titleOwner = NoAccount
    /\ kickedOff = FALSE
    /\ settled = FALSE
    /\ left = 0
    /\ highBidWei = 0
    /\ highBidder = NoAccount
    /\ pendingRefund = [a \in Accounts |-> 0]
    /\ pendingProceeds = [a \in Accounts |-> 0]
    /\ eth = 0
    /\ wallet = [a \in Accounts |-> Wallet]

-----------------------------------------------------------------------------
\* The collection only grows: once the threshold is reached it stays reached.
CollectEnough ==
    /\ ~collectedEnough
    /\ collectedEnough' = TRUE
    /\ UNCHANGED <<titleOwner, auctionVars, moneyVars>>

\* _mintTitle is a no-op when the Title exists.
Minted == IF titleOwner = NoAccount THEN House ELSE titleOwner

MintTitle ==
    /\ titleOwner' = Minted
    /\ UNCHANGED <<collectedEnough, auctionVars, moneyVars>>

\* Mutant: kickoff relies on the Title having been minted at launch.
Kickoff_NoMint ==
    /\ ~kickedOff /\ collectedEnough
    /\ kickedOff' = TRUE
    /\ left' = Duration
    /\ UNCHANGED <<collectedEnough, titleOwner, settled, highBidWei, highBidder, moneyVars>>

Kickoff ==
    /\ ~kickedOff /\ collectedEnough
    /\ kickedOff' = TRUE
    /\ left' = Duration
    /\ titleOwner' = Minted
    /\ UNCHANGED <<collectedEnough, settled, highBidWei, highBidder, moneyVars>>

Live == kickedOff /\ ~settled /\ left > 0
Late == left < Window

\* Mutant: 5% above the high bid, which for a few wei is the high bid itself.
Outbids_NotStrictly(value) ==
    value >= (highBidWei * (BpsDenom + MinIncreaseBps)) \div BpsDenom

Outbids(value) ==
    /\ value > highBidWei
    /\ value >= (highBidWei * (BpsDenom + MinIncreaseBps)) \div BpsDenom

\* Mutant: the extension is added to the old deadline.
LeftAfterBid_Added == IF Late THEN left + Extension ELSE left

\* A late bid restarts the clock at Extension.
LeftAfterBid == IF Late THEN Extension ELSE left

\* Mutant: the refund is pushed and queued.
RefundPrevious_Twice(funds, pushed) ==
    /\ wallet' = IF highBidder # NoAccount /\ pushed
                 THEN [funds EXCEPT ![highBidder] = @ + highBidWei] ELSE funds
    /\ pendingRefund' = IF highBidder # NoAccount
                        THEN [pendingRefund EXCEPT ![highBidder] = @ + highBidWei]
                        ELSE pendingRefund

\* The bidder before is sent its bid back, or is owed it when the push fails.
RefundPrevious(funds, pushed) ==
    IF highBidder = NoAccount THEN wallet' = funds /\ UNCHANGED pendingRefund
    ELSE IF pushed
    THEN /\ wallet' = [funds EXCEPT ![highBidder] = @ + highBidWei]
         /\ UNCHANGED pendingRefund
    ELSE /\ wallet' = funds
         /\ pendingRefund' = [pendingRefund EXCEPT ![highBidder] = @ + highBidWei]

\* pushed says whether the previous bidder takes the refund within its gas.
Bid(a, value, pushed) ==
    /\ Live
    /\ value > 0 /\ Outbids(value)
    /\ value <= wallet[a]
    /\ highBidWei' = value
    /\ highBidder' = a
    /\ left' = LeftAfterBid
    /\ RefundPrevious([wallet EXCEPT ![a] = @ - value], pushed)
    /\ eth' = eth + value - (IF pushed THEN highBidWei ELSE 0)
    /\ UNCHANGED <<collectedEnough, titleOwner, kickedOff, settled, pendingProceeds>>

Over == kickedOff /\ ~settled /\ left = 0

\* Mutant: an auction that nobody bid on is closed.
Restart_Closes ==
    /\ Over /\ highBidder = NoAccount
    /\ settled' = TRUE
    /\ UNCHANGED <<collectedEnough, titleOwner, kickedOff, left, highBidWei, highBidder,
                   moneyVars>>

\* settle() without a bid: the auction goes on for another full duration.
Restart ==
    /\ Over /\ highBidder = NoAccount
    /\ left' = Duration
    /\ UNCHANGED <<collectedEnough, titleOwner, kickedOff, settled, highBidWei, highBidder,
                   moneyVars>>

\* settle() with a winner: proceeds are queued, the Title goes to the winner.
\* The transfer reverts unless this contract holds the Title.
Award ==
    /\ Over /\ highBidder # NoAccount
    /\ titleOwner = House
    /\ settled' = TRUE
    /\ titleOwner' = highBidder
    /\ pendingProceeds' = [pendingProceeds EXCEPT ![PayoutRecipient] = @ + highBidWei]
    /\ UNCHANGED <<collectedEnough, kickedOff, left, highBidWei, highBidder,
                   pendingRefund, eth, wallet>>

Settle == Restart \/ Award

\* Anyone may trigger it; a recipient that refuses the ETH makes it revert.
WithdrawProceeds(a) ==
    /\ pendingProceeds[a] > 0 /\ pendingProceeds[a] <= eth
    /\ pendingProceeds' = [pendingProceeds EXCEPT ![a] = 0]
    /\ eth' = eth - pendingProceeds[a]
    /\ wallet' = [wallet EXCEPT ![a] = @ + pendingProceeds[a]]
    /\ UNCHANGED <<collectedEnough, titleOwner, auctionVars, pendingRefund>>

WithdrawRefund(a) ==
    /\ pendingRefund[a] > 0 /\ pendingRefund[a] <= eth
    /\ pendingRefund' = [pendingRefund EXCEPT ![a] = 0]
    /\ eth' = eth - pendingRefund[a]
    /\ wallet' = [wallet EXCEPT ![a] = @ + pendingRefund[a]]
    /\ UNCHANGED <<collectedEnough, titleOwner, auctionVars, pendingProceeds>>

Tick ==
    /\ left > 0
    /\ left' = left - 1
    /\ UNCHANGED <<collectedEnough, titleOwner, kickedOff, settled, highBidWei, highBidder,
                   moneyVars>>

Next ==
    \/ CollectEnough \/ MintTitle \/ Kickoff
    \/ \E a \in Accounts, value \in Bids, pushed \in BOOLEAN : Bid(a, value, pushed)
    \/ Settle
    \/ \E a \in Accounts : WithdrawProceeds(a) \/ WithdrawRefund(a)
    \/ Tick

Spec == Init /\ [][Next]_vars

-----------------------------------------------------------------------------
(***************************************************************************)
(* Properties.                                                              *)
(***************************************************************************)
Standing == IF settled THEN 0 ELSE highBidWei
ClaimOf(a) ==
    wallet[a] + pendingRefund[a] + pendingProceeds[a]
        + (IF highBidder = a THEN Standing ELSE 0)

\* The contract can always pay everything it owes, to everyone at once: the
\* standing bid, the queued refunds and the queued proceeds, to the wei, and
\* it holds the Title for as long as a bid may still win it.
Solvent ==
    /\ eth = Standing + SumFunction(pendingRefund) + SumFunction(pendingProceeds)
    /\ SumFunction(wallet) + eth = SumFunction([a \in Accounts |-> Wallet])
    /\ kickedOff /\ ~settled => titleOwner = House

\* The auction as its bidders see it: the one lot is open from kickoff to the
\* settlement with a winner, and a restart changes nothing they rely on.
Lot == {House}
OpenLots == IF kickedOff /\ ~settled THEN Lot ELSE {}
Leaders == [l \in Lot |-> IF settled THEN NoAccount ELSE highBidder]
Leading == [l \in Lot |-> Standing]
Holders == [l \in Lot |-> Minted]
Claims == [a \in Accounts |-> ClaimOf(a)]

TitleHouse == INSTANCE AuctionHouse WITH
    Lots <- Lot, open <- OpenLots, leader <- Leaders, high <- Leading,
    holder <- Holders, claim <- Claims

\* The Title goes to the highest bidder at exactly its bid, and bids, refunds,
\* restarts and withdrawals in any order cost nobody anything.
RefinesAuctionHouse == TitleHouse!Spec
=============================================================================
