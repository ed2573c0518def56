------------------------------ MODULE LiveBid ------------------------------
(***************************************************************************)
(* The inflow governor (contracts/src/LiveBidAdapter.sol) and the live bid  *)
(* it feeds in Patron.  ETH is buffered here and metered into the bid by    *)
(* two paths that share one cooldown, the keepers' sweep and the hook's     *)
(* streamForward: below activationThreshold the bid is filled up to the     *)
(* threshold at once, above it at most maxSweepWei pass per cooldown.       *)
(* sweep first moves the threshold to a band of the latest accepted bid.    *)
(*                                                                          *)
(* Which Punk an acquisition takes is Protocol's business; here it only     *)
(* spends the bid and appends a row that sweep reads.  The allowlist is     *)
(* fixed at the start (Protocol edits it), as are sellers past their delay. *)
(***************************************************************************)
EXTENDS Patron, Sequences

CONSTANTS
    MinStreamWei,       \* MIN_STREAM_WEI, 0.01 ETH
    KeeperRewardCap,    \* KEEPER_REWARD_CAP, 0.01 ETH
    ThresholdHi,        \* ACTIVATION_THRESHOLD_HI, 100 ETH
    Seed,               \* the threshold the constructor sets
    SweepCaps,          \* values of maxSweepWei that occur
    Cooldowns,          \* values of minBlocksBetweenSweeps that occur
    Thresholds,         \* manual thresholds the admin may write
    Inflows,            \* amounts that arrive at a time
    Forced,             \* amounts forced into Patron
    Prices,             \* listing prices that occur
    MaxEth,             \* bound on the ETH held (model checking only)
    MaxAcquisitions     \* bound on the log (model checking only)

\* Cooldowns has a greatest value (MIN_BLOCKS_HI in the code).
ASSUME MeterAssumption ==
    /\ KeeperRewardCap \in Nat /\ FinderFeeFixedCap \in Nat
    /\ ThresholdHi \in Nat /\ Seed \in 0 .. ThresholdHi /\ Thresholds \subseteq 0 .. ThresholdHi
    /\ SweepCaps \subseteq Nat \ {0} /\ Cooldowns \subseteq Nat \ {0}
    /\ \E n \in Cooldowns : \A c \in Cooldowns : c <= n
    /\ Inflows \subseteq Nat /\ Forced \subseteq Nat /\ Prices \subseteq Nat

VARIABLES
    buffer,                     \* the adapter's balance
    maxSweepWei,
    minBlocksBetweenSweeps,
    age,                        \* blocks since lastSweepBlock
    activationThreshold,
    lastSyncedAcquisitionCount,
    log                         \* the core's acquisitions, as getAcquisition shows them

meterVars == <<maxSweepWei, minBlocksBetweenSweeps, age>>
syncVars == <<activationThreshold, lastSyncedAcquisitionCount>>
bidVars == <<accountedLiveBidWei, patronEth>>
allowlistVars == <<allowedSellers, activeIn>>
liveBidVars == <<bidVars, allowlistVars, buffer, meterVars, syncVars, log>>

KeeperRewardBps == 50
ReferrerContribBps == 500

\* age stops counting where no cooldown can tell the difference.
MaxAge == CHOOSE n \in Cooldowns : \A c \in Cooldowns : c <= n

\* via is not in the log: it says which entry point wrote the row.
Row == [via : {"acceptBid", "acceptListing"}, acquirer : Accounts,
        seller : Accounts, price : Prices]

LiveBidTypeOK ==
    /\ TypeOK
    /\ buffer \in Nat
    /\ maxSweepWei \in SweepCaps
    /\ minBlocksBetweenSweeps \in Cooldowns
    /\ age \in 0 .. MaxAge
    /\ activationThreshold \in 0 .. ThresholdHi
    /\ lastSyncedAcquisitionCount \in 0 .. Len(log)
    /\ log \in Seq(Row)

LiveBidInit ==
    /\ accountedLiveBidWei = 0
    /\ patronEth = 0
    /\ allowedSellers \in SUBSET Accounts
    /\ activeIn = [a \in Accounts |-> 0]
    /\ buffer = 0
    /\ maxSweepWei \in SweepCaps
    /\ minBlocksBetweenSweeps \in Cooldowns
    /\ age = MaxAge
    /\ activationThreshold = Seed
    /\ lastSyncedAcquisitionCount = 0
    /\ log = << >>

-----------------------------------------------------------------------------
(***************************************************************************)
(* The threshold.                                                           *)
(***************************************************************************)
Unsynced == Len(log) > lastSyncedAcquisitionCount
Latest == log[Len(log)]

\* A row is taken for an accepted bid when acquirer and seller are the same.
LooksLikeBid(row) == row.acquirer = row.seller

\* Mutant: the band is not clamped.
Band_NoClamp(price) == (price * 75) \div 100

\* 75% of a clearing price, clamped.
Band(price) ==
    IF price > (ThresholdHi * 100) \div 75 THEN ThresholdHi ELSE (price * 75) \div 100

\* The threshold a sweep works with, and what it leaves behind.  Only the
\* latest row is read.
SyncedThreshold ==
    IF Unsynced /\ LooksLikeBid(Latest) THEN Band(Latest.price) ELSE activationThreshold

SyncActivationThreshold ==
    /\ activationThreshold' = SyncedThreshold
    /\ lastSyncedAcquisitionCount' = Len(log)

-----------------------------------------------------------------------------
(***************************************************************************)
(* The two paths of the buffer into the live bid.                           *)
(***************************************************************************)
Least(a, b) == IF a < b THEN a ELSE b
RewardOn(value) == Least((value * KeeperRewardBps) \div BpsDenom, KeeperRewardCap)

\* The reward of a forward that it is carved off.
CarvedReward(value) == IF RewardOn(value) >= value THEN 0 ELSE RewardOn(value)

\* value reaches the bid; the reward leaves the buffer when the keeper takes it.
ForwardToBid(value, reward, accepted) ==
    /\ Receive(value)
    /\ buffer' = buffer - value - (IF accepted THEN reward ELSE 0)

CooledDown == age >= minBlocksBetweenSweeps

\* Mutant: a throttled forward does not start the cooldown.
StampSweep_Missing == UNCHANGED age

StampSweep == age' = 0

\* Mutant: a bid that is exactly at the threshold is not throttled.
Throttled_Above(threshold) == patronEth > threshold /\ CooledDown /\ StampSweep

\* At or above the threshold: capped and paced.
Throttled(threshold) == patronEth >= threshold /\ CooledDown /\ StampSweep
Drip == Least(buffer, maxSweepWei)

\* Below it: no cooldown, none started.
FastMode(threshold) == patronEth < threshold /\ UNCHANGED age
Room(threshold) == threshold - patronEth

SweepEmpty ==
    /\ buffer = 0
    /\ SyncActivationThreshold
    /\ UNCHANGED <<bidVars, buffer, age>>

SweepThrottled(accepted) ==
    LET reward == CarvedReward(Drip)
    IN  /\ buffer > 0
        /\ Throttled(SyncedThreshold)
        /\ ForwardToBid(Drip - reward, reward, accepted)
        /\ SyncActivationThreshold

SweepWarmUp(accepted) ==
    LET reward == CarvedReward(buffer)
    IN  /\ buffer > 0
        /\ FastMode(SyncedThreshold)
        /\ buffer < Room(SyncedThreshold)
        /\ ForwardToBid(buffer - reward, reward, accepted)
        /\ SyncActivationThreshold

\* Enough to reach the threshold: the bid lands exactly on it, and the reward
\* comes out of what stays buffered.
SweepFill(accepted) ==
    LET room == Room(SyncedThreshold)
    IN  /\ buffer > 0
        /\ FastMode(SyncedThreshold)
        /\ buffer >= room
        /\ ForwardToBid(room, Least(RewardOn(room), buffer - room), accepted)
        /\ SyncActivationThreshold

Sweep ==
    /\ \/ SweepEmpty
       \/ \E accepted \in BOOLEAN :
             SweepThrottled(accepted) \/ SweepWarmUp(accepted) \/ SweepFill(accepted)
    /\ UNCHANGED <<maxSweepWei, minBlocksBetweenSweeps, allowlistVars, log>>

\* What streamForward moves in fast mode.
StreamAmount == Least(buffer, Room(activationThreshold))

\* streamForward pays no reward, does not sync, and does nothing when there is
\* only dust or when the cooldown is running.
StreamForward ==
    /\ buffer >= MinStreamWei /\ buffer > 0
    /\ \/ Throttled(activationThreshold) /\ ForwardToBid(Drip, 0, FALSE)
       \/ FastMode(activationThreshold) /\ ForwardToBid(StreamAmount, 0, FALSE)
    /\ UNCHANGED <<maxSweepWei, minBlocksBetweenSweeps, allowlistVars, syncVars, log>>
-----------------------------------------------------------------------------
(***************************************************************************)
(* What feeds the buffer.                                                   *)
(***************************************************************************)
Held == buffer + patronEth

\* receive, poolReplenish, or contribute: all of value stays, or what a named
\* referrer that takes its share leaves.
Fund(value) ==
    /\ value > 0 /\ Held + value <= MaxEth
    /\ \E share \in {0, (value * ReferrerContribBps) \div BpsDenom} :
          buffer' = buffer + value - share
    /\ UNCHANGED <<bidVars, allowlistVars, meterVars, syncVars, log>>

\* ETH is forced into Patron, past receive().
ForceIn(value) ==
    /\ Held + value <= MaxEth
    /\ ForceEth(value)
    /\ UNCHANGED <<allowlistVars, buffer, meterVars, syncVars, log>>

\* skimSurplus() sends the surplus to the adapter.
Skim ==
    /\ SkimSurplus
    /\ buffer' = buffer + Surplus
    /\ UNCHANGED <<allowlistVars, meterVars, syncVars, log>>

-----------------------------------------------------------------------------
(***************************************************************************)
(* What spends the bid.                                                     *)
(***************************************************************************)
Record(via, acquirer, seller, price) ==
    /\ Len(log) < MaxAcquisitions
    /\ log' = Append(log, [via |-> via, acquirer |-> acquirer,
                           seller |-> seller, price |-> price])
    /\ UNCHANGED <<allowlistVars, buffer, meterVars, syncVars>>

AcceptBid(seller, price) ==
    /\ BidChecks(price, price)
    /\ PayOut(price)
    /\ Record("acceptBid", seller, seller, price)

AcceptListing(caller, seller, price) ==
    /\ ListingChecks(price, seller)
    /\ PayOut(price + FinderFee)
    /\ Record("acceptListing", caller, seller, price)

-----------------------------------------------------------------------------
\* The setters.  The locks that close two of them after a year are not modelled.
SetActivationThreshold ==
    /\ activationThreshold' \in Thresholds
    /\ UNCHANGED <<bidVars, allowlistVars, buffer, meterVars, lastSyncedAcquisitionCount, log>>

SetMaxSweepWei ==
    /\ maxSweepWei' \in SweepCaps
    /\ UNCHANGED <<bidVars, allowlistVars, buffer, minBlocksBetweenSweeps, age, syncVars, log>>

SetMinBlocksBetweenSweeps ==
    /\ minBlocksBetweenSweeps' \in Cooldowns
    /\ UNCHANGED <<bidVars, allowlistVars, buffer, maxSweepWei, age, syncVars, log>>

Block ==
    /\ age < MaxAge
    /\ age' = age + 1
    /\ UNCHANGED <<bidVars, allowlistVars, buffer, maxSweepWei, minBlocksBetweenSweeps,
                   syncVars, log>>

Purchase ==
    \E seller \in Accounts, price \in Prices :
        \/ AcceptBid(seller, price)
        \/ \E caller \in Accounts : AcceptListing(caller, seller, price)

LiveBidNext ==
    \/ Sweep \/ StreamForward
    \/ \E value \in Inflows : Fund(value)
    \/ \E value \in Forced : ForceIn(value)
    \/ Skim
    \/ Purchase
    \/ SetActivationThreshold \/ SetMaxSweepWei \/ SetMinBlocksBetweenSweeps
    \/ Block

LiveBidSpec == LiveBidInit /\ [][LiveBidNext]_liveBidVars

\* Blocks come, and a keeper sweeps: sweep is open to everyone and pays.
FairLiveBidSpec == LiveBidSpec /\ WF_liveBidVars(Block) /\ WF_liveBidVars(Sweep)

-----------------------------------------------------------------------------
(***************************************************************************)
(* Properties.                                                              *)
(***************************************************************************)
\* The bid Patron offers is money it holds, whatever is forced in and skimmed
\* out between the forwards and the purchases.
BidIsBacked == accountedLiveBidWei <= patronEth

\* Whichever path feeds the bid, and wherever sweep has just moved the
\* threshold: from below the threshold it never lands above it, and otherwise
\* it grows by at most maxSweepWei, a full cooldown after the last such forward.
Metered ==
    accountedLiveBidWei' > accountedLiveBidWei =>
        \/ patronEth < activationThreshold' /\ patronEth' <= activationThreshold'
        \/ /\ accountedLiveBidWei' - accountedLiveBidWei <= maxSweepWei
           /\ age >= minBlocksBetweenSweeps
           /\ age' = 0
MeteredGrowth == [][Metered]_liveBidVars

\* The fast fill stops exactly where the drip can take over: a buffer that is
\* not emptied goes on feeding the bid for ever, at the threshold too
\* (the comment on the exact landing, LiveBidAdapter.sol:466-475).
GrowsBid == accountedLiveBidWei' > accountedLiveBidWei
BufferFeedsBid == []<>(buffer = 0) \/ []<><<GrowsBid>>_liveBidVars

\* After a sweep without a manual threshold, the threshold is the band of the
\* most recent accepted bid (LiveBidAdapter.sol:49-50), and an acceptListing
\* row never moves it (:630-632): not so in the code, which examines the last
\* row only, and takes a listing found by its own seller for an accepted bid.
BidRows == {i \in 1 .. Len(log) : log[i].via = "acceptBid"}
TracksLatestBid ==
    lastSyncedAcquisitionCount = Len(log) =>
        \A i \in BidRows :
            (\A j \in BidRows : j <= i) => activationThreshold = Band(log[i].price)

=============================================================================
