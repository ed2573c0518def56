--------------------------- MODULE LiveBidProofs ---------------------------
(***************************************************************************)
(* Proofs about the live bid and its meter, for all amounts, caps,          *)
(* cooldowns and numbers of acquisitions.                                   *)
(*                                                                          *)
(* The inductive invariant is the type invariant and BidIsBacked; that the  *)
(* growth is metered follows from the types step by step.                   *)
(***************************************************************************)
EXTENDS LiveBid, TLAPS

Inv == LiveBidTypeOK /\ BidIsBacked

-----------------------------------------------------------------------------
(***************************************************************************)
(* The operators the meter is built from.                                   *)
(***************************************************************************)
\* MaxAge is a bound of every cooldown.
LEMMA MaxAgeBound == MaxAge \in Nat /\ \A c \in Cooldowns : c <= MaxAge
<1>1. PICK n \in Cooldowns : \A c \in Cooldowns : c <= n
  BY MeterAssumption
<1>2. MaxAge \in Cooldowns /\ \A c \in Cooldowns : c <= MaxAge
  BY <1>1 DEF MaxAge
<1>3. QED
  BY <1>2, MeterAssumption

\* A synced threshold is in its range, whatever the clearing price.
LEMMA BandRange == \A price \in Nat : Band(price) \in 0 .. ThresholdHi
<1> SUFFICES ASSUME NEW price \in Nat
             PROVE  Band(price) \in 0 .. ThresholdHi
  OBVIOUS
<1>1. ThresholdHi \in Nat
  BY MeterAssumption
<1>2. CASE price > (ThresholdHi * 100) \div 75
  BY <1>1, <1>2 DEF Band
<1>3. CASE ~(price > (ThresholdHi * 100) \div 75)
  <2>1. price * 75 <= ThresholdHi * 100
    BY <1>1, <1>3
  <2>2. (price * 75) \div 100 \in 0 .. ThresholdHi
    BY <1>1, <2>1
  <2>3. QED
    BY <1>3, <2>2 DEF Band
<1>4. QED
  BY <1>2, <1>3

\* The threshold a sweep works with is in range.
LEMMA SyncedRange ==
    ASSUME LiveBidTypeOK
    PROVE  SyncedThreshold \in 0 .. ThresholdHi
<1>1. CASE Unsynced /\ LooksLikeBid(Latest)
  <2>1. Latest \in Row
    BY <1>1 DEF LiveBidTypeOK, Unsynced, Latest
  <2>2. Latest.price \in Nat
    BY <2>1, MeterAssumption DEF Row
  <2>3. QED
    BY <1>1, <2>2, BandRange DEF SyncedThreshold
<1>2. CASE ~(Unsynced /\ LooksLikeBid(Latest))
  BY <1>2 DEF LiveBidTypeOK, SyncedThreshold
<1>3. QED
  BY <1>1, <1>2

\* A reward never exceeds what it is taken from.
LEMMA RewardRange ==
    \A value \in Nat :
        /\ RewardOn(value) \in Nat
        /\ CarvedReward(value) \in 0 .. value
<1> SUFFICES ASSUME NEW value \in Nat
             PROVE  RewardOn(value) \in Nat /\ CarvedReward(value) \in 0 .. value
  OBVIOUS
<1>1. (value * KeeperRewardBps) \div BpsDenom \in Nat
  BY DEF KeeperRewardBps, BpsDenom
<1>2. RewardOn(value) \in Nat
  BY <1>1, MeterAssumption DEF RewardOn, Least
<1>3. CarvedReward(value) \in 0 .. value
  BY <1>2 DEF CarvedReward
<1>4. QED
  BY <1>2, <1>3

\* The finder's fee is an amount.
LEMMA FinderFeeType == accountedLiveBidWei \in Nat => FinderFee \in Nat
<1> SUFFICES ASSUME accountedLiveBidWei \in Nat PROVE FinderFee \in Nat
  OBVIOUS
<1>1. (accountedLiveBidWei * FinderFeeCapBps) \div BpsDenom \in Nat
  BY DEF FinderFeeCapBps, BpsDenom
<1>2. QED
  BY <1>1, MeterAssumption DEF FinderFee

-----------------------------------------------------------------------------
(***************************************************************************)
(* The two paths into the bid.                                              *)
(***************************************************************************)
\* A forward moves what it says, out of a buffer that has it.
LEMMA ForwardStep ==
    ASSUME Inv, NEW value \in Nat, NEW reward \in Nat, NEW accepted \in BOOLEAN,
           value + reward <= buffer, ForwardToBid(value, reward, accepted)
    PROVE  /\ buffer' \in Nat
           /\ accountedLiveBidWei' \in Nat /\ patronEth' \in Nat
           /\ accountedLiveBidWei' = accountedLiveBidWei + value
           /\ patronEth' = patronEth + value
           /\ BidIsBacked'
<1>1. buffer \in Nat /\ accountedLiveBidWei \in Nat /\ patronEth \in Nat
  BY DEF Inv, LiveBidTypeOK, TypeOK
<1>2. /\ accountedLiveBidWei' = accountedLiveBidWei + value
      /\ patronEth' = patronEth + value
      /\ buffer' = buffer - value - (IF accepted THEN reward ELSE 0)
  BY DEF ForwardToBid, Receive
<1>3. (IF accepted THEN reward ELSE 0) \in 0 .. reward
  OBVIOUS
<1>4. buffer' \in Nat
  BY <1>1, <1>2, <1>3
<1>5. QED
  BY <1>1, <1>2, <1>4 DEF Inv, BidIsBacked

\* What a forward of either path does, with the threshold it works with.
Fed(threshold) ==
    /\ buffer' \in Nat
    /\ accountedLiveBidWei' \in Nat /\ patronEth' \in Nat
    /\ age' \in 0 .. MaxAge
    /\ BidIsBacked'
    /\ \/ UNCHANGED accountedLiveBidWei
       \/ patronEth < threshold /\ patronEth' <= threshold
       \/ /\ accountedLiveBidWei' - accountedLiveBidWei <= maxSweepWei
          /\ age >= minBlocksBetweenSweeps
          /\ age' = 0

LEMMA DripType ==
    ASSUME Inv
    PROVE  Drip \in Nat /\ Drip <= buffer /\ Drip <= maxSweepWei
<1>1. buffer \in Nat /\ maxSweepWei \in Nat
  BY MeterAssumption DEF Inv, LiveBidTypeOK
<1>2. QED
  BY <1>1 DEF Drip, Least

LEMMA ThrottledFed ==
    ASSUME Inv, NEW threshold \in Nat, NEW reward \in Nat, NEW accepted \in BOOLEAN,
           reward <= Drip, Throttled(threshold),
           ForwardToBid(Drip - reward, reward, accepted)
    PROVE  Fed(threshold)
<1>1. Drip \in Nat /\ Drip <= buffer /\ Drip <= maxSweepWei
  BY DripType
<1> DEFINE value == Drip - reward
<1>2. value \in Nat /\ value + reward <= buffer /\ value <= maxSweepWei
  BY <1>1, MeterAssumption DEF Inv, LiveBidTypeOK
<1> HIDE DEF value
<1>3. ForwardToBid(value, reward, accepted)
  BY DEF value
<1>4. /\ buffer' \in Nat
      /\ accountedLiveBidWei' \in Nat /\ patronEth' \in Nat
      /\ accountedLiveBidWei' = accountedLiveBidWei + value
      /\ BidIsBacked'
  BY <1>2, <1>3, ForwardStep
<1>5. accountedLiveBidWei' - accountedLiveBidWei <= maxSweepWei
  BY <1>2, <1>4, MeterAssumption DEF Inv, LiveBidTypeOK, TypeOK
<1>6. age' = 0 /\ age >= minBlocksBetweenSweeps
  BY DEF Throttled, StampSweep, CooledDown
<1>7. QED
  BY <1>4, <1>5, <1>6, MaxAgeBound DEF Fed

LEMMA FastFed ==
    ASSUME Inv, NEW threshold \in Nat, NEW value \in Nat, NEW reward \in Nat,
           NEW accepted \in BOOLEAN, FastMode(threshold), value + reward <= buffer,
           value <= Room(threshold), ForwardToBid(value, reward, accepted)
    PROVE  Fed(threshold)
<1>1. /\ buffer' \in Nat
      /\ accountedLiveBidWei' \in Nat /\ patronEth' \in Nat
      /\ patronEth' = patronEth + value
      /\ BidIsBacked'
  BY ForwardStep
<1>2. patronEth \in Nat /\ age \in 0 .. MaxAge
  BY DEF Inv, LiveBidTypeOK, TypeOK
<1>3. patronEth < threshold /\ patronEth' <= threshold /\ age' = age
  BY <1>1, <1>2 DEF FastMode, Room
<1>4. QED
  BY <1>1, <1>2, <1>3 DEF Fed

\* sweep, in each of its four cases, feeds the bid and syncs the threshold.
LEMMA SweepFed ==
    ASSUME Inv, Sweep
    PROVE  Fed(activationThreshold') /\ SyncActivationThreshold
<1>1. SyncedThreshold \in Nat
  BY SyncedRange, MeterAssumption DEF Inv
<1>2. buffer \in Nat /\ patronEth \in Nat
  BY DEF Inv, LiveBidTypeOK, TypeOK
<1>3. CASE SweepEmpty
  BY <1>3 DEF SweepEmpty, Fed, Inv, LiveBidTypeOK, TypeOK, BidIsBacked, bidVars
<1>4. ASSUME NEW accepted \in BOOLEAN, SweepThrottled(accepted)
      PROVE  Fed(SyncedThreshold) /\ SyncActivationThreshold
  <2>1. CarvedReward(Drip) \in Nat /\ CarvedReward(Drip) <= Drip
    BY DripType, RewardRange
  <2>2. QED
    BY <1>1, <1>4, <2>1, ThrottledFed DEF SweepThrottled
<1>5. ASSUME NEW accepted \in BOOLEAN, SweepWarmUp(accepted)
      PROVE  Fed(SyncedThreshold) /\ SyncActivationThreshold
  <2> DEFINE reward == CarvedReward(buffer)
             value == buffer - reward
  <2>1. reward \in Nat /\ reward <= buffer
    BY <1>2, RewardRange
  <2>2. Room(SyncedThreshold) \in Int /\ buffer < Room(SyncedThreshold)
    BY <1>1, <1>2, <1>5 DEF SweepWarmUp, Room
  <2>3. value \in Nat /\ value + reward <= buffer /\ value <= Room(SyncedThreshold)
    BY <1>2, <2>1, <2>2
  <2>4. ForwardToBid(value, reward, accepted) /\ FastMode(SyncedThreshold)
    BY <1>5 DEF SweepWarmUp
  <2> HIDE DEF value, reward
  <2>5. Fed(SyncedThreshold)
    BY <1>1, <2>1, <2>3, <2>4, FastFed
  <2>6. QED
    BY <1>5, <2>5 DEF SweepWarmUp
<1>6. ASSUME NEW accepted \in BOOLEAN, SweepFill(accepted)
      PROVE  Fed(SyncedThreshold) /\ SyncActivationThreshold
  <2> DEFINE room == Room(SyncedThreshold)
             reward == Least(RewardOn(room), buffer - room)
  <2>1. room \in Nat /\ room <= buffer
    BY <1>1, <1>2, <1>6 DEF SweepFill, FastMode, Room
  <2>2. reward \in Nat /\ room + reward <= buffer
    BY <1>2, <2>1, RewardRange DEF Least
  <2>3. ForwardToBid(room, reward, accepted) /\ FastMode(SyncedThreshold)
    BY <1>6 DEF SweepFill
  <2>4. room <= Room(SyncedThreshold)
    BY <2>1
  <2> HIDE DEF room, reward
  <2>5. Fed(SyncedThreshold)
    BY <1>1, <2>1, <2>2, <2>3, <2>4, FastFed
  <2>6. QED
    BY <1>6, <2>5 DEF SweepFill
<1>7. CASE \E accepted \in BOOLEAN :
              SweepThrottled(accepted) \/ SweepWarmUp(accepted) \/ SweepFill(accepted)
  <2>1. Fed(SyncedThreshold) /\ SyncActivationThreshold
    BY <1>4, <1>5, <1>6, <1>7
  <2>2. activationThreshold' = SyncedThreshold
    BY <2>1 DEF SyncActivationThreshold
  <2>3. QED
    BY <2>1, <2>2
<1>8. QED
  BY <1>3, <1>7 DEF Sweep

\* streamForward feeds the bid with the threshold as it stands.
LEMMA StreamFed ==
    ASSUME Inv, StreamForward
    PROVE  Fed(activationThreshold)
<1>1. activationThreshold \in Nat /\ buffer \in Nat /\ patronEth \in Nat
  BY MeterAssumption DEF Inv, LiveBidTypeOK, TypeOK
<1>2. CASE Throttled(activationThreshold) /\ ForwardToBid(Drip, 0, FALSE)
  <2>1. Drip \in Nat /\ 0 <= Drip /\ Drip - 0 = Drip
    BY DripType
  <2>2. ForwardToBid(Drip - 0, 0, FALSE)
    BY <1>2, <2>1
  <2>3. QED
    BY <1>1, <1>2, <2>1, <2>2, ThrottledFed
<1>3. CASE FastMode(activationThreshold) /\ ForwardToBid(StreamAmount, 0, FALSE)
  <2>1. /\ StreamAmount \in Nat /\ StreamAmount + 0 <= buffer
        /\ StreamAmount <= Room(activationThreshold)
    BY <1>1, <1>3 DEF StreamAmount, Least, Room, FastMode
  <2>2. QED
    BY <1>1, <1>3, <2>1, FastFed
<1>4. QED
  BY <1>2, <1>3 DEF StreamForward

-----------------------------------------------------------------------------
(***************************************************************************)
(* Every step keeps the invariant and is metered.                           *)
(***************************************************************************)
\* The constructor's values are of their types, and an empty bid is backed.
LEMMA InitInv == LiveBidInit => Inv
<1> SUFFICES ASSUME LiveBidInit PROVE Inv
  OBVIOUS
<1>1. age \in 0 .. MaxAge
  BY MaxAgeBound DEF LiveBidInit
<1>2. activationThreshold \in 0 .. ThresholdHi
  BY MeterAssumption DEF LiveBidInit
<1>3. log \in Seq(Row) /\ Len(log) = 0
  BY DEF LiveBidInit
<1>4. TypeOK
  BY DEF LiveBidInit, TypeOK
<1>5. QED
  BY <1>1, <1>2, <1>3, <1>4 DEF LiveBidInit, Inv, LiveBidTypeOK, BidIsBacked

\* The two forwards.
LEMMA FeedStep ==
    ASSUME Inv, Sweep \/ StreamForward
    PROVE  Inv' /\ Metered
<1> USE DEF Inv
<1>1. CASE Sweep
  <2>1. Fed(activationThreshold') /\ SyncActivationThreshold
    BY <1>1, SweepFed
  <2>2. UNCHANGED <<maxSweepWei, minBlocksBetweenSweeps, allowedSellers, activeIn, log>>
    BY <1>1 DEF Sweep, allowlistVars
  <2>3. activationThreshold' \in 0 .. ThresholdHi
    BY <2>1, SyncedRange DEF SyncActivationThreshold
  <2>4. lastSyncedAcquisitionCount' \in 0 .. Len(log)'
    BY <2>1, <2>2 DEF SyncActivationThreshold, LiveBidTypeOK
  <2>5. LiveBidTypeOK'
    BY <2>1, <2>2, <2>3, <2>4 DEF Fed, LiveBidTypeOK, TypeOK
  <2>6. Metered
    BY <2>1 DEF Fed, Metered, LiveBidTypeOK, TypeOK
  <2>7. QED
    BY <2>1, <2>5, <2>6 DEF Fed
<1>2. CASE StreamForward
  <2>1. Fed(activationThreshold)
    BY <1>2, StreamFed
  <2>2. UNCHANGED <<maxSweepWei, minBlocksBetweenSweeps, allowedSellers, activeIn,
                    activationThreshold, lastSyncedAcquisitionCount, log>>
    BY <1>2 DEF StreamForward, allowlistVars, syncVars
  <2>3. LiveBidTypeOK'
    BY <2>1, <2>2 DEF Fed, LiveBidTypeOK, TypeOK
  <2>4. Metered
    BY <2>1, <2>2 DEF Fed, Metered, LiveBidTypeOK, TypeOK
  <2>5. QED
    BY <2>1, <2>3, <2>4 DEF Fed
<1>3. QED
  BY <1>1, <1>2

\* Money that arrives, or moves between the two contracts, outside a forward.
LEMMA InflowStep ==
    ASSUME Inv, \/ \E value \in Inflows : Fund(value)
                \/ \E value \in Forced : ForceIn(value)
                \/ Skim
    PROVE  Inv' /\ Metered
<1> USE DEF Inv
<1>1. /\ buffer \in Nat /\ accountedLiveBidWei \in Nat /\ patronEth \in Nat
      /\ accountedLiveBidWei <= patronEth
  BY DEF LiveBidTypeOK, TypeOK, BidIsBacked
<1>2. UNCHANGED <<allowedSellers, activeIn, maxSweepWei, minBlocksBetweenSweeps, age,
                  activationThreshold, lastSyncedAcquisitionCount, log, accountedLiveBidWei>>
  BY DEF Fund, ForceIn, Skim, ForceEth, SkimSurplus, bidVars, allowlistVars, meterVars, syncVars
<1>3. buffer' \in Nat /\ patronEth' \in Nat /\ accountedLiveBidWei' <= patronEth'
  <2>1. CASE \E value \in Inflows : Fund(value)
    <3>1. PICK value \in Inflows : Fund(value)
      BY <2>1
    <3>2. PICK share \in {0, (value * ReferrerContribBps) \div BpsDenom} :
             buffer' = buffer + value - share
      BY <3>1 DEF Fund
    <3>3. value \in Nat
      BY MeterAssumption
    <3>4. (value * ReferrerContribBps) \div BpsDenom \in 0 .. value
      BY <3>3 DEF ReferrerContribBps, BpsDenom
    <3>5. buffer' \in Nat
      BY <1>1, <3>2, <3>3, <3>4
    <3>6. QED
      BY <1>1, <3>1, <3>5 DEF Fund, bidVars
  <2>2. CASE \E value \in Forced : ForceIn(value)
    <3>1. PICK value \in Forced : ForceIn(value)
      BY <2>2
    <3>2. value \in Nat
      BY MeterAssumption
    <3>3. QED
      BY <1>1, <3>1, <3>2 DEF ForceIn, ForceEth
  <2>3. CASE Skim
    BY <1>1, <2>3 DEF Skim, SkimSurplus, Surplus
  <2>4. QED
    BY <2>1, <2>2, <2>3
<1>4. LiveBidTypeOK'
  BY <1>2, <1>3 DEF LiveBidTypeOK, TypeOK
<1>5. Metered
  BY <1>1, <1>2 DEF Metered
<1>6. QED
  BY <1>3, <1>4, <1>5 DEF BidIsBacked

\* A purchase through either entry point debits the bid and the balance alike.
LEMMA PurchaseStep ==
    ASSUME Inv, Purchase
    PROVE  Inv' /\ Metered
<1> USE DEF Inv
<1>1. PICK seller \in Accounts, acquirer \in Accounts, price \in Prices,
           via \in {"acceptBid", "acceptListing"}, spent \in Nat :
         PayOut(spent) /\ Record(via, acquirer, seller, price)
  <2>1. PICK seller \in Accounts, price \in Prices :
           \/ AcceptBid(seller, price)
           \/ \E caller \in Accounts : AcceptListing(caller, seller, price)
    BY DEF Purchase
  <2>2. price \in Nat /\ FinderFee \in Nat
    BY MeterAssumption, FinderFeeType DEF LiveBidTypeOK, TypeOK
  <2>3. CASE AcceptBid(seller, price)
    BY <2>2, <2>3 DEF AcceptBid
  <2>4. CASE \E caller \in Accounts : AcceptListing(caller, seller, price)
    <3>1. price + FinderFee \in Nat
      BY <2>2
    <3>2. QED
      BY <2>4, <3>1 DEF AcceptListing
  <2>5. QED
    BY <2>1, <2>3, <2>4
<1>2. /\ accountedLiveBidWei \in Nat /\ patronEth \in Nat
      /\ accountedLiveBidWei <= patronEth
  BY DEF LiveBidTypeOK, TypeOK, BidIsBacked
<1>3. /\ accountedLiveBidWei' \in Nat /\ patronEth' \in Nat
      /\ accountedLiveBidWei' <= patronEth' /\ accountedLiveBidWei' <= accountedLiveBidWei
  BY <1>1, <1>2 DEF PayOut
<1>4. UNCHANGED <<allowedSellers, activeIn, buffer, maxSweepWei, minBlocksBetweenSweeps, age,
                  activationThreshold, lastSyncedAcquisitionCount>>
  BY <1>1 DEF Record, allowlistVars, meterVars, syncVars
<1>5. [via |-> via, acquirer |-> acquirer, seller |-> seller, price |-> price] \in Row
  BY DEF Row
<1>6. log' \in Seq(Row) /\ Len(log') = Len(log) + 1
  BY <1>1, <1>5 DEF Record, LiveBidTypeOK
<1>7. lastSyncedAcquisitionCount' \in 0 .. Len(log')
  <2>1. Len(log) \in Nat
    BY DEF LiveBidTypeOK
  <2>2. QED
    BY <1>4, <1>6, <2>1 DEF LiveBidTypeOK
<1>8. LiveBidTypeOK'
  BY <1>3, <1>4, <1>6, <1>7 DEF LiveBidTypeOK, TypeOK
<1>9. Metered
  BY <1>2, <1>3 DEF Metered
<1>10. QED
  BY <1>3, <1>8, <1>9 DEF BidIsBacked

\* The setters, a block, and a stuttering step leave the money alone.
LEMMA QuietStep ==
    ASSUME Inv, \/ SetActivationThreshold \/ SetMaxSweepWei \/ SetMinBlocksBetweenSweeps
                \/ Block \/ UNCHANGED liveBidVars
    PROVE  Inv' /\ Metered
<1> USE DEF Inv
<1>1. UNCHANGED <<bidVars, allowlistVars, buffer, lastSyncedAcquisitionCount, log>>
  BY DEF SetActivationThreshold, SetMaxSweepWei, SetMinBlocksBetweenSweeps, Block, liveBidVars,
         syncVars
<1>2. activationThreshold' \in 0 .. ThresholdHi
  BY MeterAssumption DEF SetActivationThreshold, SetMaxSweepWei, SetMinBlocksBetweenSweeps,
     Block, liveBidVars, meterVars, syncVars, LiveBidTypeOK
<1>3. maxSweepWei' \in SweepCaps /\ minBlocksBetweenSweeps' \in Cooldowns
  BY DEF SetActivationThreshold, SetMaxSweepWei, SetMinBlocksBetweenSweeps, Block, liveBidVars,
         meterVars, LiveBidTypeOK
<1>4. age' \in 0 .. MaxAge
  BY MaxAgeBound DEF SetActivationThreshold, SetMaxSweepWei, SetMinBlocksBetweenSweeps, Block,
     liveBidVars, meterVars, LiveBidTypeOK
<1>5. LiveBidTypeOK'
  BY <1>1, <1>2, <1>3, <1>4 DEF LiveBidTypeOK, TypeOK, bidVars, allowlistVars
<1>6. Metered
  BY <1>1 DEF Metered, bidVars, LiveBidTypeOK, TypeOK
<1>7. QED
  BY <1>1, <1>5, <1>6 DEF BidIsBacked, bidVars

\* All of the above, for the next-state relation.
LEMMA StepInv == Inv /\ [LiveBidNext]_liveBidVars => Inv' /\ Metered
  BY FeedStep, InflowStep, PurchaseStep, QuietStep DEF LiveBidNext

-----------------------------------------------------------------------------
(***************************************************************************)
(* Theorems.                                                                *)
(***************************************************************************)
\* The invariant holds in every reachable state.
THEOREM LiveBidInvariance == LiveBidSpec => []Inv
<1>1. Inv /\ [LiveBidNext]_liveBidVars => Inv'
  BY StepInv
<1>2. QED
  BY InitInv, <1>1, PTL DEF LiveBidSpec

\* Type correctness: no amount is ever negative, the threshold stays in the
\* range its setter is held to, and a sync never runs ahead of the log.
THEOREM LiveBidTypes == LiveBidSpec => []LiveBidTypeOK
<1>1. Inv => LiveBidTypeOK
  BY DEF Inv
<1>2. QED
  BY LiveBidInvariance, <1>1, PTL

\* For all amounts, caps and prices, the bid that Patron offers is money it
\* holds, through forced transfers, skims, forwards and purchases.
THEOREM Backed == LiveBidSpec => []BidIsBacked
<1>1. Inv => BidIsBacked
  BY DEF Inv
<1>2. QED
  BY LiveBidInvariance, <1>1, PTL

\* For all caps, cooldowns and thresholds, no path grows the bid past the
\* threshold from below it, nor by more than the cap once a cooldown above it.
THEOREM Growth == LiveBidSpec => MeteredGrowth
<1>1. Inv /\ [LiveBidNext]_liveBidVars => [Metered]_liveBidVars
  BY StepInv
<1>2. QED
  BY LiveBidInvariance, <1>1, PTL DEF LiveBidSpec, MeteredGrowth
=============================================================================
