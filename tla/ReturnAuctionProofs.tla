------------------------- MODULE ReturnAuctionProofs -------------------------
(***************************************************************************)
(* The return auctions, for any finite sets of Punks and accounts and for   *)
(* any costs, bids and clock.                                               *)
(*                                                                          *)
(* IInv, about one slot and the owner of its Punk, carries BidsCoverCost,   *)
(* OwnsExactlyOpenPunks and TimeToAnswer.  With the types of the amounts    *)
(* (MoneyTypes) it is all that TypeOK, EveryWeiAccounted and the refinement *)
(* of AuctionHouse need; the sums of the last two are handled by Lemmas.    *)
(***************************************************************************)
EXTENDS ReturnAuction, Lemmas

SlotTypes == sales \in [Punks -> Sale]
OwnerTypes == punkOwner \in [Punks -> Accounts \cup {Module, Vault}]

\* What BidsCoverCost says of one slot.
Covered(s) ==
    /\ s.cost > 0 => s.reserve > s.cost
    /\ s.bidder # NoAccount => s.high >= s.reserve
    /\ s.bidder = NoAccount <=> s.high = 0

IInv == SlotTypes /\ OwnerTypes /\ BidsCoverCost /\ OwnsExactlyOpenPunks

-----------------------------------------------------------------------------
\* The reserve of a new sale exceeds its cost, whatever the rounding
\* (ReturnAuctionModule.sol:360-375).
LEMMA ReserveExceedsCost ==
    ASSUME NEW cost \in Nat, NEW n \in Nat
    PROVE  /\ ReserveFor(cost, n) \in Nat
           /\ cost > 0 => ReserveFor(cost, n) > cost
<1>. DEFINE extra == cost * n
<1>1. extra \in Nat
    OBVIOUS
<1>2. cost * (101 + n) = 101 * cost + extra
    OBVIOUS
<1>. HIDE DEF extra
<1>. QED
    BY <1>1, <1>2 DEF ReserveFor

\* The least bid reaches the reserve and beats the standing bid
\* (ReturnAuctionModule.sol:439-460).
LEMMA LeastBid ==
    ASSUME NEW s \in Sale
    PROVE  MinBid(s) \in Nat /\ MinBid(s) >= s.reserve /\ MinBid(s) > s.high
<1>1. s.high \in Nat /\ s.reserve \in Nat
    BY DEF Sale
<1>2. (s.high * MinBidIncrementBps) \div BpsDenom \in Nat
    BY <1>1 DEF MinBidIncrementBps, BpsDenom
<1>. QED
    BY <1>1, <1>2 DEF MinBid

\* A bid leaves the clock at Window at least, and never turns it back
\* (ReturnAuctionModule.sol:471-478).
LEMMA ClockAfterBid ==
    ASSUME NEW s \in Sale
    PROVE  LeftAfterBid(s) \in Nat /\ LeftAfterBid(s) >= s.left /\ LeftAfterBid(s) >= Window
BY AuctionAssumption DEF AuctionAssumption, Sale, LeftAfterBid

\* BidsCoverCost, one slot at a time.
LEMMA CoveredSlots ==
    /\ BidsCoverCost <=> \A p \in Punks : sales[p].phase = "open" => Covered(sales[p])
    /\ BidsCoverCost' <=> \A p \in Punks : sales'[p].phase = "open" => Covered(sales'[p])
BY DEF BidsCoverCost, Covered, Open

-----------------------------------------------------------------------------
\* The slot that StartSale fills is of its type and covered.
LEMMA StartKeeps ==
    ASSUME IInv, NEW p \in Punks, NEW cost \in Nat, NEW target \in Traits, NEW prev \in Nat,
           punkOwner' = [punkOwner EXCEPT ![p] = Module], StartSale(p, cost, target, prev)
    PROVE  IInv'
<1>. DEFINE s == [phase |-> "open", cost |-> cost, high |-> 0, bidder |-> NoAccount,
                  left |-> Duration, reserve |-> ReserveFor(cost, prev), target |-> target]
<1>1. s \in Sale /\ Covered(s)
    BY ReserveExceedsCost, AuctionAssumption DEF AuctionAssumption, Sale, Covered
<1>2. sales' = [sales EXCEPT ![p] = s]
    BY DEF StartSale
<1>3. s.phase = "open"
    OBVIOUS
<1>. HIDE DEF s
<1>4. SlotTypes'
    BY <1>1, <1>2 DEF IInv, SlotTypes
<1>5. OwnerTypes'
    BY DEF IInv, OwnerTypes
<1>6. BidsCoverCost'
    BY <1>1, <1>2, CoveredSlots DEF IInv, SlotTypes
<1>7. OwnsExactlyOpenPunks'
    BY <1>2, <1>3 DEF IInv, SlotTypes, OwnerTypes, OwnsExactlyOpenPunks, Open
<1>. QED
    BY <1>4, <1>5, <1>6, <1>7 DEF IInv

\* So an acquisition preserves the invariant.
LEMMA AcquireKeeps ==
    ASSUME IInv, NEW p \in Punks, Acquire(p)
    PROVE  IInv'
<1>1. PICK cost \in Costs, target \in Traits, prev \in 0 .. MaxAttempts :
            /\ punkOwner' = [punkOwner EXCEPT ![p] = Module]
            /\ StartSale(p, cost, target, prev)
    BY DEF Acquire
<1>2. cost \in Nat /\ prev \in Nat
    BY AuctionAssumption DEF AuctionAssumption
<1>. QED
    BY <1>1, <1>2, StartKeeps

\* A bid: its slot stays open and covered, and the owners are what they were.
LEMMA BidKeeps ==
    ASSUME IInv, NEW p \in Punks, Bid(p)
    PROVE  IInv'
<1>1. PICK a \in Accounts, value \in Bids, referrer \in Accounts \cup {NoAccount},
           pushed \in BOOLEAN : PlaceBid(p, a, value, referrer, pushed)
    BY DEF Bid
<1>. DEFINE s == [sales[p] EXCEPT !.high = value, !.bidder = a,
                                  !.left = LeftAfterBid(sales[p])]
<1>2. sales[p] \in Sale /\ sales[p].phase = "open"
    BY <1>1 DEF IInv, SlotTypes, PlaceBid, Live, Open
<1>3. value \in Nat /\ value >= sales[p].reserve /\ value > 0
    <2>1. value \in Nat /\ value >= MinBid(sales[p])
        BY <1>1, AuctionAssumption DEF AuctionAssumption, PlaceBid
    <2>2. sales[p].high \in Nat /\ sales[p].reserve \in Nat
        BY <1>2 DEF Sale
    <2>. QED
        BY <1>2, <2>1, <2>2, LeastBid
<1>4. s \in Sale /\ s.phase = "open"
    BY <1>2, <1>3, ClockAfterBid DEF Sale
<1>5. Covered(s)
    <2>1. sales[p].cost > 0 => sales[p].reserve > sales[p].cost
        BY <1>2, CoveredSlots DEF IInv, Covered
    <2>2. /\ s.cost = sales[p].cost /\ s.reserve = sales[p].reserve
          /\ s.high = value /\ s.bidder = a
        BY <1>2 DEF Sale
    <2>. QED
        BY <1>3, <2>1, <2>2, AddressAssumption DEF AddressAssumption, Covered
<1>6. sales' = [sales EXCEPT ![p] = s] /\ UNCHANGED punkOwner
    BY <1>1, <1>2 DEF PlaceBid, IInv, SlotTypes, Sale
<1>. HIDE DEF s
<1>7. SlotTypes' /\ OwnerTypes'
    BY <1>4, <1>6 DEF IInv, SlotTypes, OwnerTypes
<1>8. BidsCoverCost'
    BY <1>4, <1>5, <1>6, CoveredSlots DEF IInv, SlotTypes
<1>9. OwnsExactlyOpenPunks'
    BY <1>2, <1>4, <1>6 DEF IInv, SlotTypes, OwnerTypes, OwnsExactlyOpenPunks, Open
<1>. QED
    BY <1>7, <1>8, <1>9 DEF IInv

\* A settlement closes the slot and hands the Punk to the vault or the winner.
LEMMA SettleKeeps ==
    ASSUME IInv, NEW p \in Punks, Settle(p)
    PROVE  IInv'
<1>1. PICK to \in Accounts \cup {Vault} :
            /\ sales' = [sales EXCEPT ![p].phase = "settled"]
            /\ punkOwner' = [punkOwner EXCEPT ![p] = to]
    <2>1. CASE SettleUnsold(p)
        BY <2>1 DEF SettleUnsold, TransferPunk
    <2>2. CASE \E accepted \in BOOLEAN : SettleCleared(p, accepted)
        <3>1. sales[p].bidder \in Accounts
            BY <2>2 DEF SettleCleared, IInv, SlotTypes, Sale
        <3>. QED
            BY <2>2, <3>1 DEF SettleCleared, TransferPunk
    <2>. QED
        BY <2>1, <2>2 DEF Settle
<1>2. to # Module
    BY AddressAssumption DEF AddressAssumption
<1>3. SlotTypes' /\ OwnerTypes'
    BY <1>1 DEF IInv, SlotTypes, OwnerTypes, Sale
<1>4. /\ sales'[p].phase = "settled"
      /\ \A q \in Punks \ {p} : sales'[q] = sales[q]
    BY <1>1 DEF IInv, SlotTypes, Sale
<1>5. BidsCoverCost'
    BY <1>4, CoveredSlots DEF IInv
<1>6. OwnsExactlyOpenPunks'
    BY <1>1, <1>2, <1>4 DEF IInv, OwnerTypes, OwnsExactlyOpenPunks, Open
<1>. QED
    BY <1>3, <1>5, <1>6 DEF IInv

\* Time moves the clocks and nothing else.
LEMMA TickKeeps ==
    ASSUME IInv, Tick
    PROVE  IInv'
<1>1. \A p \in Punks : sales[p] \in Sale
    BY DEF IInv, SlotTypes
<1>2. sales' \in [Punks -> Sale]
    BY <1>1 DEF Tick, Elapse, Sale
<1>3. \A p \in Punks :
            /\ sales'[p].phase = sales[p].phase /\ sales'[p].cost = sales[p].cost
            /\ sales'[p].high = sales[p].high /\ sales'[p].bidder = sales[p].bidder
            /\ sales'[p].reserve = sales[p].reserve
    BY <1>1 DEF Tick, Elapse, Sale
<1>4. UNCHANGED punkOwner
    BY DEF Tick, Elapse
<1>5. BidsCoverCost'
    BY <1>3 DEF IInv, BidsCoverCost, Open
<1>. QED
    BY <1>2, <1>3, <1>4, <1>5 DEF IInv, SlotTypes, OwnerTypes, OwnsExactlyOpenPunks, Open

-----------------------------------------------------------------------------
\* Before the first auction the Punks belong to accounts.
THEOREM IInvInit == Init => IInv
BY AddressAssumption
   DEF AddressAssumption, Init, IInv, SlotTypes, OwnerTypes, BidsCoverCost,
       OwnsExactlyOpenPunks, Open, Sale, EmptySlot

\* Every transaction preserves it.
THEOREM IInvNext == IInv /\ [Next]_vars => IInv'
<1>. SUFFICES ASSUME IInv, [Next]_vars PROVE IInv'
    OBVIOUS
<1>1. ASSUME NEW p \in Punks, Acquire(p) \/ Bid(p) \/ Settle(p) PROVE IInv'
    BY <1>1, AcquireKeeps, BidKeeps, SettleKeeps
<1>2. ASSUME Tick PROVE IInv'
    BY <1>2, TickKeeps
<1>3. ASSUME UNCHANGED <<sales, punkOwner>> PROVE IInv'
    BY <1>3 DEF IInv, SlotTypes, OwnerTypes, BidsCoverCost, OwnsExactlyOpenPunks, Open
<1>4. Withdraw => UNCHANGED <<sales, punkOwner>>
    BY DEF Withdraw, WithdrawRefund
<1>5. UNCHANGED vars => UNCHANGED <<sales, punkOwner>>
    BY DEF vars
<1>. QED
    BY <1>1, <1>2, <1>3, <1>4, <1>5 DEF Next

\* It therefore holds in every reachable state.
THEOREM AlwaysIInv == Spec => []IInv
BY IInvInit, IInvNext, PTL DEF Spec

\* The premium of a settlement never underflows, whatever the cost, the reserve
\* and the increments round to (ReturnAuctionModule.sol:360-375, 439-460, 616).
THEOREM AlwaysCovered == Spec => []BidsCoverCost
<1>1. IInv => BidsCoverCost
    BY DEF IInv
<1>. QED
    BY <1>1, AlwaysIInv, PTL

\* The module owns a Punk exactly while its auction is open
\* (ReturnAuctionModule.sol:344-394, 494-717).
THEOREM AlwaysOwned == Spec => []OwnsExactlyOpenPunks
<1>1. IInv => OwnsExactlyOpenPunks
    BY DEF IInv
<1>. QED
    BY <1>1, AlwaysIInv, PTL

-----------------------------------------------------------------------------
\* What TimeToAnswer says of one step of one slot.
Timely(p) ==
    Open(p) /\ Open(p)' =>
        LET s == sales[p]
            t == sales'[p]
        IN  IF t.high # s.high
            THEN t.left >= s.left /\ t.left >= Window
            ELSE t.left >= s.left - 1

\* Every step leaves time to answer.
LEMMA StepIsTimely ==
    ASSUME IInv, [Next]_vars, NEW q \in Punks
    PROVE  Timely(q)
<1>1. sales[q] \in Sale /\ sales[q].left \in Nat
    BY DEF IInv, SlotTypes, Sale
<1>2. ASSUME sales'[q] = sales[q] PROVE Timely(q)
    BY <1>1, <1>2 DEF Timely
<1>3. ASSUME NEW p \in Punks, Acquire(p) PROVE Timely(q)
    <2>1. p = q => ~Open(q)
        BY <1>3 DEF Acquire, StartSale
    <2>2. p # q => sales'[q] = sales[q]
        BY <1>3 DEF Acquire, StartSale, IInv, SlotTypes
    <2>. QED
        BY <1>2, <2>1, <2>2 DEF Timely
<1>4. ASSUME NEW p \in Punks, Bid(p) PROVE Timely(q)
    <2>1. p = q => sales'[q].left = LeftAfterBid(sales[q])
        BY <1>1, <1>4 DEF Bid, PlaceBid, IInv, SlotTypes, Sale
    <2>2. p # q => sales'[q] = sales[q]
        BY <1>4 DEF Bid, PlaceBid, IInv, SlotTypes
    <2>3. p = q => Timely(q)
        BY <1>1, <2>1, ClockAfterBid DEF Timely
    <2>. QED
        BY <1>2, <2>2, <2>3
<1>5. ASSUME NEW p \in Punks, Settle(p) PROVE Timely(q)
    <2>1. p = q => sales'[q].phase = "settled"
        BY <1>1, <1>5 DEF Settle, SettleUnsold, SettleCleared, IInv, SlotTypes, Sale
    <2>2. p # q => sales'[q] = sales[q]
        BY <1>5 DEF Settle, SettleUnsold, SettleCleared, IInv, SlotTypes
    <2>. QED
        BY <1>2, <2>1, <2>2 DEF Timely, Open
<1>6. ASSUME Tick PROVE Timely(q)
    <2>1. /\ sales'[q].high = sales[q].high
          /\ sales'[q].left = IF sales[q].left > 0 THEN sales[q].left - 1 ELSE 0
        BY <1>1, <1>6 DEF Tick, Elapse, Sale
    <2>. QED
        BY <1>1, <2>1 DEF Timely
<1>7. Withdraw \/ UNCHANGED vars => sales'[q] = sales[q]
    BY DEF Withdraw, WithdrawRefund, vars
<1>. QED
    BY <1>2, <1>3, <1>4, <1>5, <1>6, <1>7 DEF Next

\* Whoever is outbid has Window to answer, and no step but time passing takes
\* anything off an open auction's clock (ReturnAuctionModule.sol:471-478).
THEOREM AlwaysTimely == Spec => TimeToAnswer
<1>1. IInv /\ [Next]_vars => [\A p \in Punks : Timely(p)]_vars
    BY StepIsTimely
<1>. QED
    BY <1>1, AlwaysIInv, PTL DEF Spec, TimeToAnswer, Timely
-----------------------------------------------------------------------------
(***************************************************************************)
(* Money.  MoneyTypes completes TypeOK; together with IInv it is all that   *)
(* the sums need.                                                           *)
(***************************************************************************)
MoneyTypes ==
    /\ pendingRefund \in [Accounts -> Nat]
    /\ referrerOfHighBid \in [Punks -> Accounts \cup {NoAccount}]
    /\ eth \in Nat
    /\ wallet \in [Accounts -> Nat]
    /\ received \in [Sinks -> Nat]

\* The shares of a hammer price, and what they add up to
\* (ReturnAuctionModule.sol:590-655).
LEMMA Shares ==
    ASSUME NEW p \in Punks, sales[p] \in Sale, sales[p].high >= sales[p].cost,
           NEW accepted
    PROVE  /\ LiveBidShare(sales[p]) \in Nat
           /\ BurnShare(sales[p]) \in Nat
           /\ VaultBurnFromCost(sales[p]) \in Nat
           /\ ReferrerShare(p, accepted) \in Nat
           /\ Premium(sales[p]) - ReferrerShare(p, accepted) \in Nat
           /\ LiveBidShare(sales[p]) + BurnShare(sales[p]) + VaultBurnFromCost(sales[p])
                = sales[p].cost
           /\ ReferrerShare(p, accepted) > 0 => referrerOfHighBid[p] # NoAccount
<1> DEFINE cost == sales[p].cost
           premium == sales[p].high - cost
<1>1. cost \in Nat /\ sales[p].high \in Nat /\ premium \in Nat
  BY DEF Sale
<1>2. /\ LiveBidShare(sales[p]) = (cost * 6500) \div 10000
      /\ VaultBurnFromCost(sales[p]) = (cost * 1000) \div 10000
      /\ BurnShare(sales[p]) = cost - (cost * 6500) \div 10000 - (cost * 1000) \div 10000
  BY DEF LiveBidShare, VaultBurnFromCost, BurnShare, ClearedBidBps, ClearedVaultBurnBps,
         BpsDenom
<1>3. /\ Premium(sales[p]) = premium
      /\ ReferrerShare(p, accepted) \in {0, (premium * 500) \div 10000}
      /\ ReferrerShare(p, accepted) > 0 => referrerOfHighBid[p] # NoAccount
  BY DEF ReferrerShare, Premium, ReferrerPremiumBps, BpsDenom
<1>4. (premium * 500) \div 10000 \in Nat /\ (premium * 500) \div 10000 <= premium
  BY <1>1
<1> HIDE DEF cost, premium
<1>5. /\ (cost * 6500) \div 10000 \in Nat /\ (cost * 1000) \div 10000 \in Nat
      /\ cost - (cost * 6500) \div 10000 - (cost * 1000) \div 10000 \in Nat
  BY <1>1
<1>6. /\ ReferrerShare(p, accepted) \in Nat
      /\ Premium(sales[p]) - ReferrerShare(p, accepted) \in Nat
  BY <1>1, <1>3, <1>4
<1>7. LiveBidShare(sales[p]) + BurnShare(sales[p]) + VaultBurnFromCost(sales[p]) = cost
  BY <1>1, <1>2, <1>5
<1> QED BY <1>2, <1>3, <1>5, <1>6, <1>7 DEF cost

\* The wallets after a bid has been paid for, before the refund.
Paid(a, value) == [wallet EXCEPT ![a] = @ - value]

\* Where the bid before goes: nowhere, back to its bidder, or into the queue.
Refunded(p, a, value) ==
    LET b == sales[p].bidder
        funds == Paid(a, value)
    IN  \/ /\ b = NoAccount /\ sales[p].high = 0
           /\ wallet' = funds /\ UNCHANGED pendingRefund /\ eth' = eth + value
        \/ /\ b \in Accounts
           /\ wallet' = [funds EXCEPT ![b] = funds[b] + sales[p].high]
           /\ UNCHANGED pendingRefund
           /\ eth' = eth + value - sales[p].high
        \/ /\ b \in Accounts
           /\ wallet' = funds /\ eth' = eth + value
           /\ pendingRefund' = [pendingRefund EXCEPT ![b] = pendingRefund[b] + sales[p].high]

\* Every bid does one of these three things (ReturnAuctionModule.sol:420-492).
LEMMA BidRefunds ==
    ASSUME IInv, MoneyTypes, NEW p \in Punks, NEW a \in Accounts, NEW value \in Bids,
           NEW referrer \in Accounts \cup {NoAccount}, NEW pushed \in BOOLEAN,
           PlaceBid(p, a, value, referrer, pushed)
    PROVE  /\ sales[p] \in Sale /\ Open(p)
           /\ value \in Nat /\ value > sales[p].high
           /\ value <= wallet[a] /\ Paid(a, value) \in [Accounts -> Nat]
           /\ Refunded(p, a, value)
<1>1. sales[p] \in Sale /\ Open(p) /\ sales[p].high \in Nat
  BY DEF IInv, SlotTypes, PlaceBid, Live, Sale
<1>2. value \in Nat /\ value > sales[p].high
  BY <1>1, LeastBid, AuctionAssumption DEF AuctionAssumption, PlaceBid
<1>3. value <= wallet[a] /\ Paid(a, value) \in [Accounts -> Nat]
  BY <1>2 DEF PlaceBid, MoneyTypes, Paid
<1>4. /\ sales[p].bidder \in Accounts \cup {NoAccount}
      /\ sales[p].bidder = NoAccount <=> sales[p].high = 0
  BY <1>1, CoveredSlots DEF IInv, Covered, Sale, Open
<1>5. Refund(Paid(a, value), sales[p].bidder, sales[p].high, pushed)
  BY DEF PlaceBid, Paid
<1>6. eth' = eth + value - (IF sales[p].bidder # NoAccount /\ pushed
                            THEN sales[p].high ELSE 0)
  BY DEF PlaceBid
<1>7. Refunded(p, a, value)
  <2>1. eth \in Nat
    BY DEF MoneyTypes
  <2>2. CASE sales[p].bidder = NoAccount
    BY <1>1, <1>2, <1>4, <1>5, <1>6, <2>1, <2>2 DEF Refund, Refunded
  <2>3. CASE sales[p].bidder # NoAccount /\ pushed
    BY <1>1, <1>2, <1>4, <1>5, <1>6, <2>1, <2>3 DEF Refund, Refunded
  <2>4. CASE sales[p].bidder # NoAccount /\ ~pushed
    BY <1>1, <1>2, <1>4, <1>5, <1>6, <2>1, <2>4 DEF Refund, Refunded
  <2> QED BY <2>2, <2>3, <2>4
<1> QED BY <1>1, <1>2, <1>3, <1>7

\* A bid keeps the amounts natural numbers.
LEMMA BidKeepsMoney ==
    ASSUME IInv, MoneyTypes, NEW p \in Punks, Bid(p)
    PROVE  MoneyTypes'
<1>1. PICK a \in Accounts, value \in Bids, referrer \in Accounts \cup {NoAccount},
           pushed \in BOOLEAN : PlaceBid(p, a, value, referrer, pushed)
  BY DEF Bid
<1>2. /\ sales[p].high \in Nat /\ value \in Nat /\ value > sales[p].high
      /\ Paid(a, value) \in [Accounts -> Nat]
      /\ Refunded(p, a, value)
  BY <1>1, BidRefunds DEF Sale
<1>3. /\ wallet' \in [Accounts -> Nat]
      /\ pendingRefund' \in [Accounts -> Nat]
      /\ eth' \in Nat
  BY <1>2 DEF Refunded, MoneyTypes
<1>4. /\ referrerOfHighBid' \in [Punks -> Accounts \cup {NoAccount}]
      /\ received' = received
  BY <1>1 DEF PlaceBid, MoneyTypes
<1> QED BY <1>3, <1>4 DEF MoneyTypes

\* So does the split of a hammer price.
LEMMA ClearedKeepsMoney ==
    ASSUME IInv, MoneyTypes, NEW p \in Punks, NEW accepted \in BOOLEAN,
           SettleCleared(p, accepted)
    PROVE  MoneyTypes'
<1>1. sales[p] \in Sale /\ sales[p].high \in Nat
  BY DEF IInv, SlotTypes, Sale
<1>2. eth' = eth - sales[p].high /\ eth >= sales[p].high /\ sales[p].high >= sales[p].cost
  BY DEF SettleCleared
<1>3. eth' \in Nat
  BY <1>1, <1>2 DEF MoneyTypes
<1>4. wallet' \in [Accounts -> Nat]
  BY <1>1, <1>2, Shares DEF SettleCleared, MoneyTypes
<1>5. received' \in [Sinks -> Nat]
  <2> DEFINE x == LiveBidShare(sales[p])
             y == BurnShare(sales[p])
             z == VaultBurnFromCost(sales[p])
             u == Premium(sales[p])
             v == ReferrerShare(p, accepted)
  <2>1. x \in Nat /\ y \in Nat /\ z \in Nat /\ v \in Nat /\ u - v \in Nat /\ u \in Int
    BY <1>1, <1>2, Shares DEF Premium, Sale
  <2>2. received' = [received EXCEPT !["adapter"] = @ + x, !["burner"] = @ + y,
                                     !["vaultBurnPool"] = @ + z + u - v]
    BY DEF SettleCleared
  <2>3. received \in [Sinks -> Nat]
    BY DEF MoneyTypes
  <2> HIDE DEF x, y, z, u, v
  <2>4. received["vaultBurnPool"] + z + u - v \in Nat
    BY <2>1, <2>3 DEF Sinks
  <2> QED BY <2>1, <2>2, <2>3, <2>4 DEF Sinks
<1>6. UNCHANGED <<pendingRefund, referrerOfHighBid>>
  BY DEF SettleCleared
<1> QED BY <1>3, <1>4, <1>5, <1>6 DEF MoneyTypes

\* Every transaction keeps the amounts natural numbers.
LEMMA StepKeepsMoney ==
    ASSUME IInv, MoneyTypes, [Next]_vars
    PROVE  MoneyTypes'
<1>1. ASSUME NEW p \in Punks, Acquire(p) PROVE MoneyTypes'
  BY <1>1 DEF Acquire, StartSale, MoneyTypes
<1>2. ASSUME NEW p \in Punks, Bid(p) PROVE MoneyTypes'
  BY <1>2, BidKeepsMoney
<1>3. ASSUME NEW p \in Punks, Settle(p) PROVE MoneyTypes'
  <2>1. CASE SettleUnsold(p)
    BY <2>1 DEF SettleUnsold, Sweep, MoneyTypes, Sinks
  <2> QED BY <1>3, <2>1, ClearedKeepsMoney DEF Settle
<1>4. ASSUME NEW a \in Accounts, WithdrawRefund(a) PROVE MoneyTypes'
  BY <1>4 DEF WithdrawRefund, MoneyTypes
<1>5. Tick \/ UNCHANGED vars => MoneyTypes'
  BY DEF Tick, Elapse, vars, MoneyTypes
<1> QED BY <1>1, <1>2, <1>3, <1>4, <1>5 DEF Next, Withdraw

\* The balances, the queued refunds and the slots keep their types: the contract
\* never pays out more than it holds, and no share of a split is negative
\* (ReturnAuctionModule.sol:405-717).
THEOREM TypeCorrect == Spec => []TypeOK
<1>1. Init => MoneyTypes
  BY AuctionAssumption DEF AuctionAssumption, Init, MoneyTypes
<1>2. IInv /\ MoneyTypes /\ [Next]_vars => MoneyTypes'
  BY StepKeepsMoney
<1>3. IInv /\ MoneyTypes => TypeOK
  BY DEF IInv, SlotTypes, OwnerTypes, MoneyTypes, TypeOK
<1> QED BY <1>1, <1>2, <1>3, AlwaysIInv, PTL DEF Spec

-----------------------------------------------------------------------------
\* EveryWeiAccounted over functions: Leading has the standing bids.
LEMMA AccountedBy ==
    /\ EveryWeiAccounted <=>
          /\ eth = SumFunction(Leading) + SumFunction(pendingRefund)
          /\ SumFunction(wallet) + eth + SumFunction(received)
                = SumFunction([a \in Accounts |-> Wallet])
    /\ EveryWeiAccounted' <=>
          /\ eth' = SumFunction(Leading') + SumFunction(pendingRefund')
          /\ SumFunction(wallet') + eth' + SumFunction(received')
                = SumFunction([a \in Accounts |-> Wallet])
BY DEF EveryWeiAccounted, StandingBids, Leading

\* The sums of the ledgers are integers.
LEMMA SumTypes ==
    ASSUME IInv, MoneyTypes
    PROVE  /\ Leading \in [Punks -> Nat] /\ SumFunction(Leading) \in Int
           /\ pendingRefund \in [Accounts -> Int] /\ SumFunction(pendingRefund) \in Int
           /\ wallet \in [Accounts -> Int] /\ SumFunction(wallet) \in Int
           /\ received \in [Sinks -> Int] /\ SumFunction(received) \in Int
           /\ eth \in Int
           /\ IsFiniteSet(Sinks)
<1>1. Leading \in [Punks -> Nat]
  BY DEF IInv, SlotTypes, Sale, Leading, StandingBid, Open
<1>2. IsFiniteSet(Sinks)
  <2>1. IsFiniteSet({}) /\ IsFiniteSet({"adapter"})
    BY FS_EmptySet, FS_Singleton
  <2>2. IsFiniteSet({"adapter"} \cup {"burner"})
    BY <2>1, FS_AddElement
  <2>3. IsFiniteSet(({"adapter"} \cup {"burner"}) \cup {"vaultBurnPool"})
    BY <2>2, FS_AddElement
  <2>4. Sinks = ({"adapter"} \cup {"burner"}) \cup {"vaultBurnPool"}
    BY DEF Sinks
  <2> QED BY <2>3, <2>4
<1>3. /\ pendingRefund \in [Accounts -> Int] /\ wallet \in [Accounts -> Int]
      /\ received \in [Sinks -> Int] /\ Leading \in [Punks -> Int] /\ eth \in Int
  BY <1>1 DEF MoneyTypes
<1> QED BY <1>1, <1>2, <1>3, SumType, FiniteAssumption DEF FiniteAssumption

\* What a step does to the standing bids: at most one of them changes.
LEMMA LeadingStep ==
    ASSUME IInv, NEW p \in Punks
    PROVE  /\ Acquire(p) => Leading' = Leading
           /\ Bid(p) => Leading' = [Leading EXCEPT ![p] = sales'[p].high]
           /\ Settle(p) => Leading' = [Leading EXCEPT ![p] = 0]
<1>1. sales \in [Punks -> Sale]
  BY DEF IInv, SlotTypes
<1>2. ASSUME Acquire(p) PROVE Leading' = Leading
  <2>1. ~Open(p) /\ sales'[p].high = 0
    BY <1>1, <1>2 DEF Acquire, StartSale
  <2>2. \A q \in Punks \ {p} : sales'[q] = sales[q]
    BY <1>1, <1>2 DEF Acquire, StartSale
  <2>3. \A q \in Punks : StandingBid(q)' = StandingBid(q)
    BY <2>1, <2>2 DEF StandingBid, Open
  <2> QED BY <2>3 DEF Leading
<1>3. ASSUME Bid(p) PROVE Leading' = [Leading EXCEPT ![p] = sales'[p].high]
  <2>1. sales'[p].phase = "open"
    BY <1>1, <1>3 DEF Bid, PlaceBid, Live, Open, Sale
  <2>2. \A q \in Punks \ {p} : sales'[q] = sales[q]
    BY <1>1, <1>3 DEF Bid, PlaceBid
  <2>3. /\ StandingBid(p)' = sales'[p].high
        /\ \A q \in Punks \ {p} : StandingBid(q)' = StandingBid(q)
    BY <2>1, <2>2 DEF StandingBid, Open
  <2> QED BY <2>3 DEF Leading
<1>4. ASSUME Settle(p) PROVE Leading' = [Leading EXCEPT ![p] = 0]
  <2>1. sales'[p].phase = "settled"
    BY <1>1, <1>4 DEF Settle, SettleUnsold, SettleCleared, Sale
  <2>2. \A q \in Punks \ {p} : sales'[q] = sales[q]
    BY <1>1, <1>4 DEF Settle, SettleUnsold, SettleCleared
  <2>3. /\ StandingBid(p)' = 0
        /\ \A q \in Punks \ {p} : StandingBid(q)' = StandingBid(q)
    BY <2>1, <2>2 DEF StandingBid, Open
  <2> QED BY <2>3 DEF Leading
<1> QED BY <1>2, <1>3, <1>4

\* Time changes no bid and no bidder.
LEMMA TickStep ==
    ASSUME IInv, Tick
    PROVE  /\ Leading' = Leading
           /\ \A q \in Punks : /\ sales'[q].phase = sales[q].phase
                               /\ sales'[q].bidder = sales[q].bidder
                               /\ sales'[q].high = sales[q].high
<1>1. \A q \in Punks : sales[q] \in Sale
  BY DEF IInv, SlotTypes
<1>2. \A q \in Punks : /\ sales'[q].phase = sales[q].phase
                       /\ sales'[q].bidder = sales[q].bidder
                       /\ sales'[q].high = sales[q].high
  BY <1>1 DEF Tick, Elapse, Sale
<1>3. \A q \in Punks : StandingBid(q)' = StandingBid(q)
  BY <1>2 DEF StandingBid, Open
<1> QED BY <1>2, <1>3 DEF Leading

\* A bid brings in as much as it adds to what is owed.
LEMMA BidAccounted ==
    ASSUME IInv, MoneyTypes, EveryWeiAccounted, NEW p \in Punks, Bid(p)
    PROVE  EveryWeiAccounted'
<1>1. PICK a \in Accounts, value \in Bids, referrer \in Accounts \cup {NoAccount},
           pushed \in BOOLEAN : PlaceBid(p, a, value, referrer, pushed)
  BY DEF Bid
<1> DEFINE high == sales[p].high
           b == sales[p].bidder
           funds == Paid(a, value)
<1>2. /\ sales[p] \in Sale /\ Open(p) /\ value \in Nat
      /\ funds \in [Accounts -> Nat] /\ Refunded(p, a, value)
  BY <1>1, BidRefunds
<1>3. high \in Nat /\ Leading[p] = high
  BY <1>2 DEF Sale, Leading, StandingBid, Open
<1>4. sales'[p].high = value /\ UNCHANGED received
  BY <1>1, <1>2 DEF PlaceBid, IInv, SlotTypes, Sale
<1>5. SumFunction(Leading') = SumFunction(Leading) - high + value
  <2>1. Leading' = [Leading EXCEPT ![p] = value]
    BY <1>4, LeadingStep
  <2>2. Leading \in [Punks -> Int] /\ value \in Int
    BY <1>2, SumTypes
  <2>3. SumFunction(Put(Leading, p, value)) = SumFunction(Leading) - Leading[p] + value
    BY <2>2, SumPut, FiniteAssumption DEF FiniteAssumption
  <2> QED BY <1>3, <2>1, <2>3 DEF Put
<1>6. SumFunction(funds) = SumFunction(wallet) - value
  <2>1. wallet \in [Accounts -> Int] /\ value \in Int
    BY <1>2, SumTypes
  <2>2. SumFunction(Minus(wallet, a, value)) = SumFunction(wallet) - value
    BY <2>1, SumMinus, FiniteAssumption DEF FiniteAssumption
  <2> QED BY <2>2 DEF Minus, Paid
<1>7. /\ SumFunction(Leading) \in Int /\ SumFunction(pendingRefund) \in Int
      /\ SumFunction(wallet) \in Int /\ SumFunction(received) \in Int /\ eth \in Int
  BY SumTypes
<1>8. ASSUME NEW c \in Accounts
      PROVE  /\ SumFunction(Plus(funds, c, high)) = SumFunction(funds) + high
             /\ SumFunction(Plus(pendingRefund, c, high)) = SumFunction(pendingRefund) + high
  <2>1. funds \in [Accounts -> Int] /\ pendingRefund \in [Accounts -> Int] /\ high \in Int
    BY <1>2, <1>3, SumTypes
  <2> HIDE DEF funds, b, high
  <2>2. SumFunction(Plus(funds, c, high)) = SumFunction(funds) + high
    BY <2>1, SumPlus, FiniteAssumption DEF FiniteAssumption
  <2>3. SumFunction(Plus(pendingRefund, c, high)) = SumFunction(pendingRefund) + high
    BY <2>1, SumPlus, FiniteAssumption DEF FiniteAssumption
  <2> QED BY <2>2, <2>3
<1>9. \/ high = 0 /\ wallet' = funds /\ UNCHANGED pendingRefund /\ eth' = eth + value
      \/ /\ b \in Accounts
         /\ wallet' = Plus(funds, b, high)
         /\ UNCHANGED pendingRefund
         /\ eth' = eth + value - high
      \/ /\ b \in Accounts
         /\ wallet' = funds /\ eth' = eth + value
         /\ pendingRefund' = Plus(pendingRefund, b, high)
  BY <1>2 DEF Refunded, Plus
<1>10. value \in Int /\ high \in Int
  BY <1>2, <1>3
<1> HIDE DEF funds, b, high
<1>11. /\ eth' = SumFunction(Leading') + SumFunction(pendingRefund')
       /\ SumFunction(wallet') + eth' = SumFunction(wallet) + eth
  BY <1>5, <1>6, <1>7, <1>8, <1>9, <1>10, AccountedBy
<1>12. SumFunction(received') = SumFunction(received)
  BY <1>4
<1> HIDE <1>4
<1> QED BY <1>7, <1>11, <1>12, AccountedBy

\* What a settlement with a winner pays to accounts: a referrer's cut of the
\* hammer price, if anything.
LEMMA ClearedPays ==
    ASSUME IInv, MoneyTypes, NEW p \in Punks, NEW accepted \in BOOLEAN,
           SettleCleared(p, accepted)
    PROVE  /\ sales[p] \in Sale /\ Open(p) /\ sales[p].bidder \in Accounts
           /\ sales[p].high \in Nat /\ Leading[p] = sales[p].high
           /\ eth' = eth - sales[p].high
           /\ ReferrerShare(p, accepted) \in Nat
           /\ ReferrerShare(p, accepted) <= sales[p].high
           /\ \/ ReferrerShare(p, accepted) = 0 /\ wallet' = wallet
              \/ \E r \in Accounts :
                    wallet' = [wallet EXCEPT ![r] = wallet[r] + ReferrerShare(p, accepted)]
<1>1. sales[p] \in Sale /\ Open(p)
  BY DEF IInv, SlotTypes, SettleCleared, Settleable
<1>2. sales[p].bidder \in Accounts /\ sales[p].high \in Nat /\ sales[p].cost \in Nat
  BY <1>1 DEF SettleCleared, Sale
<1>3. Leading[p] = sales[p].high
  BY <1>1 DEF Leading, StandingBid, Open
<1>4. eth' = eth - sales[p].high /\ sales[p].high >= sales[p].cost
  BY DEF SettleCleared
<1>5. /\ ReferrerShare(p, accepted) \in Nat
      /\ Premium(sales[p]) - ReferrerShare(p, accepted) \in Nat
      /\ ReferrerShare(p, accepted) > 0 => referrerOfHighBid[p] # NoAccount
  BY <1>1, <1>4, Shares
<1>6. ReferrerShare(p, accepted) <= sales[p].high
  BY <1>2, <1>5 DEF Premium
<1>7. ReferrerShare(p, accepted) > 0 => referrerOfHighBid[p] \in Accounts
  BY <1>5 DEF MoneyTypes
<1>8. wallet' = IF ReferrerShare(p, accepted) > 0
                THEN [wallet EXCEPT ![referrerOfHighBid[p]] = @ + ReferrerShare(p, accepted)]
                ELSE wallet
  BY DEF SettleCleared
<1>9. \/ ReferrerShare(p, accepted) = 0 /\ wallet' = wallet
      \/ \E r \in Accounts :
            wallet' = [wallet EXCEPT ![r] = wallet[r] + ReferrerShare(p, accepted)]
  <2> DEFINE share == ReferrerShare(p, accepted)
             r == referrerOfHighBid[p]
  <2>1. share = 0 \/ share > 0
    BY <1>5
  <2>2. share > 0 => wallet' = [wallet EXCEPT ![r] = wallet[r] + share]
    BY <1>8
  <2> HIDE DEF share, r
  <2> QED BY <1>7, <1>8, <2>1, <2>2 DEF share, r
<1> QED BY <1>1, <1>2, <1>3, <1>4, <1>5, <1>6, <1>9

\* The rest of it goes to the sinks, to the wei (ReturnAuctionModule.sol:590-655).
LEMMA ClearedDelivers ==
    ASSUME IInv, MoneyTypes, NEW p \in Punks, NEW accepted \in BOOLEAN,
           SettleCleared(p, accepted)
    PROVE  SumFunction(received')
             = SumFunction(received) + sales[p].high - ReferrerShare(p, accepted)
<1> DEFINE x == LiveBidShare(sales[p])
           y == BurnShare(sales[p])
           z == VaultBurnFromCost(sales[p])
           u == Premium(sales[p]) - ReferrerShare(p, accepted)
           one == Plus(received, "adapter", x)
           two == Plus(one, "burner", y)
           three == Plus(two, "vaultBurnPool", z + u)
<1>1. /\ sales[p] \in Sale /\ sales[p].high \in Nat /\ sales[p].cost \in Nat
      /\ sales[p].high >= sales[p].cost
  BY DEF IInv, SlotTypes, SettleCleared, Sale
<1>2. /\ x \in Nat /\ y \in Nat /\ z \in Nat /\ u \in Nat
      /\ x + y + z = sales[p].cost
      /\ ReferrerShare(p, accepted) \in Nat
  BY <1>1, Shares
<1>3. x + y + z + u = sales[p].high - ReferrerShare(p, accepted)
  BY <1>1, <1>2 DEF Premium
<1>4. received' = [received EXCEPT !["adapter"] = @ + x, !["burner"] = @ + y,
                      !["vaultBurnPool"] =
                          @ + z + Premium(sales[p]) - ReferrerShare(p, accepted)]
  BY DEF SettleCleared
<1>5. received \in [Sinks -> Int] /\ IsFiniteSet(Sinks) /\ SumFunction(received) \in Int
  BY SumTypes
<1>6. Premium(sales[p]) \in Int
  BY <1>1 DEF Premium
<1>7. received' = three
  <2>1. /\ received["vaultBurnPool"] \in Int /\ received["burner"] \in Int
        /\ received["adapter"] \in Int
    BY <1>5 DEF Sinks
  <2>2. received["vaultBurnPool"] + z + Premium(sales[p]) - ReferrerShare(p, accepted)
          = received["vaultBurnPool"] + (z + u)
    BY <1>2, <1>6, <2>1
  <2>3. received' = [received EXCEPT !["adapter"] = received["adapter"] + x,
                                     !["burner"] = received["burner"] + y,
                                     !["vaultBurnPool"] = received["vaultBurnPool"] + (z + u)]
    BY <1>4, <2>2
  <2> HIDE DEF x, y, z, u
  <2> QED BY <1>5, <2>3 DEF Sinks, Plus
<1> HIDE DEF x, y, z, u
<1>8. one \in [Sinks -> Int] /\ two \in [Sinks -> Int]
  <2>1. one \in [Sinks -> Int]
    BY <1>2, <1>5 DEF Sinks, Plus
  <2> HIDE DEF one
  <2> QED BY <1>2, <2>1 DEF Sinks, Plus
<1>9. "adapter" \in Sinks /\ "burner" \in Sinks /\ "vaultBurnPool" \in Sinks
  BY DEF Sinks
<1>10. SumFunction(one) = SumFunction(received) + x
  <2>1. x \in Int
    BY <1>2
  <2> QED BY <1>5, <1>9, <2>1, SumPlus
<1>11. SumFunction(two) = SumFunction(one) + y
  <2>1. y \in Int
    BY <1>2
  <2> HIDE DEF one
  <2> QED BY <1>5, <1>8, <1>9, <2>1, SumPlus
<1>12. SumFunction(three) = SumFunction(two) + (z + u)
  <2>1. z + u \in Int
    BY <1>2
  <2> HIDE DEF two
  <2> QED BY <1>5, <1>8, <1>9, <2>1, SumPlus
<1>13. ReferrerShare(p, accepted) \in Int /\ sales[p].high \in Int
  BY <1>1, <1>2
<1> HIDE DEF one, two, three
<1> QED BY <1>2, <1>3, <1>5, <1>7, <1>10, <1>11, <1>12, <1>13

\* A settlement with a winner pays out exactly the hammer price.
LEMMA ClearedAccounted ==
    ASSUME IInv, MoneyTypes, EveryWeiAccounted, NEW p \in Punks,
           NEW accepted \in BOOLEAN, SettleCleared(p, accepted)
    PROVE  EveryWeiAccounted'
<1> DEFINE high == sales[p].high
           share == ReferrerShare(p, accepted)
<1>1. /\ high \in Int /\ share \in Int /\ Leading[p] = high /\ eth' = eth - high
      /\ \/ share = 0 /\ wallet' = wallet
         \/ \E r \in Accounts : wallet' = [wallet EXCEPT ![r] = wallet[r] + share]
  BY ClearedPays
<1>2. SumFunction(received') = SumFunction(received) + high - share
  BY ClearedDelivers
<1>3. Leading' = [Leading EXCEPT ![p] = 0]
  BY LeadingStep DEF Settle
<1>4. UNCHANGED pendingRefund
  BY DEF SettleCleared
<1> HIDE DEF high, share
<1>5. SumFunction(Leading') = SumFunction(Leading) - high
  <2>1. Leading \in [Punks -> Int] /\ SumFunction(Leading) \in Int
    BY SumTypes
  <2>2. SumFunction(Put(Leading, p, 0)) = SumFunction(Leading) - Leading[p] + 0
    BY <2>1, SumPut, FiniteAssumption DEF FiniteAssumption
  <2> QED BY <1>1, <1>3, <2>1, <2>2 DEF Put
<1>6. SumFunction(wallet') = SumFunction(wallet) + share
  <2>1. wallet \in [Accounts -> Int] /\ SumFunction(wallet) \in Int
    BY SumTypes
  <2>2. CASE share = 0 /\ wallet' = wallet
    BY <2>1, <2>2
  <2>3. ASSUME NEW r \in Accounts, wallet' = [wallet EXCEPT ![r] = wallet[r] + share]
        PROVE  SumFunction(wallet') = SumFunction(wallet) + share
    <3>1. SumFunction(Plus(wallet, r, share)) = SumFunction(wallet) + share
      BY <1>1, <2>1, SumPlus, FiniteAssumption DEF FiniteAssumption
    <3> QED BY <2>3, <3>1 DEF Plus
  <2> QED BY <1>1, <2>2, <2>3
<1>7. SumFunction(pendingRefund') = SumFunction(pendingRefund)
  BY <1>4
<1> QED BY <1>1, <1>2, <1>5, <1>6, <1>7, AccountedBy, SumTypes

\* The burn pool's sweep moves ETH between sinks (VaultBurnPool.sol).
LEMMA UnsoldAccounted ==
    ASSUME IInv, MoneyTypes, EveryWeiAccounted, NEW p \in Punks, SettleUnsold(p)
    PROVE  EveryWeiAccounted'
<1> DEFINE pool == received["vaultBurnPool"]
           one == Plus(received, "burner", pool)
<1>1. received \in [Sinks -> Int] /\ IsFiniteSet(Sinks) /\ SumFunction(received) \in Int
  BY SumTypes
<1>2. pool \in Int /\ "burner" \in Sinks /\ "vaultBurnPool" \in Sinks
  BY <1>1 DEF Sinks
<1>3. one \in [Sinks -> Int] /\ one["vaultBurnPool"] = pool
  BY <1>1, <1>2 DEF Sinks, Plus
<1>4. received' = Put(one, "vaultBurnPool", 0)
  BY <1>1, <1>3 DEF SettleUnsold, Sweep, Plus, Put
<1>5. SumFunction(one) = SumFunction(received) + pool
  <2> HIDE DEF pool
  <2> QED BY <1>1, <1>2, SumPlus
<1>6. SumFunction(received') = SumFunction(one) - pool + 0
  <2> HIDE DEF one, pool
  <2>1. SumFunction(Put(one, "vaultBurnPool", 0)) = SumFunction(one) - one["vaultBurnPool"] + 0
    BY <1>1, <1>2, <1>3, SumPut
  <2> QED BY <1>3, <1>4, <2>1
<1>7. Leading' = Leading
  <2>1. Leading' = [Leading EXCEPT ![p] = 0]
    BY LeadingStep DEF Settle
  <2>2. Leading[p] = 0
    <3>1. sales[p].phase = "open" /\ sales[p].bidder = NoAccount
      BY DEF SettleUnsold, Settleable, Open
    <3>2. sales[p].high = 0
      BY <3>1, CoveredSlots DEF IInv, Covered
    <3> QED BY <3>2 DEF Leading, StandingBid, Open
  <2> QED BY <2>1, <2>2, SumTypes
<1>8. UNCHANGED <<pendingRefund, eth, wallet>>
  BY DEF SettleUnsold
<1> HIDE DEF pool, one
<1> QED BY <1>1, <1>2, <1>5, <1>6, <1>7, <1>8, AccountedBy

\* A withdrawal moves a queued refund to its owner.
LEMMA WithdrawAccounted ==
    ASSUME IInv, MoneyTypes, EveryWeiAccounted, NEW a \in Accounts, WithdrawRefund(a)
    PROVE  EveryWeiAccounted'
<1>1. /\ wallet \in [Accounts -> Int] /\ pendingRefund \in [Accounts -> Int]
      /\ SumFunction(pendingRefund) \in Int /\ SumFunction(wallet) \in Int
      /\ SumFunction(received) \in Int /\ eth \in Int /\ pendingRefund[a] \in Int
      /\ SumFunction(Leading) \in Int
  BY SumTypes
<1>2. /\ pendingRefund' = [pendingRefund EXCEPT ![a] = 0]
      /\ eth' = eth - pendingRefund[a]
      /\ wallet' = [wallet EXCEPT ![a] = wallet[a] + pendingRefund[a]]
      /\ UNCHANGED <<sales, received>>
  BY DEF WithdrawRefund
<1>3. SumFunction(pendingRefund') = SumFunction(pendingRefund) - pendingRefund[a] + 0
  <2>1. SumFunction(Put(pendingRefund, a, 0))
          = SumFunction(pendingRefund) - pendingRefund[a] + 0
    BY <1>1, SumPut, FiniteAssumption DEF FiniteAssumption
  <2> QED BY <1>2, <2>1 DEF Put
<1>4. SumFunction(wallet') = SumFunction(wallet) + pendingRefund[a]
  <2>1. SumFunction(Plus(wallet, a, pendingRefund[a])) = SumFunction(wallet) + pendingRefund[a]
    BY <1>1, SumPlus, FiniteAssumption DEF FiniteAssumption
  <2> QED BY <1>2, <2>1 DEF Plus
<1>5. Leading' = Leading /\ received' = received
  BY <1>2 DEF Leading, StandingBid, Open
<1>6. SumFunction(Leading') = SumFunction(Leading) /\ SumFunction(received') = SumFunction(received)
  BY <1>5
<1>7. eth' = eth - pendingRefund[a]
  BY <1>2
<1> HIDE <1>2, <1>5
<1> QED BY <1>1, <1>3, <1>4, <1>6, <1>7, AccountedBy

\* Every transaction keeps the books balanced.
LEMMA StepAccounted ==
    ASSUME IInv, MoneyTypes, EveryWeiAccounted, [Next]_vars
    PROVE  EveryWeiAccounted'
<1>1. ASSUME NEW p \in Punks, Acquire(p) PROVE EveryWeiAccounted'
  <2>1. Leading' = Leading
    BY <1>1, LeadingStep
  <2>2. UNCHANGED <<pendingRefund, eth, wallet, received>>
    BY <1>1 DEF Acquire, StartSale
  <2> QED BY <2>1, <2>2, AccountedBy
<1>2. ASSUME NEW p \in Punks, Bid(p) PROVE EveryWeiAccounted'
  BY <1>2, BidAccounted
<1>3. ASSUME NEW p \in Punks, Settle(p) PROVE EveryWeiAccounted'
  BY <1>3, ClearedAccounted, UnsoldAccounted DEF Settle
<1>4. ASSUME NEW a \in Accounts, WithdrawRefund(a) PROVE EveryWeiAccounted'
  BY <1>4, WithdrawAccounted
<1>5. CASE Tick
  <2>1. Leading' = Leading
    BY <1>5, TickStep
  <2>2. UNCHANGED <<pendingRefund, eth, wallet, received>>
    BY <1>5 DEF Tick, Elapse
  <2> QED BY <2>1, <2>2, AccountedBy
<1>6. CASE UNCHANGED vars
  <2>1. Leading' = Leading
    BY <1>6 DEF vars, Leading, StandingBid, Open
  <2>2. UNCHANGED <<pendingRefund, eth, wallet, received>>
    BY <1>6 DEF vars
  <2> QED BY <2>1, <2>2, AccountedBy
<1> QED BY <1>1, <1>2, <1>3, <1>4, <1>5, <1>6 DEF Next, Withdraw

\* At the start nothing is bid, queued or held.
LEMMA InitAccounted ==
    ASSUME Init
    PROVE  MoneyTypes /\ EveryWeiAccounted
<1>1. IInv /\ MoneyTypes
  BY IInvInit, AuctionAssumption DEF AuctionAssumption, Init, MoneyTypes
<1>2. Leading \in [Punks -> {0}] /\ pendingRefund \in [Accounts -> {0}]
      /\ received \in [Sinks -> {0}] /\ wallet = [a \in Accounts |-> Wallet] /\ eth = 0
  BY DEF Init, Leading, StandingBid, Open, EmptySlot
<1>3. /\ SumFunction(Leading) = 0 /\ SumFunction(pendingRefund) = 0
      /\ SumFunction(received) = 0
  BY <1>1, <1>2, SumZero, SumTypes, FiniteAssumption DEF FiniteAssumption
<1>4. SumFunction(wallet) = SumFunction([a \in Accounts |-> Wallet])
  BY <1>2
<1>5. SumFunction(wallet) \in Int
  BY <1>1, SumTypes
<1>6. eth = 0
  BY <1>2
<1> HIDE <1>2
<1> QED BY <1>1, <1>3, <1>4, <1>5, <1>6, AccountedBy

\* The contract holds exactly the standing bids and the queued refunds, and no
\* wei is created or lost, whatever the bids, the refused transfers, the
\* referrers and the number of auctions at once (ReturnAuctionModule.sol:405-717).
THEOREM AlwaysAccounted == Spec => []EveryWeiAccounted
<1>1. Init => MoneyTypes /\ EveryWeiAccounted
  BY InitAccounted
<1>2. IInv /\ MoneyTypes /\ EveryWeiAccounted /\ [Next]_vars
         => MoneyTypes' /\ EveryWeiAccounted'
  BY StepKeepsMoney, StepAccounted
<1> QED BY <1>1, <1>2, AlwaysIInv, PTL DEF Spec

-----------------------------------------------------------------------------
(***************************************************************************)
(* The refinement of AuctionHouse.  BidsBy has the standing bids of one     *)
(* account, so that its claim is a sum of three numbers.                    *)
(***************************************************************************)
BidsBy(a) == [p \in Punks |-> IF sales[p].bidder = a THEN StandingBid(p) ELSE 0]

\* The claims in terms of BidsBy, before and after a step.
LEMMA ClaimsBy ==
    /\ Claims = [a \in Accounts |-> wallet[a] + pendingRefund[a] + SumFunction(BidsBy(a))]
    /\ Claims' = [a \in Accounts |->
                    wallet'[a] + pendingRefund'[a] + SumFunction(BidsBy(a)')]
BY DEF Claims, Claim, HighBidsOf, BidsBy, StandingBid, Open

\* Claims are natural numbers, no less than what is in the wallet.
LEMMA ClaimTypes ==
    ASSUME IInv, MoneyTypes
    PROVE  /\ Claims \in [Accounts -> Nat]
           /\ \A a \in Accounts : /\ wallet[a] <= Claims[a]
                                  /\ BidsBy(a) \in [Punks -> Int]
                                  /\ SumFunction(BidsBy(a)) \in Nat
<1>1. ASSUME NEW a \in Accounts
      PROVE  BidsBy(a) \in [Punks -> Nat] /\ SumFunction(BidsBy(a)) \in Nat
  <2>1. BidsBy(a) \in [Punks -> Nat]
    BY DEF IInv, SlotTypes, Sale, BidsBy, StandingBid, Open
  <2> QED BY <2>1, SumNat, FiniteAssumption DEF FiniteAssumption
<1>2. \A a \in Accounts : wallet[a] \in Nat /\ pendingRefund[a] \in Nat
  BY DEF MoneyTypes
<1> QED BY <1>1, <1>2, ClaimsBy

\* When no standing bid changes hands, the claims change as wallets and queued
\* refunds do.
LEMMA SameBidsSameClaims ==
    ASSUME \A q \in Punks : /\ StandingBid(q)' = StandingBid(q)
                            /\ StandingBid(q) # 0 => sales'[q].bidder = sales[q].bidder,
           \A a \in Accounts : wallet'[a] + pendingRefund'[a] = wallet[a] + pendingRefund[a]
    PROVE  Claims' = Claims
<1>1. ASSUME NEW a \in Accounts PROVE BidsBy(a)' = BidsBy(a)
  <2> DEFINE b(q) == IF sales[q].bidder = a THEN StandingBid(q) ELSE 0
  <2>1. \A q \in Punks : b(q)' = b(q)
    OBVIOUS
  <2> QED BY <2>1 DEF BidsBy
<1> QED BY <1>1, ClaimsBy

\* What a step that sets one standing bid does to the sum of one account's bids.
LEMMA BidsByStep ==
    ASSUME IInv, MoneyTypes, NEW p \in Punks, NEW a \in Accounts,
           \A q \in Punks \ {p} : sales'[q] = sales[q],
           NEW v \in Nat, v = IF sales'[p].bidder = a THEN StandingBid(p)' ELSE 0
    PROVE  SumFunction(BidsBy(a)')
             = SumFunction(BidsBy(a))
                 - (IF sales[p].bidder = a THEN StandingBid(p) ELSE 0) + v
<1>1. BidsBy(a) \in [Punks -> Int]
  BY ClaimTypes
<1>2. SumFunction(Put(BidsBy(a), p, v)) = SumFunction(BidsBy(a)) - BidsBy(a)[p] + v
  BY <1>1, SumPut, FiniteAssumption DEF FiniteAssumption
<1>3. BidsBy(a)' = Put(BidsBy(a), p, v)
  <2>1. \A q \in Punks \ {p} : StandingBid(q)' = StandingBid(q)
    BY DEF StandingBid, Open
  <2> QED BY <2>1 DEF BidsBy, Put
<1>4. BidsBy(a)[p] = IF sales[p].bidder = a THEN StandingBid(p) ELSE 0
  BY DEF BidsBy
<1> QED BY <1>2, <1>3, <1>4

\* AuctionHouse sums as this module does.
LEMMA SameFold ==
    ASSUME NEW f
    PROVE  PunkHouse!SumFunction(f) = SumFunction(f)
BY DEF PunkHouse!SumFunction, PunkHouse!SumFunctionOnSet, PunkHouse!FoldFunctionOnSet,
       PunkHouse!MapThenFoldSet, MapThenFoldSet,
       SumFunction, SumFunctionOnSet, FoldFunctionOnSet

\* What the steps of one auction do to the lots and their leaders.
LEMMA LotsStep ==
    ASSUME IInv, NEW p \in Punks
    PROVE  /\ Acquire(p) => /\ p \notin OpenLots /\ OpenLots' = OpenLots \cup {p}
                            /\ Leaders' = Leaders
           /\ Bid(p) => /\ p \in OpenLots /\ OpenLots' = OpenLots
                        /\ Leaders' = [Leaders EXCEPT ![p] = sales'[p].bidder]
           /\ Settle(p) => /\ p \in OpenLots /\ OpenLots' = OpenLots \ {p}
                           /\ Leaders[p] = sales[p].bidder
                           /\ Leaders' = [Leaders EXCEPT ![p] = NoAccount]
<1> DEFINE lead(q) == IF Open(q) THEN sales[q].bidder ELSE NoAccount
<1>1. sales \in [Punks -> Sale]
  BY DEF IInv, SlotTypes
<1>2. /\ Acquire(p) => ~Open(p) /\ Open(p)' /\ sales'[p].bidder = NoAccount
      /\ Bid(p) => Open(p) /\ Open(p)'
      /\ Settle(p) => Open(p) /\ ~Open(p)'
  <2>1. Acquire(p) => ~Open(p) /\ Open(p)' /\ sales'[p].bidder = NoAccount
    BY <1>1 DEF Acquire, StartSale, Open
  <2>2. Bid(p) => Open(p) /\ Open(p)'
    BY <1>1 DEF Bid, PlaceBid, Live, Open, Sale
  <2>3. Settle(p) => Open(p) /\ ~Open(p)'
    BY <1>1 DEF Settle, SettleUnsold, SettleCleared, Settleable, Open, Sale
  <2> QED BY <2>1, <2>2, <2>3
<1>3. Acquire(p) \/ Bid(p) \/ Settle(p)
        => \A q \in Punks \ {p} : sales'[q] = sales[q]
  BY <1>1 DEF Acquire, StartSale, Bid, PlaceBid, Settle, SettleUnsold, SettleCleared
<1>4. Acquire(p) \/ Bid(p) \/ Settle(p)
        => \A q \in Punks \ {p} : Open(q)' = Open(q) /\ lead(q)' = lead(q)
  BY <1>3 DEF Open
<1>5. /\ Acquire(p) => lead(p) = NoAccount /\ lead(p)' = NoAccount
      /\ Bid(p) => lead(p)' = sales'[p].bidder
      /\ Settle(p) => lead(p) = sales[p].bidder /\ lead(p)' = NoAccount
  BY <1>2 DEF Open
<1>6. /\ Leaders = [q \in Punks |-> lead(q)]
      /\ Leaders' = [q \in Punks |-> lead(q)']
      /\ OpenLots' = {q \in Punks : Open(q)'}
  BY DEF Leaders, OpenLots, Open
<1>7. /\ Acquire(p) => p \notin OpenLots /\ OpenLots' = OpenLots \cup {p}
      /\ Bid(p) => p \in OpenLots /\ OpenLots' = OpenLots
      /\ Settle(p) => p \in OpenLots /\ OpenLots' = OpenLots \ {p}
  <2>1. OpenLots = {q \in Punks : Open(q)}
    BY DEF OpenLots, Open
  <2> QED BY <1>2, <1>4, <1>6, <2>1 DEF Open
<1> HIDE DEF lead
<1>8. /\ Acquire(p) => Leaders' = Leaders
      /\ Bid(p) => Leaders' = [Leaders EXCEPT ![p] = sales'[p].bidder]
      /\ Settle(p) => /\ Leaders[p] = sales[p].bidder
                      /\ Leaders' = [Leaders EXCEPT ![p] = NoAccount]
  BY <1>4, <1>5, <1>6
<1> QED BY <1>7, <1>8

\* Opening an auction is an Offer.
LEMMA AcquireOffers ==
    ASSUME IInv, MoneyTypes, NEW p \in Punks, Acquire(p)
    PROVE  PunkHouse!Offer(p)
<1>1. p \notin OpenLots /\ OpenLots' = OpenLots \cup {p} /\ Leaders' = Leaders
  BY LotsStep
<1>2. Leading' = Leading
  BY LeadingStep
<1>3. /\ punkOwner' = [punkOwner EXCEPT ![p] = Module] /\ punkOwner \in [Punks -> Accounts \cup {Module, Vault}]
      /\ UNCHANGED <<pendingRefund, wallet>>
  BY DEF Acquire, StartSale, IInv, OwnerTypes
<1>4. Claims' = Claims
  <2>1. \A q \in Punks \ {p} : sales'[q] = sales[q]
    BY DEF Acquire, StartSale, IInv, SlotTypes
  <2>2. \A q \in Punks : StandingBid(q)' = StandingBid(q)
    <3>1. \A q \in Punks : Leading[q] = StandingBid(q) /\ Leading'[q] = StandingBid(q)'
      BY DEF Leading, StandingBid, Open
    <3> QED BY <1>2, <3>1
  <2>3. StandingBid(p) = 0
    BY DEF Acquire, StartSale, StandingBid, Open
  <2> QED BY <1>3, <2>1, <2>2, <2>3, SameBidsSameClaims
<1>5. \A m \in Punks \ {p} : punkOwner'[m] = punkOwner[m]
  BY <1>3
<1> QED BY <1>1, <1>2, <1>4, <1>5 DEF PunkHouse!Offer

\* A bid is a Raise that its bidder can cover, and costs nobody anything: the
\* bidder before it has its own back, in its wallet or in the queue.
LEMMA BidRaises ==
    ASSUME IInv, MoneyTypes, NEW p \in Punks, Bid(p)
    PROVE  \E a \in Accounts : PunkHouse!Raise(p, a, Leading'[p])
<1>1. PICK a \in Accounts, value \in Bids, referrer \in Accounts \cup {NoAccount},
           pushed \in BOOLEAN : PlaceBid(p, a, value, referrer, pushed)
  BY DEF Bid
<1> DEFINE high == sales[p].high
           b == sales[p].bidder
<1>2. /\ sales[p] \in Sale /\ Open(p) /\ value \in Nat /\ value > high /\ high \in Nat
      /\ value <= wallet[a] /\ Paid(a, value) \in [Accounts -> Nat]
      /\ Refunded(p, a, value)
  BY <1>1, BidRefunds DEF Sale
<1>3. /\ sales'[p].high = value /\ sales'[p].bidder = a /\ sales'[p].phase = "open"
      /\ \A q \in Punks \ {p} : sales'[q] = sales[q]
      /\ UNCHANGED punkOwner
  BY <1>1, <1>2 DEF PlaceBid, IInv, SlotTypes, Sale, Open
<1>4. /\ StandingBid(p) = high /\ StandingBid(p)' = value
      /\ Leading[p] = high
  BY <1>2, <1>3 DEF StandingBid, Leading, Open
<1>5. /\ p \in OpenLots /\ OpenLots' = OpenLots
      /\ Leaders' = [Leaders EXCEPT ![p] = a]
      /\ Leading' = [Leading EXCEPT ![p] = value]
  BY <1>3, LotsStep, LeadingStep
<1>6. ASSUME NEW c \in Accounts
      PROVE  wallet'[c] + pendingRefund'[c] + SumFunction(BidsBy(c)')
               = wallet[c] + pendingRefund[c] + SumFunction(BidsBy(c))
  <2>1. SumFunction(BidsBy(c)')
          = SumFunction(BidsBy(c)) - (IF b = c THEN high ELSE 0) + (IF a = c THEN value ELSE 0)
    <3> DEFINE v == IF a = c THEN value ELSE 0
    <3>1. v \in Nat /\ v = IF sales'[p].bidder = c THEN StandingBid(p)' ELSE 0
      BY <1>2, <1>3, <1>4
    <3> HIDE DEF v
    <3>2. SumFunction(BidsBy(c)')
            = SumFunction(BidsBy(c)) - (IF sales[p].bidder = c THEN StandingBid(p) ELSE 0) + v
      BY <1>3, <3>1, BidsByStep
    <3> QED BY <1>4, <3>2 DEF v
  <2>2. /\ wallet \in [Accounts -> Nat] /\ pendingRefund \in [Accounts -> Nat]
        /\ SumFunction(BidsBy(c)) \in Nat
    BY ClaimTypes DEF MoneyTypes
  <2>3. wallet'[c] + pendingRefund'[c]
          = wallet[c] + pendingRefund[c] - (IF a = c THEN value ELSE 0)
              + (IF b = c THEN high ELSE 0)
    <3>1. Paid(a, value)[c] = wallet[c] - (IF a = c THEN value ELSE 0)
      BY <1>2, <2>2 DEF Paid
    <3>2. CASE b = NoAccount /\ high = 0 /\ wallet' = Paid(a, value) /\ UNCHANGED pendingRefund
      BY <1>2, <2>2, <3>1, <3>2
    <3>3. CASE /\ b \in Accounts
               /\ wallet' = [Paid(a, value) EXCEPT ![b] = Paid(a, value)[b] + high]
               /\ UNCHANGED pendingRefund
      BY <1>2, <2>2, <3>1, <3>3
    <3>4. CASE /\ b \in Accounts /\ wallet' = Paid(a, value)
               /\ pendingRefund' = [pendingRefund EXCEPT ![b] = pendingRefund[b] + high]
      BY <1>2, <2>2, <3>1, <3>4
    <3> QED BY <1>2, <3>2, <3>3, <3>4 DEF Refunded
  <2> HIDE DEF high, b
  <2>4. wallet'[c] + pendingRefund'[c] \in Int /\ wallet[c] \in Int /\ pendingRefund[c] \in Int
        /\ high \in Nat
    BY <1>2, <2>2, <2>3
  <2> QED BY <1>2, <2>1, <2>2, <2>3, <2>4
<1>7. Claims' = Claims
  BY <1>6, ClaimsBy
<1>8. value <= Claims[a]
  <2>1. wallet[a] <= Claims[a] /\ wallet[a] \in Nat /\ Claims[a] \in Nat
    BY ClaimTypes DEF MoneyTypes
  <2> QED BY <1>2, <2>1
<1>9. Leading'[p] = value
  BY <1>5, SumTypes
<1>10. value > Leading[p]
  BY <1>2, <1>4
<1>11. UNCHANGED punkOwner
  BY <1>3
<1>12. PunkHouse!Raise(p, a, value)
  BY <1>5, <1>7, <1>8, <1>10, <1>11 DEF PunkHouse!Raise
<1> QED BY <1>9, <1>12

\* A settlement without a bid is a PassIn.
LEMMA UnsoldPassesIn ==
    ASSUME IInv, MoneyTypes, NEW p \in Punks, SettleUnsold(p)
    PROVE  PunkHouse!PassIn(p)
<1>1. /\ sales[p].bidder = NoAccount /\ sales[p].phase = "open"
      /\ punkOwner' = [punkOwner EXCEPT ![p] = Vault]
      /\ UNCHANGED <<pendingRefund, wallet>>
  BY DEF SettleUnsold, Settleable, Open, TransferPunk
<1>2. StandingBid(p) = 0 /\ Leading[p] = 0
  <2>1. sales[p].high = 0
    BY <1>1, CoveredSlots DEF IInv, Covered
  <2> QED BY <2>1 DEF Leading, StandingBid, Open
<1>3. /\ p \in OpenLots /\ OpenLots' = OpenLots \ {p}
      /\ Leaders[p] = NoAccount /\ Leaders' = [Leaders EXCEPT ![p] = NoAccount]
      /\ Leading' = [Leading EXCEPT ![p] = 0]
  BY <1>1, LotsStep, LeadingStep DEF Settle
<1>4. Leaders' = Leaders /\ Leading' = Leading
  <2>1. Leading' = Leading
    BY <1>2, <1>3, SumTypes
  <2>2. Leaders = [q \in Punks |-> Leaders[q]]
    BY DEF Leaders, Open
  <2> QED BY <1>3, <2>1, <2>2
<1>5. Claims' = Claims
  <2>1. \A q \in Punks : StandingBid(q)' = StandingBid(q)
    <3>1. \A q \in Punks : Leading[q] = StandingBid(q) /\ Leading'[q] = StandingBid(q)'
      BY DEF Leading, StandingBid, Open
    <3> QED BY <1>4, <3>1
  <2>2. \A q \in Punks \ {p} : sales'[q] = sales[q]
    BY DEF SettleUnsold, IInv, SlotTypes
  <2> QED BY <1>1, <1>2, <2>1, <2>2, SameBidsSameClaims
<1>6. \A m \in Punks \ {p} : punkOwner'[m] = punkOwner[m]
  BY <1>1 DEF IInv, OwnerTypes
<1> QED BY <1>3, <1>4, <1>5, <1>6 DEF PunkHouse!PassIn

\* A settlement with a winner is a Sell: the winner pays its bid, and at most
\* that much comes back to an account, the referrer.
LEMMA ClearedSells ==
    ASSUME IInv, MoneyTypes, NEW p \in Punks, NEW accepted \in BOOLEAN,
           SettleCleared(p, accepted)
    PROVE  PunkHouse!Sell(p)
<1> DEFINE high == sales[p].high
           w == sales[p].bidder
           share == ReferrerShare(p, accepted)
           paid == Minus(Claims, w, high)
<1>1. /\ w \in Accounts /\ high \in Nat /\ Leading[p] = high /\ StandingBid(p) = high
      /\ share \in Nat /\ share <= high
      /\ \/ share = 0 /\ wallet' = wallet
         \/ \E r \in Accounts : wallet' = [wallet EXCEPT ![r] = wallet[r] + share]
  BY ClearedPays DEF StandingBid, Open
<1>2. /\ p \in OpenLots /\ OpenLots' = OpenLots \ {p}
      /\ Leaders[p] = w /\ Leaders' = [Leaders EXCEPT ![p] = NoAccount]
      /\ Leading' = [Leading EXCEPT ![p] = 0]
  BY LotsStep, LeadingStep DEF Settle
<1>3. /\ punkOwner' = [punkOwner EXCEPT ![p] = w] /\ UNCHANGED pendingRefund
      /\ sales'[p].phase = "settled"
      /\ \A q \in Punks \ {p} : sales'[q] = sales[q]
  BY DEF SettleCleared, TransferPunk, IInv, SlotTypes, Sale
<1>4. ASSUME NEW c \in Accounts
      PROVE  SumFunction(BidsBy(c)') = SumFunction(BidsBy(c)) - (IF w = c THEN high ELSE 0)
  <2>1. 0 \in Nat /\ 0 = IF sales'[p].bidder = c THEN StandingBid(p)' ELSE 0
    BY <1>3 DEF StandingBid, Open
  <2>2. SumFunction(BidsBy(c)')
          = SumFunction(BidsBy(c)) - (IF sales[p].bidder = c THEN StandingBid(p) ELSE 0) + 0
    BY <1>3, <2>1, BidsByStep
  <2>3. SumFunction(BidsBy(c)) \in Nat
    BY ClaimTypes
  <2> QED BY <1>1, <2>2, <2>3
<1>5. /\ wallet \in [Accounts -> Nat] /\ pendingRefund \in [Accounts -> Nat]
      /\ Claims \in [Accounts -> Nat]
      /\ \A c \in Accounts : SumFunction(BidsBy(c)) \in Nat
  BY ClaimTypes DEF MoneyTypes
<1>6. paid \in [Accounts -> Int]
      /\ \A c \in Accounts : paid[c] = Claims[c] - (IF c = w THEN high ELSE 0)
  BY <1>1, <1>5 DEF Minus
<1>7. SumFunction(paid) = SumFunction(Claims) - high /\ SumFunction(Claims) \in Int
  <2>1. Claims \in [Accounts -> Int] /\ high \in Int
    BY <1>1, <1>5
  <2> HIDE DEF w, high
  <2>2. w \in Accounts
    BY <1>1
  <2> QED BY <2>1, <2>2, SumMinus, SumType, FiniteAssumption DEF FiniteAssumption
<1> HIDE DEF high, w, share, paid
<1>8. ASSUME NEW c \in Accounts
      PROVE  Claims'[c] = paid[c] + (wallet'[c] - wallet[c])
  <2>1. Claims'[c] = wallet'[c] + pendingRefund'[c] + SumFunction(BidsBy(c)')
    BY ClaimsBy
  <2>2. Claims[c] = wallet[c] + pendingRefund[c] + SumFunction(BidsBy(c))
    BY ClaimsBy
  <2>3. SumFunction(BidsBy(c)') = SumFunction(BidsBy(c)) - (IF w = c THEN high ELSE 0)
    BY <1>4
  <2>4. wallet'[c] \in Int
    BY <1>1, <1>5
  <2>5. pendingRefund'[c] = pendingRefund[c] /\ pendingRefund[c] \in Int /\ wallet[c] \in Int
        /\ SumFunction(BidsBy(c)) \in Int /\ paid[c] = Claims[c] - (IF c = w THEN high ELSE 0)
    BY <1>3, <1>5, <1>6
  <2> HIDE <1>3, <1>4, <1>6
  <2> QED BY <1>1, <2>1, <2>2, <2>3, <2>4, <2>5
<1>9. DOMAIN Claims' = Accounts /\ Claims' = [c \in Accounts |-> Claims'[c]]
  BY ClaimsBy
<1>10. /\ \A c \in Accounts : Claims'[c] >= paid[c]
       /\ SumFunction(Claims') <= SumFunction(Claims)
  <2>1. CASE share = 0 /\ wallet' = wallet
    <3>1. \A c \in Accounts : Claims'[c] = paid[c]
      BY <1>5, <1>6, <1>8, <2>1
    <3>2. Claims' = paid
      BY <1>6, <1>9, <3>1
    <3>3. \A c \in Accounts : paid[c] \in Int
      BY <1>6
    <3> QED BY <1>1, <1>7, <3>1, <3>2, <3>3
  <2>2. ASSUME NEW r \in Accounts, wallet' = [wallet EXCEPT ![r] = wallet[r] + share]
        PROVE  /\ \A c \in Accounts : Claims'[c] >= paid[c]
               /\ SumFunction(Claims') <= SumFunction(Claims)
    <3>1. \A c \in Accounts : wallet'[c] - wallet[c] = IF c = r THEN share ELSE 0
      BY <1>1, <1>5, <2>2
    <3>2. \A c \in Accounts : Claims'[c] = paid[c] + (IF c = r THEN share ELSE 0)
      BY <1>8, <3>1
    <3>3. \A c \in Accounts : Claims'[c] >= paid[c]
      BY <1>1, <1>6, <3>2
    <3>4. Claims' = Plus(paid, r, share)
      BY <1>1, <1>6, <1>9, <3>2 DEF Plus
    <3>5. SumFunction(Plus(paid, r, share)) = SumFunction(paid) + share
      BY <1>1, <1>6, SumPlus, FiniteAssumption DEF FiniteAssumption
    <3> QED BY <1>1, <1>7, <3>3, <3>4, <3>5
  <2> QED BY <1>1, <2>1, <2>2
<1>11. \A c \in Accounts : Claims'[c] >= Claims[c] - (IF c = Leaders[p] THEN Leading[p] ELSE 0)
  BY <1>1, <1>2, <1>6, <1>10
<1>12. /\ Leaders[p] # NoAccount /\ punkOwner' = [punkOwner EXCEPT ![p] = Leaders[p]]
  BY <1>1, <1>2, <1>3, AddressAssumption DEF AddressAssumption
<1>13. /\ p \in OpenLots /\ OpenLots' = OpenLots \ {p}
       /\ Leaders' = [Leaders EXCEPT ![p] = NoAccount]
       /\ Leading' = [Leading EXCEPT ![p] = 0]
       /\ SumFunction(Claims') <= SumFunction(Claims)
  BY <1>2, <1>10
<1>14. PunkHouse!SumFunction(Claims') <= PunkHouse!SumFunction(Claims)
  BY <1>13, SameFold
<1> QED BY <1>11, <1>12, <1>13, <1>14 DEF PunkHouse!Sell

\* Withdrawals and the passing of time change nothing the bidders rely on.
LEMMA WithdrawStutters ==
    ASSUME IInv, MoneyTypes, NEW a \in Accounts, WithdrawRefund(a)
    PROVE  UNCHANGED <<OpenLots, Leaders, Leading, punkOwner, Claims>>
<1>1. UNCHANGED <<sales, punkOwner>>
  BY DEF WithdrawRefund
<1>2. UNCHANGED <<OpenLots, Leaders, Leading>>
  BY <1>1 DEF OpenLots, Leaders, Leading, StandingBid, Open
<1>3. \A c \in Accounts : wallet'[c] + pendingRefund'[c] = wallet[c] + pendingRefund[c]
  BY DEF WithdrawRefund, MoneyTypes
<1>4. \A q \in Punks : StandingBid(q)' = StandingBid(q) /\ sales'[q].bidder = sales[q].bidder
  BY <1>1 DEF StandingBid, Open
<1>5. Claims' = Claims
  BY <1>3, <1>4, SameBidsSameClaims
<1> QED BY <1>1, <1>2, <1>5

LEMMA TickStutters ==
    ASSUME IInv, MoneyTypes, Tick
    PROVE  UNCHANGED <<OpenLots, Leaders, Leading, punkOwner, Claims>>
<1>1. /\ Leading' = Leading
      /\ \A q \in Punks : /\ sales'[q].phase = sales[q].phase
                          /\ sales'[q].bidder = sales[q].bidder
                          /\ sales'[q].high = sales[q].high
  BY TickStep
<1>2. UNCHANGED <<punkOwner, wallet, pendingRefund>>
  BY DEF Tick, Elapse
<1>3. UNCHANGED <<OpenLots, Leaders>>
  BY <1>1 DEF OpenLots, Leaders, Open
<1>4. \A q \in Punks : StandingBid(q)' = StandingBid(q) /\ sales'[q].bidder = sales[q].bidder
  BY <1>1 DEF StandingBid, Open
<1>5. Claims' = Claims
  BY <1>2, <1>4, SameBidsSameClaims
<1> QED BY <1>1, <1>2, <1>3, <1>5

\* Every transaction is a step that AuctionHouse allows, or none.
LEMMA StepRefines ==
    ASSUME IInv, MoneyTypes, [Next]_vars
    PROVE  [PunkHouse!Next]_(PunkHouse!vars)
<1>1. ASSUME NEW p \in Punks, Acquire(p) PROVE PunkHouse!Next
  BY <1>1, AcquireOffers DEF PunkHouse!Next
<1>2. ASSUME NEW p \in Punks, Bid(p) PROVE PunkHouse!Next
  BY <1>2, BidRaises DEF PunkHouse!Next
<1>3. ASSUME NEW p \in Punks, Settle(p) PROVE PunkHouse!Next
  BY <1>3, UnsoldPassesIn, ClearedSells DEF Settle, PunkHouse!Next
<1>4. ASSUME NEW a \in Accounts, WithdrawRefund(a) PROVE UNCHANGED PunkHouse!vars
  BY <1>4, WithdrawStutters DEF PunkHouse!vars
<1>5. ASSUME Tick PROVE UNCHANGED PunkHouse!vars
  BY <1>5, TickStutters DEF PunkHouse!vars
<1>6. ASSUME UNCHANGED vars PROVE UNCHANGED PunkHouse!vars
  BY <1>6 DEF vars, PunkHouse!vars, OpenLots, Leaders, Leading, Claims, Claim, HighBidsOf,
              StandingBid, Open
<1> QED BY <1>1, <1>2, <1>3, <1>4, <1>5, <1>6 DEF Next, Withdraw

\* For any Punks, accounts, prices and clock, the return auctions keep what
\* AuctionHouse promises bidders: the Punk goes to the highest bidder at exactly
\* its bid, and being outbid, a refused refund, a withdrawal or another auction's
\* settlement costs nobody anything (ReturnAuctionModule.sol:344-717).
THEOREM Refinement == Spec => RefinesAuctionHouse
<1>1. Init => PunkHouse!Init
  BY DEF Init, PunkHouse!Init, OpenLots, Leaders, Leading, StandingBid, Open, EmptySlot
<1>2. IInv /\ MoneyTypes /\ [Next]_vars => [PunkHouse!Next]_(PunkHouse!vars)
  BY StepRefines
<1>3. Init => MoneyTypes
  BY InitAccounted
<1>4. IInv /\ MoneyTypes /\ [Next]_vars => MoneyTypes'
  BY StepKeepsMoney
<1> QED BY <1>1, <1>2, <1>3, <1>4, AlwaysIInv, PTL
        DEF Spec, RefinesAuctionHouse, PunkHouse!Spec

=============================================================================
