----------------------------- MODULE TitleProofs -----------------------------
(***************************************************************************)
(* The Title auction, for any finite set of accounts and any bids and       *)
(* clock: its types, its solvency and its refinement of AuctionHouse.       *)
(* They are inductive together with what relates the bidder, the bid and    *)
(* the holder of the Title (Consistent).                                    *)
(*                                                                          *)
(* Then the indexer, for any lag: handling what is in the queue turns the   *)
(* tables into tables that show the contract (Mirrored).                    *)
(***************************************************************************)
EXTENDS TitleIndexer, Lemmas

\* A bid has a bidder; there is none before the kickoff and one at the
\* settlement; and the Title is this contract's until it is awarded.
Consistent ==
    /\ highBidder = NoAccount <=> highBidWei = 0
    /\ highBidder # NoAccount => kickedOff
    /\ ~kickedOff => left = 0
    /\ settled => kickedOff /\ highBidder # NoAccount
    /\ ~settled => titleOwner \in {NoAccount, House}
    /\ kickedOff /\ ~settled => titleOwner = House
    /\ settled => titleOwner = highBidder

IInv == TypeOK /\ Consistent

\* Where the bid before goes: nowhere, back to its bidder, or into the queue.
Refunded(a, value) ==
    LET funds == Minus(wallet, a, value)
    IN  \/ /\ highBidder = NoAccount /\ highBidWei = 0
           /\ wallet' = funds /\ UNCHANGED pendingRefund /\ eth' = eth + value
        \/ /\ highBidder \in Accounts
           /\ wallet' = Plus(funds, highBidder, highBidWei)
           /\ UNCHANGED pendingRefund
           /\ eth' = eth + value - highBidWei
        \/ /\ highBidder \in Accounts
           /\ wallet' = funds /\ eth' = eth + value
           /\ pendingRefund' = Plus(pendingRefund, highBidder, highBidWei)

\* Every bid does one of these three things (PunkVaultTitleAuction.sol:198-262).
LEMMA BidRefunds ==
    ASSUME IInv, NEW a \in Accounts, NEW value \in Bids, NEW pushed \in BOOLEAN,
           Bid(a, value, pushed)
    PROVE  /\ value \in Nat /\ value > highBidWei /\ highBidWei \in Nat
           /\ value <= wallet[a] /\ Minus(wallet, a, value) \in [Accounts -> Nat]
           /\ Refunded(a, value)
<1>1. value \in Nat /\ value > highBidWei /\ value <= wallet[a]
  BY TitleAssumption DEF TitleAssumption, Bid, Outbids
<1>2. /\ highBidWei \in Nat /\ highBidder \in Accounts \cup {NoAccount}
      /\ highBidder = NoAccount <=> highBidWei = 0
      /\ wallet \in [Accounts -> Nat] /\ eth \in Nat
  BY DEF IInv, TypeOK, Consistent
<1>3. Minus(wallet, a, value) \in [Accounts -> Nat]
  BY <1>1, <1>2 DEF Minus
<1>4. Minus(wallet, a, value) = [wallet EXCEPT ![a] = @ - value]
  BY DEF Minus
<1>5. RefundPrevious(Minus(wallet, a, value), pushed)
  BY <1>4 DEF Bid
<1>6. eth' = eth + value - (IF pushed THEN highBidWei ELSE 0)
  BY DEF Bid
<1>7. Refunded(a, value)
  <2>1. CASE highBidder = NoAccount
    BY <1>1, <1>2, <1>5, <1>6, <2>1 DEF RefundPrevious, Refunded
  <2>2. CASE highBidder # NoAccount /\ pushed
    BY <1>1, <1>2, <1>5, <1>6, <2>2 DEF RefundPrevious, Refunded, Plus
  <2>3. CASE highBidder # NoAccount /\ ~pushed
    BY <1>1, <1>2, <1>5, <1>6, <2>3 DEF RefundPrevious, Refunded, Plus
  <2> QED BY <2>1, <2>2, <2>3
<1> QED BY <1>1, <1>2, <1>3, <1>7

\* A bid keeps the invariant.
LEMMA BidKeeps ==
    ASSUME IInv, NEW a \in Accounts, NEW value \in Bids, NEW pushed \in BOOLEAN,
           Bid(a, value, pushed)
    PROVE  IInv'
<1>1. /\ value \in Nat /\ value > highBidWei /\ highBidWei \in Nat
      /\ Minus(wallet, a, value) \in [Accounts -> Nat] /\ Refunded(a, value)
  BY BidRefunds
<1>2. /\ wallet' \in [Accounts -> Nat] /\ pendingRefund' \in [Accounts -> Nat]
      /\ eth' \in Nat
  BY <1>1 DEF Refunded, Plus, IInv, TypeOK
<1>3. left' \in 0 .. Duration
  BY TitleAssumption DEF TitleAssumption, Bid, LeftAfterBid, IInv, TypeOK
<1>4. /\ highBidWei' = value /\ highBidder' = a /\ kickedOff /\ ~settled
      /\ UNCHANGED <<collectedEnough, titleOwner, kickedOff, settled, pendingProceeds>>
  BY DEF Bid, Live
<1>5. TypeOK'
  BY <1>1, <1>2, <1>3, <1>4 DEF IInv, TypeOK
<1>6. Consistent'
  BY <1>1, <1>4, TitleAssumption DEF TitleAssumption, IInv, TypeOK, Consistent
<1> QED BY <1>5, <1>6 DEF IInv

\* Before the launch nothing is bid, owed or held.
LEMMA IInvInit == Init => IInv
<1> SUFFICES ASSUME Init PROVE IInv
  OBVIOUS
<1>1. pendingRefund \in [Accounts -> Nat] /\ pendingProceeds \in [Accounts -> Nat]
  BY DEF Init
<1>2. wallet \in [Accounts -> Nat]
  BY TitleAssumption DEF TitleAssumption, Init
<1>3. left \in 0 .. Duration
  BY TitleAssumption DEF TitleAssumption, Init
<1>4. TypeOK
  BY <1>1, <1>2, <1>3 DEF Init, TypeOK
<1>5. Consistent
  BY DEF Init, Consistent
<1> QED BY <1>4, <1>5 DEF IInv

\* So do all other transactions, and time.
LEMMA IInvNext == IInv /\ [Next]_vars => IInv'
<1> SUFFICES ASSUME IInv, [Next]_vars PROVE IInv'
  OBVIOUS
<1> USE DEF IInv, TypeOK, Consistent
<1>1. CASE CollectEnough
  BY <1>1 DEF CollectEnough, auctionVars, moneyVars
<1>2. CASE MintTitle
  BY <1>2, TitleAssumption DEF TitleAssumption, MintTitle, Minted, auctionVars, moneyVars
<1>3. CASE Kickoff
  BY <1>3, TitleAssumption DEF TitleAssumption, Kickoff, Minted, moneyVars
<1>4. CASE Restart
  BY <1>4, TitleAssumption DEF TitleAssumption, Restart, Over, moneyVars
<1>5. CASE Award
  BY <1>5, TitleAssumption DEF TitleAssumption, Award, Over
<1>6. ASSUME NEW a \in Accounts, WithdrawProceeds(a) PROVE IInv'
  BY <1>6 DEF WithdrawProceeds, auctionVars
<1>7. ASSUME NEW a \in Accounts, WithdrawRefund(a) PROVE IInv'
  BY <1>7 DEF WithdrawRefund, auctionVars
<1>8. CASE Tick
  BY <1>8, TitleAssumption DEF TitleAssumption, Tick, moneyVars
<1>9. CASE UNCHANGED vars
  BY <1>9 DEF vars, auctionVars, moneyVars
<1> QED
  BY <1>1, <1>2, <1>3, <1>4, <1>5, <1>6, <1>7, <1>8, <1>9, BidKeeps DEF Next, Settle

LEMMA AlwaysIInv == Spec => []IInv
BY IInvInit, IInvNext, PTL DEF Spec

\* Balances, bids and the clock keep their types: no refund and no withdrawal
\* takes more than the contract holds (PunkVaultTitleAuction.sol:198-362).
THEOREM TypeCorrect == Spec => []TypeOK
<1>1. IInv => TypeOK
  BY DEF IInv
<1> QED BY <1>1, AlwaysIInv, PTL

-----------------------------------------------------------------------------
\* The sums of the ledgers are integers.
LEMMA SumTypes ==
    ASSUME IInv
    PROVE  /\ IsFiniteSet(Accounts) /\ highBidWei \in Int /\ eth \in Int
           /\ pendingRefund \in [Accounts -> Int] /\ SumFunction(pendingRefund) \in Int
           /\ pendingProceeds \in [Accounts -> Int] /\ SumFunction(pendingProceeds) \in Int
           /\ wallet \in [Accounts -> Int] /\ SumFunction(wallet) \in Int
<1>1. /\ highBidWei \in Int /\ eth \in Int /\ wallet \in [Accounts -> Int]
      /\ pendingRefund \in [Accounts -> Int] /\ pendingProceeds \in [Accounts -> Int]
  BY DEF IInv, TypeOK
<1> QED BY <1>1, SumType, TitleAssumption DEF TitleAssumption

\* A bid brings in as much as it adds to what is owed.
LEMMA BidSolvent ==
    ASSUME IInv, Solvent, NEW a \in Accounts, NEW value \in Bids, NEW pushed \in BOOLEAN,
           Bid(a, value, pushed)
    PROVE  Solvent'
<1> DEFINE funds == Minus(wallet, a, value)
<1>1. /\ value \in Nat /\ value > highBidWei /\ highBidWei \in Nat
      /\ funds \in [Accounts -> Nat] /\ Refunded(a, value)
  BY BidRefunds
<1>2. SumFunction(funds) = SumFunction(wallet) - value
  <2>1. value \in Int
    BY <1>1
  <2> QED BY <2>1, SumMinus, SumTypes
<1> HIDE DEF funds
<1>3. ASSUME highBidder \in Accounts
      PROVE  /\ SumFunction(Plus(funds, highBidder, highBidWei)) = SumFunction(funds) + highBidWei
             /\ SumFunction(Plus(pendingRefund, highBidder, highBidWei))
                  = SumFunction(pendingRefund) + highBidWei
  <2>1. funds \in [Accounts -> Int]
    BY <1>1
  <2> QED BY <1>3, <2>1, SumPlus, SumTypes
<1>4. /\ Standing = highBidWei /\ Standing' = value
      /\ UNCHANGED <<kickedOff, settled, titleOwner>>
  BY DEF Bid, Live, Standing
<1>5. SumFunction(pendingProceeds') = SumFunction(pendingProceeds)
  BY DEF Bid
<1>6. \/ highBidWei = 0 /\ wallet' = funds /\ UNCHANGED pendingRefund /\ eth' = eth + value
      \/ /\ highBidder \in Accounts
         /\ wallet' = Plus(funds, highBidder, highBidWei)
         /\ UNCHANGED pendingRefund
         /\ eth' = eth + value - highBidWei
      \/ /\ highBidder \in Accounts
         /\ wallet' = funds /\ eth' = eth + value
         /\ pendingRefund' = Plus(pendingRefund, highBidder, highBidWei)
  BY <1>1 DEF Refunded, funds
<1>7. /\ eth = highBidWei + SumFunction(pendingRefund) + SumFunction(pendingProceeds)
      /\ SumFunction(wallet) + eth = SumFunction([b \in Accounts |-> Wallet])
  BY <1>4 DEF Solvent
<1>8. /\ eth' = value + SumFunction(pendingRefund') + SumFunction(pendingProceeds')
      /\ SumFunction(wallet') + eth' = SumFunction(wallet) + eth
  BY <1>1, <1>2, <1>3, <1>5, <1>6, <1>7, SumTypes
<1> QED BY <1>4, <1>7, <1>8 DEF Solvent

\* A withdrawal moves what is queued to its owner.
LEMMA WithdrawSolvent ==
    ASSUME IInv, Solvent, NEW a \in Accounts, WithdrawProceeds(a) \/ WithdrawRefund(a)
    PROVE  Solvent'
<1>1. UNCHANGED <<kickedOff, settled, titleOwner>> /\ Standing' = Standing
  BY DEF WithdrawProceeds, WithdrawRefund, auctionVars, Standing
<1>2. ASSUME NEW q \in [Accounts -> Int]
      PROVE  /\ SumFunction(Put(q, a, 0)) = SumFunction(q) - q[a] + 0
             /\ SumFunction(Plus(wallet, a, q[a])) = SumFunction(wallet) + q[a]
             /\ q[a] \in Int /\ SumFunction(q) \in Int
  <2>1. q[a] \in Int
    OBVIOUS
  <2>2. SumFunction(Put(q, a, 0)) = SumFunction(q) - q[a] + 0
    BY SumPut, SumTypes
  <2>3. SumFunction(Plus(wallet, a, q[a])) = SumFunction(wallet) + q[a]
    BY <2>1, SumPlus, SumTypes
  <2>4. SumFunction(q) \in Int
    BY SumType, SumTypes
  <2> QED BY <2>1, <2>2, <2>3, <2>4
<1>3. CASE WithdrawProceeds(a)
  <2>1. /\ pendingProceeds' = Put(pendingProceeds, a, 0)
        /\ wallet' = Plus(wallet, a, pendingProceeds[a])
        /\ eth' = eth - pendingProceeds[a]
        /\ UNCHANGED pendingRefund
    BY <1>3 DEF WithdrawProceeds, Put, Plus
  <2>2. /\ SumFunction(pendingProceeds') = SumFunction(pendingProceeds) - pendingProceeds[a] + 0
        /\ SumFunction(wallet') = SumFunction(wallet) + pendingProceeds[a]
        /\ SumFunction(pendingRefund') = SumFunction(pendingRefund)
        /\ pendingProceeds[a] \in Int
    BY <1>2, <2>1, SumTypes
  <2>3. eth' = eth - pendingProceeds[a]
    BY <2>1
  <2>4. Standing \in Int
    BY SumTypes DEF Standing
  <2> HIDE <2>1
  <2> QED BY <1>1, <2>2, <2>3, <2>4, SumTypes DEF Solvent
<1>4. CASE WithdrawRefund(a)
  <2>1. /\ pendingRefund' = Put(pendingRefund, a, 0)
        /\ wallet' = Plus(wallet, a, pendingRefund[a])
        /\ eth' = eth - pendingRefund[a]
        /\ UNCHANGED pendingProceeds
    BY <1>4 DEF WithdrawRefund, Put, Plus
  <2>2. /\ SumFunction(pendingRefund') = SumFunction(pendingRefund) - pendingRefund[a] + 0
        /\ SumFunction(wallet') = SumFunction(wallet) + pendingRefund[a]
        /\ SumFunction(pendingProceeds') = SumFunction(pendingProceeds)
        /\ pendingRefund[a] \in Int
    BY <1>2, <2>1, SumTypes
  <2>3. eth' = eth - pendingRefund[a]
    BY <2>1
  <2>4. Standing \in Int
    BY SumTypes DEF Standing
  <2> HIDE <2>1
  <2> QED BY <1>1, <2>2, <2>3, <2>4, SumTypes DEF Solvent
<1> QED BY <1>3, <1>4

\* The award turns the standing bid into proceeds.
LEMMA AwardSolvent ==
    ASSUME IInv, Solvent, Award
    PROVE  Solvent'
<1>1. /\ pendingProceeds' = Plus(pendingProceeds, PayoutRecipient, highBidWei)
      /\ UNCHANGED <<pendingRefund, eth, wallet>> /\ settled'
      /\ Standing = highBidWei /\ Standing' = 0
  BY DEF Award, Over, Standing, Plus
<1>2. SumFunction(Plus(pendingProceeds, PayoutRecipient, highBidWei))
        = SumFunction(pendingProceeds) + highBidWei
  <2>1. PayoutRecipient \in Accounts
    BY TitleAssumption DEF TitleAssumption
  <2> QED BY <2>1, SumPlus, SumTypes
<1> QED BY <1>1, <1>2, SumTypes DEF Solvent

\* Every transaction keeps the contract solvent.
LEMMA SolventNext ==
    ASSUME IInv, Solvent, [Next]_vars
    PROVE  Solvent'
<1>1. IInv'
  BY IInvNext
<1>2. ASSUME UNCHANGED moneyVars, Standing' = Standing PROVE Solvent'
  BY <1>1, <1>2 DEF Solvent, moneyVars, IInv, Consistent
<1>3. CollectEnough \/ MintTitle \/ Kickoff \/ Restart \/ Tick \/ UNCHANGED vars
        => UNCHANGED moneyVars /\ Standing' = Standing
  BY DEF CollectEnough, MintTitle, Kickoff, Restart, Tick, vars, auctionVars, Standing
<1> QED BY <1>2, <1>3, BidSolvent, WithdrawSolvent, AwardSolvent DEF Next, Settle

\* The contract can pay, to the wei, all it owes to everyone at once, whatever
\* the bids, the refused refunds and the order of withdrawals, and holds the
\* Title while a bid may win it (PunkVaultTitleAuction.sol:160-362).
THEOREM AlwaysSolvent == Spec => []Solvent
<1>1. Init => Solvent
  <2> SUFFICES ASSUME Init PROVE Solvent
    OBVIOUS
  <2>1. /\ pendingRefund \in [Accounts -> {0}] /\ pendingProceeds \in [Accounts -> {0}]
        /\ wallet = [a \in Accounts |-> Wallet] /\ eth = 0 /\ Standing = 0 /\ ~kickedOff
    BY DEF Init, Standing
  <2>2. SumFunction(pendingRefund) = 0 /\ SumFunction(pendingProceeds) = 0
    BY <2>1, SumZero, TitleAssumption DEF TitleAssumption
  <2>3. SumFunction(wallet) = SumFunction([a \in Accounts |-> Wallet])
    BY <2>1
  <2>4. SumFunction(wallet) \in Int
    BY IInvInit, SumTypes
  <2>5. eth = 0 /\ Standing = 0 /\ ~kickedOff
    BY <2>1
  <2> HIDE <2>1
  <2> QED BY <2>2, <2>3, <2>4, <2>5 DEF Solvent
<1>2. IInv /\ Solvent /\ [Next]_vars => Solvent'
  BY SolventNext
<1> QED BY <1>1, <1>2, AlwaysIInv, PTL DEF Spec
-----------------------------------------------------------------------------
(***************************************************************************)
(* The refinement of AuctionHouse.                                          *)
(***************************************************************************)
\* AuctionHouse sums as this module does.
LEMMA SameFold ==
    ASSUME NEW f
    PROVE  TitleHouse!SumFunction(f) = SumFunction(f)
BY DEF TitleHouse!SumFunction, TitleHouse!SumFunctionOnSet, TitleHouse!FoldFunctionOnSet,
       TitleHouse!MapThenFoldSet, MapThenFoldSet,
       SumFunction, SumFunctionOnSet, FoldFunctionOnSet

\* The claims of the bidders, before and after a step.
LEMMA ClaimsBy ==
    /\ Claims = [a \in Accounts |->
                    wallet[a] + pendingRefund[a] + pendingProceeds[a]
                        + (IF highBidder = a THEN Standing ELSE 0)]
    /\ Claims' = [a \in Accounts |->
                    wallet'[a] + pendingRefund'[a] + pendingProceeds'[a]
                        + (IF highBidder' = a THEN Standing' ELSE 0)]
BY DEF Claims, ClaimOf, Standing

\* Claims are natural numbers, no less than what is in the wallet.
LEMMA ClaimTypes ==
    ASSUME IInv
    PROVE  /\ Claims \in [Accounts -> Nat] /\ Standing \in Nat
           /\ \A a \in Accounts : wallet[a] <= Claims[a]
<1>1. Standing \in Nat
  BY DEF IInv, TypeOK, Standing
<1>2. \A a \in Accounts : /\ wallet[a] \in Nat /\ pendingRefund[a] \in Nat
                          /\ pendingProceeds[a] \in Nat
  BY DEF IInv, TypeOK
<1> QED BY <1>1, <1>2, ClaimsBy

\* The kickoff is an Offer.
LEMMA KickoffOffers ==
    ASSUME IInv, Kickoff
    PROVE  TitleHouse!Offer(House)
<1>1. ~kickedOff /\ ~settled /\ kickedOff' /\ ~settled'
  BY DEF Kickoff, IInv, Consistent
<1>2. /\ House \notin OpenLots /\ OpenLots' = OpenLots \cup {House}
      /\ UNCHANGED <<Leaders, Leading>>
  BY <1>1 DEF Kickoff, OpenLots, Leaders, Leading, Standing, Lot
<1>3. Claims' = Claims
  BY DEF Kickoff, moneyVars, Claims, ClaimOf, Standing
<1>4. \A m \in Lot \ {House} : Holders'[m] = Holders[m]
  BY DEF Lot
<1> QED BY <1>2, <1>3, <1>4 DEF TitleHouse!Offer

\* A bid is a Raise that its bidder can cover.
LEMMA BidRaises ==
    ASSUME IInv, NEW a \in Accounts, NEW value \in Bids, NEW pushed \in BOOLEAN,
           Bid(a, value, pushed)
    PROVE  TitleHouse!Raise(House, a, Leading'[House])
<1>1. /\ value \in Nat /\ value > highBidWei /\ highBidWei \in Nat /\ value <= wallet[a]
      /\ Minus(wallet, a, value) \in [Accounts -> Nat] /\ Refunded(a, value)
  BY BidRefunds
<1>2. /\ kickedOff /\ ~settled /\ highBidWei' = value /\ highBidder' = a
      /\ UNCHANGED <<kickedOff, settled, titleOwner, pendingProceeds>>
  BY DEF Bid, Live
<1>3. Standing = highBidWei /\ Standing' = value
  BY <1>2 DEF Standing
<1>4. /\ OpenLots = Lot /\ House \in OpenLots /\ UNCHANGED <<OpenLots, Holders>>
      /\ Leading'[House] = value /\ Leading[House] = highBidWei
      /\ Leaders' = [Leaders EXCEPT ![House] = a]
      /\ Leading' = [Leading EXCEPT ![House] = value]
  BY <1>2 DEF OpenLots, Holders, Minted, Leading, Leaders, Standing, Lot
<1>5. ASSUME NEW c \in Accounts
      PROVE  wallet'[c] + pendingRefund'[c] + pendingProceeds'[c]
                 + (IF highBidder' = c THEN Standing' ELSE 0)
               = wallet[c] + pendingRefund[c] + pendingProceeds[c]
                 + (IF highBidder = c THEN Standing ELSE 0)
  <2>1. /\ wallet \in [Accounts -> Nat] /\ pendingRefund \in [Accounts -> Nat]
        /\ pendingProceeds[c] \in Nat
    BY DEF IInv, TypeOK
  <2>2. Minus(wallet, a, value)[c] = wallet[c] - (IF c = a THEN value ELSE 0)
    BY <1>1, <2>1 DEF Minus
  <2>3. wallet'[c] + pendingRefund'[c]
          = wallet[c] + pendingRefund[c] - (IF c = a THEN value ELSE 0)
              + (IF c = highBidder THEN highBidWei ELSE 0)
    <3>1. CASE /\ highBidder = NoAccount /\ highBidWei = 0
               /\ wallet' = Minus(wallet, a, value) /\ UNCHANGED pendingRefund
      BY <1>1, <2>1, <2>2, <3>1
    <3>2. CASE /\ highBidder \in Accounts
               /\ wallet' = Plus(Minus(wallet, a, value), highBidder, highBidWei)
               /\ UNCHANGED pendingRefund
      <4> DEFINE funds == Minus(wallet, a, value)
      <4>1. funds \in [Accounts -> Nat] /\ funds[c] = wallet[c] - (IF c = a THEN value ELSE 0)
        BY <1>1, <2>2
      <4>2. wallet' = Plus(funds, highBidder, highBidWei)
        BY <3>2
      <4> HIDE DEF funds
      <4>3. wallet'[c] = funds[c] + (IF c = highBidder THEN highBidWei ELSE 0)
        BY <1>1, <3>2, <4>1, <4>2 DEF Plus
      <4> QED BY <1>1, <2>1, <3>2, <4>1, <4>3
    <3>3. CASE /\ highBidder \in Accounts /\ wallet' = Minus(wallet, a, value)
               /\ pendingRefund' = Plus(pendingRefund, highBidder, highBidWei)
      <4>1. pendingRefund'[c] = pendingRefund[c] + (IF c = highBidder THEN highBidWei ELSE 0)
        BY <1>1, <2>1, <3>3 DEF Plus
      <4>2. wallet'[c] = wallet[c] - (IF c = a THEN value ELSE 0)
        BY <2>2, <3>3
      <4>3. wallet[c] \in Nat /\ pendingRefund[c] \in Nat
        BY <2>1
      <4> HIDE <3>3
      <4> QED BY <1>1, <4>1, <4>2, <4>3
    <3> QED BY <1>1, <3>1, <3>2, <3>3 DEF Refunded
  <2>4. wallet[c] \in Nat /\ pendingRefund[c] \in Nat
    BY <2>1
  <2>5. pendingProceeds'[c] = pendingProceeds[c]
    BY <1>2
  <2>6. wallet'[c] + pendingRefund'[c] \in Int
    BY <1>1, <2>3, <2>4
  <2>7. wallet'[c] + pendingRefund'[c] + pendingProceeds'[c]
                 + (IF highBidder' = c THEN Standing' ELSE 0)
          = (wallet[c] + pendingRefund[c] - (IF c = a THEN value ELSE 0)
              + (IF c = highBidder THEN highBidWei ELSE 0)) + pendingProceeds[c]
                 + (IF c = a THEN value ELSE 0)
    BY <1>2, <1>3, <2>3, <2>5
  <2> QED BY <1>1, <1>3, <2>1, <2>4, <2>7
<1>6. Claims' = Claims
  BY <1>5, ClaimsBy
<1>7. value <= Claims[a]
  <2>1. wallet[a] <= Claims[a] /\ wallet[a] \in Nat /\ Claims[a] \in Nat
    BY ClaimTypes DEF IInv, TypeOK
  <2> QED BY <1>1, <2>1
<1>8. TitleHouse!Raise(House, a, value)
  BY <1>1, <1>4, <1>6, <1>7 DEF TitleHouse!Raise
<1> QED BY <1>4, <1>8

\* The award is a Sell: what the winner pays is what the payee is credited.
LEMMA AwardSells ==
    ASSUME IInv, Award
    PROVE  TitleHouse!Sell(House)
<1> DEFINE paid == Minus(Claims, highBidder, highBidWei)
<1>1. /\ kickedOff /\ ~settled /\ settled' /\ highBidder \in Accounts /\ titleOwner = House
      /\ titleOwner' = highBidder /\ highBidWei \in Nat
      /\ pendingProceeds' = [pendingProceeds EXCEPT ![PayoutRecipient] = @ + highBidWei]
      /\ UNCHANGED <<kickedOff, highBidWei, highBidder, pendingRefund, wallet>>
  BY DEF Award, Over, IInv, TypeOK
<1>2. Standing = highBidWei /\ Standing' = 0
  BY <1>1 DEF Standing
<1>3. /\ House \in OpenLots /\ OpenLots' = OpenLots \ {House}
      /\ Leaders[House] = highBidder /\ Leading[House] = highBidWei
      /\ Leaders' = [Leaders EXCEPT ![House] = NoAccount]
      /\ Leading' = [Leading EXCEPT ![House] = 0]
      /\ Holders' = [Holders EXCEPT ![House] = highBidder]
  BY <1>1, TitleAssumption
     DEF TitleAssumption, OpenLots, Leaders, Leading, Holders, Minted, Standing, Lot
<1>4. Claims \in [Accounts -> Nat]
  BY ClaimTypes
<1>5. /\ paid \in [Accounts -> Int]
      /\ \A c \in Accounts : paid[c] = Claims[c] - (IF c = highBidder THEN highBidWei ELSE 0)
  BY <1>1, <1>4 DEF Minus
<1>6. SumFunction(paid) = SumFunction(Claims) - highBidWei /\ SumFunction(Claims) \in Int
  <2>1. Claims \in [Accounts -> Int] /\ highBidWei \in Int /\ highBidder \in Accounts
    BY <1>1, <1>4
  <2> QED BY <2>1, SumMinus, SumType, TitleAssumption DEF TitleAssumption
<1> HIDE DEF paid
<1>7. ASSUME NEW c \in Accounts
      PROVE  Claims'[c] = paid[c] + (IF c = PayoutRecipient THEN highBidWei ELSE 0)
  <2>1. /\ Claims[c] = wallet[c] + pendingRefund[c] + pendingProceeds[c]
                        + (IF highBidder = c THEN highBidWei ELSE 0)
        /\ Claims'[c] = wallet'[c] + pendingRefund'[c] + pendingProceeds'[c]
                        + (IF highBidder' = c THEN 0 ELSE 0)
    BY <1>2, ClaimsBy
  <2>2. /\ wallet[c] \in Nat /\ pendingRefund[c] \in Nat /\ pendingProceeds[c] \in Nat
        /\ pendingProceeds'[c]
             = pendingProceeds[c] + (IF c = PayoutRecipient THEN highBidWei ELSE 0)
    BY <1>1 DEF IInv, TypeOK
  <2>3. wallet'[c] = wallet[c] /\ pendingRefund'[c] = pendingRefund[c]
    BY <1>1
  <2>4. paid[c] = Claims[c] - (IF c = highBidder THEN highBidWei ELSE 0)
    BY <1>5
  <2> HIDE <1>5
  <2> QED BY <1>1, <2>1, <2>2, <2>3, <2>4
<1>8. Claims' = Plus(paid, PayoutRecipient, highBidWei)
  <2>1. Claims' = [c \in Accounts |-> Claims'[c]]
    BY ClaimsBy
  <2>2. Plus(paid, PayoutRecipient, highBidWei)
          = [c \in Accounts |-> Plus(paid, PayoutRecipient, highBidWei)[c]]
    BY <1>5 DEF Plus
  <2>3. ASSUME NEW c \in Accounts
        PROVE  Claims'[c] = Plus(paid, PayoutRecipient, highBidWei)[c]
    <3>1. paid[c] \in Int /\ highBidWei \in Int /\ DOMAIN paid = Accounts
      BY <1>1, <1>5
    <3>2. Plus(paid, PayoutRecipient, highBidWei)[c]
            = paid[c] + (IF c = PayoutRecipient THEN highBidWei ELSE 0)
      BY <3>1 DEF Plus
    <3> QED BY <1>7, <3>2
  <2> QED BY <2>1, <2>2, <2>3
<1>9. SumFunction(Claims') = SumFunction(Claims)
  <2>1. PayoutRecipient \in Accounts /\ highBidWei \in Int
    BY <1>1, TitleAssumption DEF TitleAssumption
  <2>2. SumFunction(Plus(paid, PayoutRecipient, highBidWei)) = SumFunction(paid) + highBidWei
    BY <1>5, <2>1, SumPlus, TitleAssumption DEF TitleAssumption
  <2> QED BY <1>1, <1>6, <1>8, <2>2
<1>10. TitleHouse!SumFunction(Claims') <= TitleHouse!SumFunction(Claims)
  BY <1>6, <1>9, SameFold
<1>11. \A c \in Accounts :
          Claims'[c] >= Claims[c] - (IF c = Leaders[House] THEN Leading[House] ELSE 0)
  BY <1>1, <1>3, <1>4, <1>5, <1>7
<1>12. Leaders[House] # NoAccount /\ Holders' = [Holders EXCEPT ![House] = Leaders[House]]
  BY <1>1, <1>3, TitleAssumption DEF TitleAssumption
<1> QED BY <1>3, <1>10, <1>11, <1>12 DEF TitleHouse!Sell

\* Withdrawals move what an account has from one of its three places to another.
LEMMA WithdrawKeepsClaims ==
    ASSUME IInv, NEW a \in Accounts, WithdrawProceeds(a) \/ WithdrawRefund(a)
    PROVE  Claims' = Claims
<1>1. \A c \in Accounts :
          wallet'[c] + pendingRefund'[c] + pendingProceeds'[c]
            = wallet[c] + pendingRefund[c] + pendingProceeds[c]
  BY DEF WithdrawProceeds, WithdrawRefund, IInv, TypeOK
<1>2. Standing' = Standing /\ UNCHANGED highBidder
  BY DEF WithdrawProceeds, WithdrawRefund, auctionVars, Standing
<1> QED BY <1>1, <1>2, ClaimsBy

\* Every transaction is a step that AuctionHouse allows, or none; a restart is
\* none.
LEMMA StepRefines ==
    ASSUME IInv, [Next]_vars
    PROVE  [TitleHouse!Next]_(TitleHouse!vars)
<1>1. House \in Lot
  BY DEF Lot
<1>2. Kickoff => TitleHouse!Next
  BY <1>1, KickoffOffers DEF TitleHouse!Next
<1>3. ASSUME NEW a \in Accounts, NEW value \in Bids, NEW pushed \in BOOLEAN,
             Bid(a, value, pushed)
      PROVE  TitleHouse!Next
  BY <1>1, <1>3, BidRaises DEF TitleHouse!Next
<1>4. Award => TitleHouse!Next
  BY <1>1, AwardSells DEF TitleHouse!Next
<1>5. ASSUME NEW a \in Accounts, WithdrawProceeds(a) \/ WithdrawRefund(a)
      PROVE  UNCHANGED TitleHouse!vars
  <2>1. Claims' = Claims
    BY <1>5, WithdrawKeepsClaims
  <2>2. UNCHANGED <<OpenLots, Leaders, Leading, Holders>>
    BY <1>5 DEF WithdrawProceeds, WithdrawRefund, auctionVars, OpenLots, Leaders, Leading,
                Holders, Minted, Standing
  <2> QED BY <2>1, <2>2 DEF TitleHouse!vars
<1>6. ASSUME CollectEnough \/ MintTitle \/ Restart \/ Tick \/ UNCHANGED vars
      PROVE  UNCHANGED TitleHouse!vars
  <2>1. UNCHANGED <<moneyVars, kickedOff, settled, highBidWei, highBidder>> /\ Minted' = Minted
    BY <1>6, TitleAssumption DEF TitleAssumption, CollectEnough, MintTitle, Restart, Tick, vars,
                                 auctionVars, Minted
  <2>2. UNCHANGED <<OpenLots, Leaders, Leading, Claims>>
    BY <2>1 DEF moneyVars, OpenLots, Leaders, Leading, Claims, ClaimOf, Standing
  <2>3. UNCHANGED Holders
    BY <2>1 DEF Holders, Minted
  <2> QED BY <2>2, <2>3 DEF TitleHouse!vars
<1> QED BY <1>2, <1>3, <1>4, <1>5, <1>6 DEF Next, Settle

\* The Title auction keeps what AuctionHouse promises bidders, for any accounts,
\* bids and clock (PunkVaultTitleAuction.sol:160-362).
THEOREM Refinement == Spec => RefinesAuctionHouse
<1>1. Init => TitleHouse!Init
  BY DEF Init, TitleHouse!Init, OpenLots, Leaders, Leading, Standing
<1>2. IInv /\ [Next]_vars => [TitleHouse!Next]_(TitleHouse!vars)
  BY StepRefines
<1> QED BY <1>1, <1>2, AlwaysIInv, PTL DEF Spec, RefinesAuctionHouse, TitleHouse!Spec

-----------------------------------------------------------------------------
(***************************************************************************)
(* The indexer.  What holds whenever the queue is empty follows from what   *)
(* holds always: the entries still in the queue lead from the tables as     *)
(* they are to tables that show the auction as it is (Mirrored).            *)
(***************************************************************************)
\* What a transaction of the indexed system does to the contract is what a
\* transaction of the contract does.
THEOREM IndexedImplements == IndexedSpec => Spec
<1>1. IndexedInit => Init
  BY DEF IndexedInit
<1>2. [IndexedNext]_indexedVars => [Next]_vars
  BY DEF IndexedNext, indexedVars, Quiet, EmitKickoff, EmitBid, EmitSettle, EmitWithdrawal,
         Elapse, Handle, Next, Settle
<1> QED BY <1>1, <1>2, PTL DEF IndexedSpec, Spec

Kinds == {"Kickoff", "Bid", "Extended", "Settled", "SettledNoBidder", "RefundQueued",
          "RefundWithdrawn", "ProceedsQueued", "ProceedsWithdrawn"}
Events == [kind : Kinds, who : Accounts \cup {NoAccount}, value : Nat, left : Nat]
Rows == [kickedOff : BOOLEAN, settled : BOOLEAN, left : Nat, high : Nat,
         bidder : Accounts \cup {NoAccount}, winner : Accounts \cup {NoAccount},
         restartCount : Nat, extensions : Nat]
Snapshots == [row : Rows, refunds : [Accounts -> Int], proceeds : [Accounts -> Int]]

Tables == [row |-> titleState, refunds |-> refundTable, proceeds |-> proceedsTable]

\* What the handlers make of a row, of the outstanding amounts, of the tables.
RowAfter(row, e) ==
    IF e.kind = "Kickoff"
    THEN [row EXCEPT !.kickedOff = TRUE, !.settled = FALSE, !.left = e.left, !.high = 0,
                     !.bidder = NoAccount, !.extensions = 0,
                     !.restartCount = IF row = NoRow THEN 0 ELSE OneMore(@)]
    ELSE IF e.kind = "Bid"
    THEN [row EXCEPT !.high = e.value, !.bidder = e.who, !.left = e.left,
                     !.extensions = IF e.left > row.left THEN @ + 1 ELSE @]
    ELSE IF e.kind = "Extended" THEN [row EXCEPT !.left = e.left]
    ELSE IF e.kind = "Settled" THEN [row EXCEPT !.settled = TRUE, !.winner = e.who]
    ELSE IF e.kind = "SettledNoBidder" THEN [row EXCEPT !.high = 0, !.bidder = NoAccount]
    ELSE row

OwedAfter(owed, e, queued, withdrawn) ==
    IF e.kind = queued THEN [owed EXCEPT ![e.who] = @ + e.value]
    ELSE IF e.kind = withdrawn THEN [owed EXCEPT ![e.who] = @ - e.value]
    ELSE owed

TablesAfter(s, e) ==
    [row |-> RowAfter(s.row, e),
     refunds |-> OwedAfter(s.refunds, e, "RefundQueued", "RefundWithdrawn"),
     proceeds |-> OwedAfter(s.proceeds, e, "ProceedsQueued", "ProceedsWithdrawn")]

After == [s \in Snapshots |-> [e \in Events |-> TablesAfter(s, e)]]

\* The handlers of the events keep the types of the tables.
LEMMA RowTypes ==
    ASSUME NEW row \in Rows, NEW e \in Events
    PROVE  RowAfter(row, e) \in Rows
<1>1. OneMore(row.restartCount) \in Nat
  BY DEF OneMore, Rows
<1> DEFINE n == IF row = NoRow THEN 0 ELSE OneMore(row.restartCount)
<1>2. CASE e.kind = "Kickoff"
  <2>1. n \in Nat
    BY <1>1
  <2>2. RowAfter(row, e) = [row EXCEPT !.kickedOff = TRUE, !.settled = FALSE,
                                !.left = e.left, !.high = 0, !.bidder = NoAccount,
                                !.extensions = 0, !.restartCount = n]
    BY <1>2 DEF RowAfter
  <2> HIDE DEF n
  <2>3. RowAfter(row, e) = [kickedOff |-> TRUE, settled |-> FALSE, left |-> e.left,
                            high |-> 0, bidder |-> NoAccount, winner |-> row.winner,
                            restartCount |-> n, extensions |-> 0]
    BY <2>2 DEF Rows
  <2>4. e.left \in Nat /\ row.winner \in Accounts \cup {NoAccount}
    BY DEF Rows, Events
  <2> HIDE <2>2
  <2> QED BY <2>1, <2>3, <2>4 DEF Rows
<1>4. CASE e.kind = "Bid"
  <2> DEFINE m == IF e.left > row.left THEN row.extensions + 1 ELSE row.extensions
  <2>1. m \in Nat
    BY DEF Rows
  <2>2. RowAfter(row, e) = [row EXCEPT !.high = e.value, !.bidder = e.who, !.left = e.left,
                                       !.extensions = m]
    BY <1>4 DEF RowAfter
  <2> HIDE DEF m
  <2> QED BY <2>1, <2>2 DEF Rows, Events
<1>3. e.kind # "Kickoff" /\ e.kind # "Bid" => RowAfter(row, e) \in Rows
  BY DEF RowAfter, Rows, Events
<1> QED BY <1>2, <1>3, <1>4

LEMMA OwedTypes ==
    ASSUME NEW owed \in [Accounts -> Int], NEW e \in Events, NEW k, NEW w
    PROVE  OwedAfter(owed, e, k, w) \in [Accounts -> Int]
<1>1. e.value \in Int
  BY DEF Events
<1>2. CASE e.who \in Accounts
  BY <1>1, <1>2 DEF OwedAfter
<1>3. CASE e.who \notin Accounts
  BY <1>3 DEF OwedAfter
<1> QED BY <1>2, <1>3

LEMMA AfterTypes ==
    ASSUME NEW s \in Snapshots, NEW e \in Events
    PROVE  After[s][e] = TablesAfter(s, e) /\ After[s][e] \in Snapshots
<1>1. After[s][e] = TablesAfter(s, e)
  BY DEF After
<1>2. s.row \in Rows /\ s.refunds \in [Accounts -> Int] /\ s.proceeds \in [Accounts -> Int]
  BY DEF Snapshots
<1>3. TablesAfter(s, e) \in Snapshots
  BY <1>2, RowTypes, OwedTypes DEF TablesAfter, Snapshots
<1> QED BY <1>1, <1>3

\* A handler does to the tables what After says (indexer/src/index.ts).
LEMMA HandleIsAfter ==
    ASSUME Handle, queue \in Seq(Events), Tables \in Snapshots
    PROVE  /\ queue # << >> /\ queue' = Tail(queue)
           /\ Tables' = After[Tables][Head(queue)]
           /\ UNCHANGED <<vars, restarts>>
<1> DEFINE e == Head(queue)
<1>1. e \in Events /\ queue # << >> /\ queue' = Tail(queue) /\ UNCHANGED <<vars, restarts>>
  BY DEF Handle
<1>2. \/ OnKickoff(e) \/ OnBid(e) \/ OnExtended(e)
      \/ OnSettled(e) \/ OnSettledNoBidder(e)
      \/ OnRefund(e) \/ OnProceeds(e)
  BY DEF Handle
<1> HIDE DEF e
<1>3. titleState \in Rows
  BY DEF Tables, Snapshots
<1>4. ASSUME OnKickoff(e) \/ OnBid(e) \/ OnExtended(e) \/ OnSettled(e) \/ OnSettledNoBidder(e)
      PROVE  /\ titleState' = RowAfter(titleState, e)
             /\ refundTable' = OwedAfter(refundTable, e, "RefundQueued", "RefundWithdrawn")
             /\ proceedsTable' = OwedAfter(proceedsTable, e, "ProceedsQueued", "ProceedsWithdrawn")
  BY <1>4 DEF OnKickoff, OnBid, OnExtended, OnSettled, OnSettledNoBidder, RowAfter, OwedAfter
<1>5. ASSUME OnRefund(e) \/ OnProceeds(e)
      PROVE  /\ titleState' = RowAfter(titleState, e)
             /\ refundTable' = OwedAfter(refundTable, e, "RefundQueued", "RefundWithdrawn")
             /\ proceedsTable' = OwedAfter(proceedsTable, e, "ProceedsQueued", "ProceedsWithdrawn")
  BY <1>5 DEF OnRefund, OnProceeds, RowAfter, OwedAfter
<1>6. Tables' = TablesAfter(Tables, e)
  BY <1>2, <1>4, <1>5 DEF Tables, TablesAfter
<1> QED BY <1>1, <1>6, AfterTypes DEF e

-----------------------------------------------------------------------------
\* What the tables are to show, and tables that show it.  Before the kickoff
\* there is no row.
View == [kickedOff |-> kickedOff, settled |-> settled, left |-> left,
         high |-> highBidWei, bidder |-> highBidder,
         winner |-> IF settled THEN titleOwner ELSE NoAccount,
         restartCount |-> restarts,
         refunds |-> pendingRefund, proceeds |-> pendingProceeds]

Shows(s, v) ==
    /\ v.kickedOff = FALSE => s.row = NoRow
    /\ s.row.kickedOff = v.kickedOff /\ s.row.settled = v.settled
    /\ s.row.left = v.left /\ s.row.high = v.high /\ s.row.bidder = v.bidder
    /\ s.row.winner = v.winner /\ s.row.restartCount = v.restartCount
    /\ s.refunds = v.refunds /\ s.proceeds = v.proceeds

Mirrored ==
    /\ queue \in Seq(Events) /\ restarts \in Nat /\ Tables \in Snapshots
    /\ \E s \in Snapshots : Leads(Snapshots, After, queue, Tables, s) /\ Shows(s, View)

\* A transaction that emits the events r keeps it, when handling them turns
\* tables that show the auction before into tables that show it after.
LEMMA EmitKeeps ==
    ASSUME Mirrored, NEW r \in Seq(Events), Emit(r), restarts' \in Nat,
           \A s \in Snapshots : Shows(s, View) =>
               \E t \in Snapshots : Leads(Snapshots, After, r, s, t) /\ Shows(t, View')
    PROVE  Mirrored'
<1>1. PICK s \in Snapshots : Leads(Snapshots, After, queue, Tables, s) /\ Shows(s, View)
  BY DEF Mirrored
<1>2. PICK t \in Snapshots : Leads(Snapshots, After, r, s, t) /\ Shows(t, View')
  BY <1>1
<1>3. /\ queue' = queue \o r /\ queue \in Seq(Events) /\ Tables' = Tables
      /\ Tables \in Snapshots
  BY DEF Emit, tableVars, Tables, Mirrored
<1>4. Leads(Snapshots, After, queue \o r, Tables, t)
  BY <1>1, <1>2, <1>3, LeadsOn
<1>5. queue \o r \in Seq(Events)
  BY <1>3
<1>6. Leads(Snapshots, After, queue', Tables', t)
  BY <1>3, <1>4
<1>7. queue' \in Seq(Events) /\ Tables' \in Snapshots
  BY <1>3, <1>5
<1> QED BY <1>2, <1>6, <1>7 DEF Mirrored

\* Handling one event, in terms of the tables it makes.
LEMMA OneEvent ==
    ASSUME NEW s \in Snapshots, NEW e \in Events
    PROVE  /\ TablesAfter(s, e) \in Snapshots
           /\ Leads(Snapshots, After, <<e>>, s, TablesAfter(s, e))
<1>1. After[s][e] = TablesAfter(s, e) /\ After[s][e] \in Snapshots
  BY AfterTypes
<1>2. Leads(Snapshots, After, <<e>>, s, After[s][e])
  BY <1>1, LeadsOne
<1> QED BY <1>1, <1>2

LEMMA Pair ==
    ASSUME NEW d \in Events, NEW e \in Events
    PROVE  /\ <<d>> \in Seq(Events) /\ <<e>> \in Seq(Events)
           /\ <<d, e>> \in Seq(Events) /\ <<d>> \o <<e>> = <<d, e>>
<1>1. <<d>> \in Seq(Events) /\ <<e>> \in Seq(Events)
  OBVIOUS
<1>2. <<d, e>> \in Seq(Events)
  OBVIOUS
<1>3. <<d>> \o <<e>> = <<d, e>>
  BY ConcatPair
<1> QED BY <1>1, <1>2, <1>3

\* Handling two events.
LEMMA TwoEvents ==
    ASSUME NEW s \in Snapshots, NEW d \in Events, NEW e \in Events
    PROVE  /\ TablesAfter(TablesAfter(s, d), e) \in Snapshots
           /\ Leads(Snapshots, After, <<d, e>>, s, TablesAfter(TablesAfter(s, d), e))
<1>1. /\ TablesAfter(s, d) \in Snapshots
      /\ Leads(Snapshots, After, <<d>>, s, TablesAfter(s, d))
  BY OneEvent
<1>2. /\ TablesAfter(TablesAfter(s, d), e) \in Snapshots
      /\ Leads(Snapshots, After, <<e>>, TablesAfter(s, d), TablesAfter(TablesAfter(s, d), e))
  BY <1>1, OneEvent
<1>3. Leads(Snapshots, After, <<d>> \o <<e>>, s, TablesAfter(TablesAfter(s, d), e))
  BY <1>1, <1>2, Pair, LeadsOn
<1> QED BY <1>2, <1>3, Pair

\* A transaction that emits one event, or two.
LEMMA EmitOne ==
    ASSUME Mirrored, NEW e \in Events, Emit(<<e>>), restarts' \in Nat,
           \A s \in Snapshots : Shows(s, View) => Shows(TablesAfter(s, e), View')
    PROVE  Mirrored'
<1>1. \A s \in Snapshots : Shows(s, View) =>
          \E t \in Snapshots : Leads(Snapshots, After, <<e>>, s, t) /\ Shows(t, View')
  BY OneEvent
<1>2. <<e>> \in Seq(Events)
  BY Pair
<1> QED BY <1>1, <1>2, EmitKeeps

LEMMA EmitTwo ==
    ASSUME Mirrored, NEW d \in Events, NEW e \in Events, Emit(<<d, e>>), restarts' \in Nat,
           \A s \in Snapshots :
               Shows(s, View) => Shows(TablesAfter(TablesAfter(s, d), e), View')
    PROVE  Mirrored'
<1>1. \A s \in Snapshots : Shows(s, View) =>
          \E t \in Snapshots : Leads(Snapshots, After, <<d, e>>, s, t) /\ Shows(t, View')
  BY TwoEvents
<1>2. <<d, e>> \in Seq(Events)
  BY Pair
<1> QED BY <1>1, <1>2, EmitKeeps

\* The fields of tables.
LEMMA Fields ==
    ASSUME NEW s \in Snapshots
    PROVE  /\ s.row \in Rows
           /\ s.refunds \in [Accounts -> Int] /\ s.proceeds \in [Accounts -> Int]
BY DEF Snapshots

\* The fields of the view.
LEMMA ViewFields ==
    ASSUME IInv
    PROVE  /\ View.kickedOff = kickedOff /\ View.settled = settled /\ View.left = left
           /\ View.high = highBidWei /\ View.bidder = highBidder
           /\ View.winner = (IF settled THEN titleOwner ELSE NoAccount)
           /\ View.restartCount = restarts
           /\ View.refunds = pendingRefund /\ View.proceeds = pendingProceeds
           /\ kickedOff \in BOOLEAN /\ settled \in BOOLEAN
BY DEF View, IInv, TypeOK

LEMMA NextViewFields ==
    ASSUME IInv'
    PROVE  /\ View'.kickedOff = kickedOff' /\ View'.settled = settled' /\ View'.left = left'
           /\ View'.high = highBidWei' /\ View'.bidder = highBidder'
           /\ View'.winner = (IF settled' THEN titleOwner' ELSE NoAccount)
           /\ View'.restartCount = restarts'
           /\ View'.refunds = pendingRefund' /\ View'.proceeds = pendingProceeds'
           /\ kickedOff' \in BOOLEAN /\ settled' \in BOOLEAN
BY DEF View, IInv, TypeOK

\* The kickoff.
LEMMA KickoffMirrored ==
    ASSUME IInv, IInv', Mirrored, EmitKickoff
    PROVE  Mirrored'
<1>1. /\ kickedOff = FALSE /\ settled = FALSE /\ kickedOff' = TRUE /\ settled' = FALSE
      /\ left' \in Nat /\ highBidWei = 0 /\ highBidder = NoAccount
      /\ highBidWei' = 0 /\ highBidder' = NoAccount /\ restarts' = restarts
      /\ pendingRefund' = pendingRefund /\ pendingProceeds' = pendingProceeds
      /\ Emit(<<Event("Kickoff", NoAccount, 0, left')>>)
  BY TitleAssumption DEF TitleAssumption, EmitKickoff, Kickoff, moneyVars, IInv, Consistent, TypeOK
<1>2. PICK v, w, e : v = View /\ w = View' /\ e = Event("Kickoff", NoAccount, 0, left')
  OBVIOUS
<1>3. /\ v.kickedOff = FALSE /\ w.kickedOff = TRUE /\ w.settled = FALSE
      /\ w.high = 0 /\ w.bidder = NoAccount /\ w.winner = NoAccount
      /\ v.restartCount = w.restartCount /\ w.refunds = v.refunds /\ w.proceeds = v.proceeds
      /\ w.left = left'
  BY <1>1, <1>2, ViewFields, NextViewFields
<1>4. e \in Events /\ e.kind = "Kickoff" /\ e.left = w.left /\ w.left \in Nat
  BY <1>1, <1>2, <1>3 DEF Event, Events, Kinds
<1>5. ASSUME NEW s \in Snapshots, Shows(s, v)
      PROVE  Shows(TablesAfter(s, e), w)
  <2>1. /\ s.row = NoRow /\ s.refunds = w.refunds /\ s.proceeds = w.proceeds
        /\ w.restartCount = 0
    BY <1>3, <1>5 DEF Shows, NoRow
  <2>2. RowAfter(NoRow, e)
          = [kickedOff |-> TRUE, settled |-> FALSE, left |-> w.left, high |-> 0,
             bidder |-> NoAccount, winner |-> NoAccount, restartCount |-> 0, extensions |-> 0]
    BY <1>4 DEF RowAfter, NoRow
  <2>3. TablesAfter(s, e) = [row |-> RowAfter(NoRow, e), refunds |-> w.refunds,
                             proceeds |-> w.proceeds]
    BY <1>4, <2>1 DEF TablesAfter, OwedAfter
  <2>4. PICK t : t = TablesAfter(s, e)
    OBVIOUS
  <2>5. /\ t.row.kickedOff = TRUE /\ t.row.settled = FALSE /\ t.row.left = w.left
        /\ t.row.high = 0 /\ t.row.bidder = NoAccount /\ t.row.winner = NoAccount
        /\ t.row.restartCount = 0 /\ t.refunds = w.refunds /\ t.proceeds = w.proceeds
    BY <2>2, <2>3, <2>4
  <2> QED BY <1>3, <2>1, <2>4, <2>5, Zenon DEF Shows
<1>6. restarts' \in Nat
  BY <1>1 DEF Mirrored
<1> QED BY <1>1, <1>2, <1>4, <1>5, <1>6, EmitOne

\* A settlement without a bid ends the round in the row and starts another.
LEMMA RestartMirrored ==
    ASSUME IInv, IInv', Mirrored, Restart, Emit(RestartEvents), restarts' = OneMore(restarts)
    PROVE  Mirrored'
<1>1. /\ kickedOff = TRUE /\ settled = FALSE /\ kickedOff' = TRUE /\ settled' = FALSE
      /\ left' \in Nat /\ highBidWei' = 0 /\ highBidder' = NoAccount
      /\ pendingRefund' = pendingRefund /\ pendingProceeds' = pendingProceeds
      /\ Emit(<<Event("SettledNoBidder", NoAccount, 0, 0),
                Event("Kickoff", NoAccount, 0, left')>>)
  BY TitleAssumption DEF TitleAssumption, Restart, Over, RestartEvents, moneyVars, IInv,
                         Consistent, TypeOK
<1>2. PICK v, w, d, e :
          /\ v = View /\ w = View' /\ d = Event("SettledNoBidder", NoAccount, 0, 0)
          /\ e = Event("Kickoff", NoAccount, 0, left')
  OBVIOUS
<1>3. /\ v.kickedOff = TRUE /\ v.winner = NoAccount /\ w.kickedOff = TRUE /\ w.settled = FALSE
      /\ w.high = 0 /\ w.bidder = NoAccount /\ w.winner = NoAccount
      /\ w.restartCount = OneMore(v.restartCount)
      /\ w.refunds = v.refunds /\ w.proceeds = v.proceeds /\ w.left = left'
  BY <1>1, <1>2, ViewFields, NextViewFields
<1>4. /\ d \in Events /\ d.kind = "SettledNoBidder"
      /\ e \in Events /\ e.kind = "Kickoff" /\ e.left = w.left /\ w.left \in Nat
  BY <1>1, <1>2, <1>3 DEF Event, Events, Kinds
<1>5. ASSUME NEW s \in Snapshots, Shows(s, v)
      PROVE  Shows(TablesAfter(TablesAfter(s, d), e), w)
  <2>1. /\ s.row \in Rows /\ s.row.kickedOff = TRUE /\ s.row.winner = NoAccount
        /\ s.row.restartCount = v.restartCount
        /\ s.refunds = w.refunds /\ s.proceeds = w.proceeds
    BY <1>3, <1>5, Fields DEF Shows
  <2>2. PICK row : row = RowAfter(s.row, d)
    OBVIOUS
  <2>3. row = [s.row EXCEPT !.high = 0, !.bidder = NoAccount]
    BY <1>4, <2>2 DEF RowAfter
  <2>4. row = [kickedOff |-> TRUE, settled |-> s.row.settled, left |-> s.row.left, high |-> 0,
               bidder |-> NoAccount, winner |-> NoAccount, restartCount |-> v.restartCount,
               extensions |-> s.row.extensions]
    BY <2>1, <2>3 DEF Rows
  <2>5. row.kickedOff # NoRow.kickedOff
    BY <2>4 DEF NoRow
  <2>6. RowAfter(row, e) = [row EXCEPT !.kickedOff = TRUE, !.settled = FALSE, !.left = w.left,
                                       !.high = 0, !.bidder = NoAccount, !.extensions = 0,
                                       !.restartCount = OneMore(@)]
    BY <1>4, <2>5 DEF RowAfter
  <2>7. RowAfter(row, e)
          = [kickedOff |-> TRUE, settled |-> FALSE, left |-> w.left, high |-> 0,
             bidder |-> NoAccount, winner |-> NoAccount,
             restartCount |-> OneMore(v.restartCount), extensions |-> 0]
    BY <2>4, <2>6
  <2>8. TablesAfter(TablesAfter(s, d), e)
          = [row |-> RowAfter(row, e), refunds |-> w.refunds, proceeds |-> w.proceeds]
    BY <1>4, <2>1, <2>2 DEF TablesAfter, OwedAfter
  <2>9. PICK t : t = TablesAfter(TablesAfter(s, d), e)
    OBVIOUS
  <2>10. /\ t.row.kickedOff = TRUE /\ t.row.settled = FALSE /\ t.row.left = w.left
         /\ t.row.high = 0 /\ t.row.bidder = NoAccount /\ t.row.winner = NoAccount
         /\ t.row.restartCount = w.restartCount
         /\ t.refunds = w.refunds /\ t.proceeds = w.proceeds
    BY <1>3, <2>7, <2>8, <2>9
  <2> QED BY <1>3, <2>9, <2>10, Zenon DEF Shows
<1>6. restarts' \in Nat
  BY DEF Mirrored, OneMore
<1> QED BY <1>1, <1>2, <1>4, <1>5, <1>6, EmitTwo

\* The award queues the proceeds and closes the row.
LEMMA AwardMirrored ==
    ASSUME IInv, IInv', Mirrored, Award, UNCHANGED restarts,
           Emit(<<Event("ProceedsQueued", PayoutRecipient, highBidWei, 0),
                  Event("Settled", highBidder, highBidWei, 0)>>)
    PROVE  Mirrored'
<1>1. /\ kickedOff = TRUE /\ kickedOff' = TRUE /\ settled' = TRUE /\ titleOwner' = highBidder
      /\ left' = left /\ highBidWei' = highBidWei /\ highBidder' = highBidder
      /\ restarts' = restarts /\ pendingRefund' = pendingRefund
      /\ pendingProceeds' = [pendingProceeds EXCEPT ![PayoutRecipient] = @ + highBidWei]
      /\ highBidWei \in Nat /\ highBidder \in Accounts
  BY DEF Award, Over, IInv, TypeOK
<1>2. PICK v, w, d, e :
          /\ v = View /\ w = View' /\ d = Event("ProceedsQueued", PayoutRecipient, highBidWei, 0)
          /\ e = Event("Settled", highBidder, highBidWei, 0)
  OBVIOUS
<1>3. /\ v.kickedOff = TRUE /\ w.kickedOff = TRUE /\ w.settled = TRUE
      /\ w.left = v.left /\ w.high = v.high /\ w.bidder = v.bidder /\ w.winner = v.bidder
      /\ w.restartCount = v.restartCount /\ w.refunds = v.refunds
      /\ w.proceeds = [v.proceeds EXCEPT ![PayoutRecipient] = @ + v.high]
      /\ v.high = highBidWei /\ v.bidder = highBidder
  BY <1>1, <1>2, ViewFields, NextViewFields
<1>4. /\ d \in Events /\ d.kind = "ProceedsQueued" /\ d.who = PayoutRecipient
      /\ d.value = v.high
      /\ e \in Events /\ e.kind = "Settled" /\ e.who = v.bidder
  BY <1>1, <1>2, <1>3, TitleAssumption DEF TitleAssumption, Event, Events, Kinds
<1>5. ASSUME NEW s \in Snapshots, Shows(s, v)
      PROVE  Shows(TablesAfter(TablesAfter(s, d), e), w)
  <2>1. /\ s.row \in Rows /\ s.row.kickedOff = TRUE /\ s.row.left = w.left
        /\ s.row.high = w.high /\ s.row.bidder = w.bidder
        /\ s.row.restartCount = w.restartCount
        /\ s.refunds = w.refunds /\ s.proceeds = v.proceeds
    BY <1>3, <1>5, Fields DEF Shows
  <2>2. RowAfter(RowAfter(s.row, d), e)
          = [s.row EXCEPT !.settled = TRUE, !.winner = v.bidder]
    BY <1>4 DEF RowAfter
  <2>3. RowAfter(RowAfter(s.row, d), e)
          = [kickedOff |-> TRUE, settled |-> TRUE, left |-> w.left, high |-> w.high,
             bidder |-> w.bidder, winner |-> v.bidder, restartCount |-> w.restartCount,
             extensions |-> s.row.extensions]
    BY <2>1, <2>2 DEF Rows
  <2>4. TablesAfter(TablesAfter(s, d), e)
          = [row |-> RowAfter(RowAfter(s.row, d), e),
             refunds |-> w.refunds, proceeds |-> w.proceeds]
    BY <1>3, <1>4, <2>1 DEF TablesAfter, OwedAfter
  <2>5. PICK t : t = TablesAfter(TablesAfter(s, d), e)
    OBVIOUS
  <2>6. /\ t.row.kickedOff = TRUE /\ t.row.settled = TRUE /\ t.row.left = w.left
        /\ t.row.high = w.high /\ t.row.bidder = w.bidder /\ t.row.winner = w.winner
        /\ t.row.restartCount = w.restartCount
        /\ t.refunds = w.refunds /\ t.proceeds = w.proceeds
    BY <1>3, <2>3, <2>4, <2>5
  <2> QED BY <1>3, <2>5, <2>6, Zenon DEF Shows
<1>6. restarts' \in Nat
  BY <1>1 DEF Mirrored
<1> QED BY <1>2, <1>4, <1>5, <1>6, EmitTwo

\* A withdrawal takes off the table what it takes off the contract's queue.
LEMMA TakenOff ==
    ASSUME NEW f \in [Accounts -> Nat], NEW a \in Accounts
    PROVE  [f EXCEPT ![a] = @ - f[a]] = [f EXCEPT ![a] = 0]
<1>1. f[a] - f[a] = 0
  <2>1. f[a] \in Nat
    OBVIOUS
  <2> QED BY <2>1
<1> QED BY <1>1

LEMMA WithdrawalMirrored ==
    ASSUME IInv, IInv', Mirrored, EmitWithdrawal
    PROVE  Mirrored'
<1>1. restarts' \in Nat /\ restarts' = restarts
  BY DEF EmitWithdrawal, Mirrored
<1>2. ASSUME NEW a \in Accounts, WithdrawRefund(a),
             Emit(<<Event("RefundWithdrawn", a, pendingRefund[a], 0)>>)
      PROVE  Mirrored'
  <2>1. PICK v, w, e : /\ v = View /\ w = View'
                       /\ e = Event("RefundWithdrawn", a, pendingRefund[a], 0)
    OBVIOUS
  <2>2. /\ e \in Events /\ e.kind = "RefundWithdrawn" /\ e.who = a
        /\ e.value = v.refunds[a] /\ v.refunds \in [Accounts -> Nat]
    BY <2>1, ViewFields DEF Event, Events, Kinds, IInv, TypeOK
  <2>3. View' = [View EXCEPT !.refunds = [pendingRefund EXCEPT ![a] = 0]]
    BY <1>1, <1>2 DEF WithdrawRefund, View, auctionVars
  <2>4. w = [v EXCEPT !.refunds = [@ EXCEPT ![a] = 0]]
    BY <2>1, <2>3, ViewFields
  <2>5. [v.refunds EXCEPT ![a] = @ - v.refunds[a]] = [v.refunds EXCEPT ![a] = 0]
    BY <2>2, TakenOff
  <2>6. ASSUME NEW s \in Snapshots, Shows(s, v)
        PROVE  Shows(TablesAfter(s, e), w)
    <3>1. TablesAfter(s, e) = [row |-> s.row, refunds |-> [v.refunds EXCEPT ![a] = 0],
                               proceeds |-> v.proceeds]
      BY <2>2, <2>5, <2>6 DEF Shows, TablesAfter, RowAfter, OwedAfter
    <3> QED BY <2>4, <2>6, <3>1 DEF Shows
  <2> QED BY <1>1, <1>2, <2>1, <2>2, <2>6, EmitOne
<1>3. ASSUME NEW a \in Accounts, WithdrawProceeds(a),
             Emit(<<Event("ProceedsWithdrawn", a, pendingProceeds[a], 0)>>)
      PROVE  Mirrored'
  <2>1. PICK v, w, e : /\ v = View /\ w = View'
                       /\ e = Event("ProceedsWithdrawn", a, pendingProceeds[a], 0)
    OBVIOUS
  <2>2. /\ e \in Events /\ e.kind = "ProceedsWithdrawn" /\ e.who = a
        /\ e.value = v.proceeds[a] /\ v.proceeds \in [Accounts -> Nat]
    BY <2>1, ViewFields DEF Event, Events, Kinds, IInv, TypeOK
  <2>3. View' = [View EXCEPT !.proceeds = [pendingProceeds EXCEPT ![a] = 0]]
    BY <1>1, <1>3 DEF WithdrawProceeds, View, auctionVars
  <2>4. w = [v EXCEPT !.proceeds = [@ EXCEPT ![a] = 0]]
    BY <2>1, <2>3, ViewFields
  <2>5. [v.proceeds EXCEPT ![a] = @ - v.proceeds[a]] = [v.proceeds EXCEPT ![a] = 0]
    BY <2>2, TakenOff
  <2>6. ASSUME NEW s \in Snapshots, Shows(s, v)
        PROVE  Shows(TablesAfter(s, e), w)
    <3>1. TablesAfter(s, e) = [row |-> s.row, refunds |-> v.refunds,
                               proceeds |-> [v.proceeds EXCEPT ![a] = 0]]
      BY <2>2, <2>5, <2>6 DEF Shows, TablesAfter, RowAfter, OwedAfter
    <3> QED BY <2>4, <2>6, <3>1 DEF Shows
  <2> QED BY <1>1, <1>3, <2>1, <2>2, <2>6, EmitOne
<1> QED BY <1>2, <1>3 DEF EmitWithdrawal

\* A bid: the extension, the queued refund and the bid, in the order they are
\* emitted, leave the row with the bid and the deadline that the contract has.
LEMMA BidMirrored ==
    ASSUME IInv, IInv', Mirrored,
           NEW a \in Accounts, NEW value \in Bids, NEW pushed \in BOOLEAN,
           Bid(a, value, pushed), Emit(BidEvents(a, value, pushed)), UNCHANGED restarts
    PROVE  Mirrored'
<1> DEFINE queued == highBidder # NoAccount /\ ~pushed
<1>1. value \in Nat
  BY BidRefunds
<1>2. PICK v, w, c, d, e :
          /\ v = View /\ w = View' /\ c = Event("Extended", NoAccount, 0, left')
          /\ d = Event("RefundQueued", highBidder, highBidWei, 0)
          /\ e = Event("Bid", a, value, left')
  OBVIOUS
<1>3. PICK first, second : /\ first = (IF Late THEN <<c>> ELSE << >>)
                           /\ second = (IF queued THEN <<d>> ELSE << >>)
  OBVIOUS
<1>4. Emit(first \o second \o <<e>>)
  BY <1>2, <1>3 DEF BidEvents
<1>5. /\ kickedOff = TRUE /\ settled = FALSE /\ highBidWei' = value /\ highBidder' = a
      /\ kickedOff' = TRUE /\ settled' = FALSE /\ restarts' = restarts
      /\ pendingProceeds' = pendingProceeds
      /\ queued => pendingRefund' = [pendingRefund EXCEPT ![highBidder] = @ + highBidWei]
      /\ ~queued => pendingRefund' = pendingRefund
  BY DEF Bid, Live, RefundPrevious, IInv, TypeOK
<1>6. /\ w.kickedOff = TRUE /\ w.settled = FALSE /\ v.kickedOff = TRUE /\ v.settled = FALSE
      /\ w.high = value /\ w.bidder = a /\ w.left = left' /\ w.winner = v.winner
      /\ w.restartCount = v.restartCount /\ w.proceeds = v.proceeds
      /\ queued => w.refunds = [v.refunds EXCEPT ![v.bidder] = @ + v.high]
      /\ ~queued => w.refunds = v.refunds
      /\ v.bidder = highBidder /\ v.high = highBidWei
  <2>1. /\ v.kickedOff = TRUE /\ v.settled = FALSE /\ v.winner = NoAccount
        /\ v.restartCount = restarts /\ v.proceeds = pendingProceeds
        /\ v.refunds = pendingRefund /\ v.bidder = highBidder /\ v.high = highBidWei
    BY <1>2, <1>5, ViewFields
  <2>2. /\ w.kickedOff = TRUE /\ w.settled = FALSE /\ w.winner = NoAccount
        /\ w.high = value /\ w.bidder = a /\ w.left = left'
        /\ w.restartCount = restarts /\ w.proceeds = pendingProceeds
        /\ w.refunds = pendingRefund'
    BY <1>2, <1>5, NextViewFields
  <2> QED BY <1>5, <2>1, <2>2
<1>7. /\ c \in Events /\ c.kind = "Extended"
      /\ d \in Events /\ d.kind = "RefundQueued" /\ d.who = v.bidder /\ d.value = v.high
      /\ e \in Events /\ e.kind = "Bid" /\ e.who = a /\ e.value = value /\ e.left = w.left
  BY <1>1, <1>2, <1>6 DEF Event, Events, Kinds, IInv, TypeOK
<1> HIDE DEF queued
<1>8. first \in Seq(Events) /\ second \in Seq(Events) /\ <<e>> \in Seq(Events)
  <2>1. <<c>> \in Seq(Events) /\ <<d>> \in Seq(Events) /\ <<e>> \in Seq(Events)
    BY <1>7, Pair
  <2> QED BY <1>3, <2>1
<1>9. ASSUME NEW s \in Snapshots, Shows(s, v)
      PROVE  \E t \in Snapshots :
                Leads(Snapshots, After, first \o second \o <<e>>, s, t) /\ Shows(t, w)
  <2>1. PICK s1 : s1 = IF Late THEN TablesAfter(s, c) ELSE s
    OBVIOUS
  <2>2. PICK s2 : s2 = IF queued THEN TablesAfter(s1, d) ELSE s1
    OBVIOUS
  <2>3. PICK t : t = TablesAfter(s2, e)
    OBVIOUS
  <2>4. s1 \in Snapshots /\ Leads(Snapshots, After, first, s, s1)
    <3>1. CASE Late
      BY <1>3, <1>7, <2>1, <3>1, OneEvent
    <3>2. CASE ~Late
      BY <1>3, <2>1, <3>2, LeadsNowhere
    <3> QED BY <3>1, <3>2
  <2>5. s2 \in Snapshots /\ Leads(Snapshots, After, second, s1, s2)
    <3>1. CASE queued
      BY <1>3, <1>7, <2>2, <2>4, <3>1, OneEvent
    <3>2. CASE ~queued
      BY <1>3, <2>2, <2>4, <3>2, LeadsNowhere
    <3> QED BY <3>1, <3>2
  <2>6. t \in Snapshots /\ Leads(Snapshots, After, <<e>>, s2, t)
    BY <1>7, <2>3, <2>5, OneEvent
  <2>7. /\ s1.refunds = v.refunds /\ s1.proceeds = v.proceeds
        /\ s1.row.kickedOff = v.kickedOff /\ s1.row.settled = v.settled
        /\ s1.row.winner = v.winner /\ s1.row.restartCount = v.restartCount
    <3>1. CASE Late
      <4>1. /\ s1.refunds = s.refunds /\ s1.proceeds = s.proceeds
            /\ s1.row = [s.row EXCEPT !.left = c.left]
        BY <1>7, <2>1, <3>1 DEF TablesAfter, RowAfter, OwedAfter
      <4> QED BY <1>9, <4>1, Fields DEF Shows, Rows
    <3>2. CASE ~Late
      BY <1>9, <2>1, <3>2 DEF Shows
    <3> QED BY <3>1, <3>2
  <2>8. s2.row = s1.row /\ s2.refunds = w.refunds /\ s2.proceeds = w.proceeds
    <3>1. CASE queued
      BY <1>6, <1>7, <2>2, <2>7, <3>1 DEF TablesAfter, RowAfter, OwedAfter
    <3>2. CASE ~queued
      BY <1>6, <2>2, <2>7, <3>2
    <3> QED BY <3>1, <3>2
  <2>9. Shows(t, w)
    <3>1. PICK n : n = IF e.left > s2.row.left THEN s2.row.extensions + 1 ELSE s2.row.extensions
      OBVIOUS
    <3>2. /\ t.refunds = w.refunds /\ t.proceeds = w.proceeds
          /\ t.row = [s2.row EXCEPT !.high = value, !.bidder = a, !.left = w.left,
                                    !.extensions = n]
      BY <1>7, <2>3, <2>8, <3>1 DEF TablesAfter, RowAfter, OwedAfter
    <3>3. s2.row \in Rows
      BY <2>5, Fields
    <3>4. /\ t.row.high = value /\ t.row.bidder = a /\ t.row.left = w.left
          /\ t.row.kickedOff = s2.row.kickedOff /\ t.row.settled = s2.row.settled
          /\ t.row.winner = s2.row.winner /\ t.row.restartCount = s2.row.restartCount
      BY <3>2, <3>3 DEF Rows
    <3>5. /\ t.row.kickedOff = TRUE /\ t.row.settled = FALSE
          /\ t.row.winner = w.winner /\ t.row.restartCount = w.restartCount
      BY <1>6, <2>7, <2>8, <3>4
    <3>6. t.row.high = w.high /\ t.row.bidder = w.bidder
      BY <1>6, <3>4
    <3> QED BY <1>6, <3>2, <3>4, <3>5, <3>6, Zenon DEF Shows
  <2>10. first \o second \in Seq(Events)
    BY <1>8
  <2>11. Leads(Snapshots, After, first \o second, s, s2)
    BY <1>8, <2>4, <2>5, LeadsOn
  <2>12. Leads(Snapshots, After, first \o second \o <<e>>, s, t)
    BY <1>8, <2>5, <2>6, <2>10, <2>11, LeadsOn
  <2> QED BY <2>6, <2>9, <2>12
<1>10. restarts' \in Nat
  BY <1>5 DEF Mirrored
<1>11. first \o second \o <<e>> \in Seq(Events)
  BY <1>8
<1> QED BY <1>2, <1>4, <1>9, <1>10, <1>11, EmitKeeps

\* Steps that emit nothing and show nothing.
LEMMA QuietMirrored ==
    ASSUME IInv, Mirrored,
           \/ Quiet
           \/ UNCHANGED indexedVars
    PROVE  Mirrored'
<1>1. /\ UNCHANGED <<queue, restarts, tableVars, auctionVars, moneyVars>>
      /\ settled => titleOwner' = titleOwner
  BY TitleAssumption DEF TitleAssumption, Quiet, CollectEnough, MintTitle, Minted, indexedVars,
                         vars, IInv, TypeOK, Consistent
<1>2. Tables' = Tables
  BY <1>1 DEF Tables, tableVars
<1>3. View' = View
  BY <1>1 DEF View, auctionVars, moneyVars
<1>4. queue' = queue /\ restarts' = restarts
  BY <1>1
<1> QED BY <1>2, <1>3, <1>4 DEF Mirrored

\* Time passes for the contract and for the row alike.
LEMMA ElapseMirrored ==
    ASSUME IInv, IInv', Mirrored, Elapse
    PROVE  Mirrored'
<1>1. Shows(Tables, View) /\ Tables \in Snapshots
  BY LeadsNowhere DEF Elapse, Mirrored
<1>2. /\ queue' = << >> /\ queue = << >> /\ restarts' = restarts
      /\ refundTable' = refundTable /\ proceedsTable' = proceedsTable
      /\ titleState' = [titleState EXCEPT !.left = IF @ > 0 THEN @ - 1 ELSE 0]
      /\ left > 0 /\ left' = left - 1
  BY DEF Elapse, Tick
<1>3. View' = [View EXCEPT !.left = left']
  BY DEF Elapse, Tick, moneyVars, View
<1>4. kickedOff = TRUE /\ left \in Nat /\ left' \in Nat
  BY <1>2 DEF IInv, TypeOK, Consistent
<1>5. PICK v, w, s, t : v = View /\ w = View' /\ s = Tables /\ t = Tables'
  OBVIOUS
<1>6. s.row = titleState /\ titleState \in Rows /\ titleState.left = left
  BY <1>1, <1>5, ViewFields DEF Tables, Snapshots, Shows
<1>7. titleState' = [titleState EXCEPT !.left = left']
  BY <1>2, <1>4, <1>6
<1>8. t = [row |-> [s.row EXCEPT !.left = left'], refunds |-> s.refunds,
           proceeds |-> s.proceeds]
  BY <1>2, <1>5, <1>7 DEF Tables
<1>9. w = [v EXCEPT !.left = left'] /\ v.kickedOff = TRUE
  BY <1>3, <1>4, <1>5, ViewFields
<1>10. [s.row EXCEPT !.left = left'] \in Rows
  BY <1>4, <1>6 DEF Rows
<1>11. t \in Snapshots
  BY <1>1, <1>5, <1>8, <1>10 DEF Snapshots
<1>12. Shows(t, w)
  <2>1. /\ t.row.kickedOff = s.row.kickedOff /\ t.row.settled = s.row.settled
        /\ t.row.left = left' /\ t.row.high = s.row.high /\ t.row.bidder = s.row.bidder
        /\ t.row.winner = s.row.winner /\ t.row.restartCount = s.row.restartCount
        /\ t.refunds = s.refunds /\ t.proceeds = s.proceeds
    BY <1>6, <1>8 DEF Rows
  <2>2. /\ w.kickedOff = v.kickedOff /\ w.settled = v.settled /\ w.left = left'
        /\ w.high = v.high /\ w.bidder = v.bidder /\ w.winner = v.winner
        /\ w.restartCount = v.restartCount /\ w.refunds = v.refunds /\ w.proceeds = v.proceeds
    BY <1>5, <1>9 DEF View
  <2> QED BY <1>1, <1>5, <1>9, <2>1, <2>2, Zenon DEF Shows
<1>13. Leads(Snapshots, After, queue', t, t)
  BY <1>2, <1>11, LeadsNowhere
<1>14. queue' \in Seq(Events) /\ restarts' \in Nat
  BY <1>2 DEF Mirrored
<1> QED BY <1>5, <1>11, <1>12, <1>13, <1>14 DEF Mirrored

\* Handling an event brings the tables one step closer.
LEMMA HandleMirrored ==
    ASSUME IInv, Mirrored, Handle
    PROVE  Mirrored'
<1>1. PICK s \in Snapshots : Leads(Snapshots, After, queue, Tables, s) /\ Shows(s, View)
  BY DEF Mirrored
<1>2. queue \in Seq(Events) /\ restarts \in Nat /\ Tables \in Snapshots
  BY DEF Mirrored
<1>3. /\ queue # << >> /\ queue' = Tail(queue)
      /\ Tables' = After[Tables][Head(queue)]
      /\ UNCHANGED <<vars, restarts>>
  BY <1>2, HandleIsAfter
<1>4. /\ Leads(Snapshots, After, Tail(queue), After[Tables][Head(queue)], s)
      /\ After[Tables][Head(queue)] \in Snapshots
  BY <1>1, <1>2, <1>3, LeadsTail
<1>5. View' = View
  BY <1>3 DEF View, vars, auctionVars, moneyVars
<1>6. queue' \in Seq(Events) /\ restarts' \in Nat
  BY <1>2, <1>3
<1>7. Leads(Snapshots, After, queue', Tables', s) /\ Tables' \in Snapshots
  BY <1>3, <1>4
<1> QED BY <1>1, <1>5, <1>6, <1>7 DEF Mirrored

\* Every step keeps the queue leading to what the contract shows.
LEMMA MirroredNext ==
    ASSUME IInv, IInv', Mirrored, [IndexedNext]_indexedVars
    PROVE  Mirrored'
<1>1. EmitBid => Mirrored'
  BY BidMirrored DEF EmitBid
<1>2. EmitSettle => Mirrored'
  BY RestartMirrored, AwardMirrored DEF EmitSettle
<1> QED BY <1>1, <1>2, QuietMirrored, KickoffMirrored, WithdrawalMirrored, ElapseMirrored,
           HandleMirrored DEF IndexedNext

\* Before the launch the tables are empty and there is nothing to show.
LEMMA MirroredInit ==
    ASSUME IndexedInit
    PROVE  Mirrored
<1>1. /\ titleState = NoRow /\ refundTable = pendingRefund /\ proceedsTable = pendingProceeds
      /\ queue = << >> /\ restarts = 0
      /\ pendingRefund \in [Accounts -> Int] /\ pendingProceeds \in [Accounts -> Int]
  BY DEF IndexedInit, Init
<1>2. NoRow \in Rows
  BY DEF NoRow, Rows
<1>3. Tables \in Snapshots
  BY <1>1, <1>2 DEF Tables, Snapshots
<1>4. Shows(Tables, View)
  <2>1. /\ Tables.row = NoRow /\ NoRow.kickedOff = FALSE /\ NoRow.settled = FALSE
        /\ NoRow.left = 0 /\ NoRow.high = 0 /\ NoRow.bidder = NoAccount
        /\ NoRow.winner = NoAccount /\ NoRow.restartCount = 0
        /\ Tables.refunds = pendingRefund /\ Tables.proceeds = pendingProceeds
    BY <1>1 DEF Tables, NoRow
  <2>2. /\ View.kickedOff = FALSE /\ View.settled = FALSE /\ View.left = 0
        /\ View.high = 0 /\ View.bidder = NoAccount /\ View.winner = NoAccount
        /\ View.restartCount = 0
        /\ View.refunds = pendingRefund /\ View.proceeds = pendingProceeds
    BY <1>1 DEF IndexedInit, Init, View
  <2> QED BY <2>1, <2>2, Zenon DEF Shows
<1>5. Leads(Snapshots, After, queue, Tables, Tables)
  BY <1>1, <1>3, LeadsNowhere
<1> QED BY <1>1, <1>3, <1>4, <1>5 DEF Mirrored

\* A caught-up indexer shows the Title auction as it is, its round and what the
\* contract owes included, whatever the bids, refused refunds, restarts and
\* withdrawals were and however far it lagged (indexer/src/index.ts).
THEOREM AlwaysMirrored == IndexedSpec => []TablesMirrorTitle
<1>1. IndexedInit => Mirrored
  BY MirroredInit
<1>2. IInv /\ IInv' /\ Mirrored /\ [IndexedNext]_indexedVars => Mirrored'
  BY MirroredNext
<1>3. IInv /\ Mirrored => TablesMirrorTitle
  <2> SUFFICES ASSUME IInv, Mirrored, queue = << >> PROVE TablesMirrorTitle
    BY DEF TablesMirrorTitle
  <2>1. Shows(Tables, View)
    <3>1. PICK s \in Snapshots : Leads(Snapshots, After, queue, Tables, s) /\ Shows(s, View)
      BY DEF Mirrored
    <3>2. Tables = s
      BY <3>1, LeadsNowhere DEF Mirrored
    <3> QED BY <3>1, <3>2
  <2>2. Tables.row = titleState /\ Tables.refunds = refundTable /\ Tables.proceeds = proceedsTable
    BY DEF Tables
  <2> QED BY <2>1, <2>2, ViewFields DEF Shows, TablesMirrorTitle
<1> QED BY <1>1, <1>2, <1>3, IndexedImplements, AlwaysIInv, PTL DEF IndexedSpec

=============================================================================
