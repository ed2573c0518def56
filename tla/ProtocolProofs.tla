--------------------------- MODULE ProtocolProofs ---------------------------
(***************************************************************************)
(* Proofs about the composed acquisition cycle, for every dataset:          *)
(*   - it implements the records core: every transaction either is one of   *)
(*     the core's two operations, called with arguments the core admits, or *)
(*     leaves the core alone, so what is proved of the core holds here      *)
(*     (CoreHolds), and so does what is proved of the auctions              *)
(*     (AuctionsHold);                                                      *)
(*   - its four contracts agree about every Punk (ContractsAgree);          *)
(*   - the reserve of an open auction counts every attempt at its target    *)
(*     (ReserveCountsAttempts);                                             *)
(*   - a trait is collected exactly when its Proof exists, with the right   *)
(*     Punk, recipient and number (ProofPerCollectedTrait);                 *)
(*   - no amount of the four contracts underflows (TypeOK);                 *)
(*   - with an indexer beside it the cycle has no other behaviours          *)
(*     (IndexedIsProtocol), and once the indexer has handled every event its*)
(*     tables are the contracts' state (TablesMirrorRecords,                *)
(*     TablesMirrorAuctions).                                               *)
(***************************************************************************)
EXTENDS Indexer, Lemmas

\* What leaves the records alone is a stuttering step of the core.
LEMMA CoreUntouched == UNCHANGED recordsVars => UNCHANGED PC!vars
BY DEF PC!vars, recordsVars

\* Traits are those of the core.
LEMMA SameTraits == PC!Traits = Traits
BY DEF PC!Traits, Traits

\* An acquisition by Patron, in either form, is a recordAcquisition of the core.
LEMMA AcceptRecords ==
    ASSUME NEW p \in Punks, Accept(p)
    PROVE  PC!Record
<1>1. PICK t \in Traits, price \in Prices :
         \/ \E expected \in Prices : AcceptBid(p, t, price, expected)
         \/ \E caller \in Accounts : AcceptListing(p, t, price, caller)
  BY DEF Accept
<1>2. Len(acquisitions) < MaxAcquisitions
  BY DEF Accept
<1>3. \E acquirer, seller \in Accounts : PC!RecordAcquisition(p, t, acquirer, seller, price)
  <2>1. CASE \E expected \in Prices : AcceptBid(p, t, price, expected)
    BY <2>1 DEF AcceptBid, Acquire
  <2>2. CASE \E caller \in Accounts : AcceptListing(p, t, price, caller)
    BY <2>2 DEF AcceptListing, Acquire
  <2> QED BY <1>1, <2>1, <2>2
<1> QED BY <1>2, <1>3, SameTraits DEF PC!Record

\* The settlement of an auction, in either form, is a markCustody of the core.
LEMMA SettleMarks ==
    ASSUME NEW p \in Punks, Settle(p)
    PROVE  PC!Mark
<1>1. PC!MarkCustody(p, "Vaulted") \/ PC!MarkCustody(p, "ReturnedToMarket")
  BY DEF Settle, SettleUnsold, SettleCleared
<1> QED BY <1>1 DEF PC!Mark, PC!Custody

\* Every transaction is a step of the core, or leaves it alone.
LEMMA StepOfCore == [Next]_vars => [PC!Next]_(PC!vars)
<1>1. ASSUME NEW p \in Punks, Accept(p) PROVE PC!Next
  BY <1>1, AcceptRecords DEF PC!Next
<1>2. ASSUME NEW p \in Punks, Settle(p) PROVE PC!Next
  BY <1>2, SettleMarks DEF PC!Next
<1>3. ASSUME NEW p \in Punks, PlaceBid(p) PROVE UNCHANGED recordsVars
  BY <1>3 DEF PlaceBid
<1>4. WithdrawRefund => UNCHANGED recordsVars
  BY DEF WithdrawRefund
<1>5. FundLiveBid => UNCHANGED recordsVars
  BY DEF FundLiveBid
<1>6. EditAllowlist => UNCHANGED recordsVars
  BY DEF EditAllowlist
<1>7. Tick => UNCHANGED recordsVars
  BY DEF Tick
<1>8. UNCHANGED vars => UNCHANGED recordsVars
  BY DEF vars
<1>9. Next => PC!Next \/ UNCHANGED recordsVars
  BY <1>1, <1>2, <1>3, <1>4, <1>5, <1>6, <1>7 DEF Next
<1> QED BY <1>8, <1>9, CoreUntouched

\* The composed system drives the records core as its specification says.
THEOREM ImplementsRecordsCore == Spec => RecordsCore
<1>1. Init => PC!Init
  BY DEF Init
<1> QED BY <1>1, StepOfCore, PTL DEF Spec, RecordsCore, PC!Spec
-----------------------------------------------------------------------------
(***************************************************************************)
(* The inductive invariant behind ContractsAgree: the shapes of what the    *)
(* four contracts keep of a Punk, and rows that a live auction can read.    *)
(***************************************************************************)
Slot == [phase : {"none", "open", "settled"}, cost : Int, high : Int,
         bidder : Accounts \cup {NoAccount}, left : Int, reserve : Int,
         target : Traits \cup {NoAccount}]

Shapes ==
    /\ custody \in [Punks -> PC!Custody]
    /\ acquisitions \in Seq(PC!Acquisition)
    /\ acquisitionIndexOf \in [Punks -> Nat]
    /\ attemptCount \in [Traits -> Nat]
    /\ sales \in [Punks -> Slot]
    /\ punkOwner \in [Punks -> Accounts \cup {Module, Vault}]
    /\ isLocked \subseteq Punks

\* The latest row of a Punk in auction is a row of the log.
RowsExist ==
    \A p \in Punks : custody[p] = "InReturnAuction" =>
        acquisitionIndexOf[p] \in 1 .. Len(acquisitions)

IInv == Shapes /\ RowsExist /\ ContractsAgree

\* At first no Punk is in auction, locked or recorded.
LEMMA IInvInit == Init => IInv
<1> SUFFICES ASSUME Init PROVE IInv
  OBVIOUS
<1>1. Shapes
  BY DEF Init, PC!Init, RA!Init, PV!Init, Shapes, Slot, PC!Custody, RA!EmptySlot, Traits,
         PC!Traits
<1>2. RowsExist
  BY DEF Init, PC!Init, RowsExist
<1>3. ContractsAgree
  BY AddressAssumption DEF Init, PC!Init, RA!Init, PV!Init, ContractsAgree, RA!Open, RA!EmptySlot
<1> QED BY <1>1, <1>2, <1>3 DEF IInv

\* What an acquisition does to the state the invariant is about.
LEMMA AcquireKeeps ==
    ASSUME IInv, NEW p \in Punks, NEW t \in Traits, NEW cost \in Prices,
           NEW a \in Accounts, NEW seller \in Accounts,
           Acquire(p, t, cost, a, seller), punkOwner[p] \in Accounts
    PROVE  IInv'
<1> DEFINE row == [punk |-> p, target |-> t, acquirer |-> a, seller |-> seller,
                   price |-> cost, custody |-> "InReturnAuction"]
           slot == [phase |-> "open", cost |-> cost, high |-> 0, bidder |-> NoAccount,
                    left |-> Duration, reserve |-> RA!ReserveFor(cost, attemptCount[t]),
                    target |-> t]
<1>1. /\ sales' = [sales EXCEPT ![p] = slot]
      /\ punkOwner' = [punkOwner EXCEPT ![p] = Module]
      /\ isLocked' = isLocked
      /\ attemptCount' = [attemptCount EXCEPT ![t] = @ + 1]
      /\ acquisitions' = Append(acquisitions, row)
      /\ acquisitionIndexOf' = [acquisitionIndexOf EXCEPT ![p] = Len(acquisitions')]
      /\ custody' = [custody EXCEPT ![p] = "InReturnAuction"]
      /\ custody[p] \in {"None", "ReturnedToMarket"}
  BY DEF Acquire, RA!StartSale, PC!RecordAcquisition, PC!Acquirable, vaultVars
<1>2. row \in PC!Acquisition
  BY SameTraits DEF PC!Acquisition, PC!Custody
<1>3. slot \in Slot
  <2>1. attemptCount[t] \in Int /\ cost \in Int
    BY ProtocolAssumption DEF IInv, Shapes
  <2>2. RA!ReserveFor(cost, attemptCount[t]) \in Int
    BY <2>1 DEF RA!ReserveFor
  <2> QED BY <2>1, <2>2, ProtocolAssumption DEF Slot
<1>4. /\ acquisitions' \in Seq(PC!Acquisition)
      /\ Len(acquisitions') = Len(acquisitions) + 1
      /\ acquisitions'[Len(acquisitions')] = row
      /\ \A i \in 1 .. Len(acquisitions) : acquisitions'[i] = acquisitions[i]
      /\ Len(acquisitions) \in Nat
  BY <1>1, <1>2 DEF IInv, Shapes
<1>5. Shapes'
  BY <1>1, <1>3, <1>4 DEF IInv, Shapes, PC!Custody
<1>6. RowsExist'
  BY <1>1, <1>4 DEF IInv, Shapes, RowsExist
<1>7. ContractsAgree'
  <2> SUFFICES ASSUME NEW q \in Punks
               PROVE  /\ custody'[q] = "InReturnAuction" <=> RA!Open(q)'
                      /\ RA!Open(q)' <=> punkOwner'[q] = Module
                      /\ RA!Open(q)' => /\ sales'[q].target = PC!TargetOf(q)'
                                        /\ sales'[q].cost = PC!RowOf(q)'.price
                      /\ custody'[q] = "Vaulted" <=> punkOwner'[q] = Vault
                      /\ custody'[q] = "Vaulted" <=> q \in isLocked'
    BY DEF ContractsAgree
  <2>1. CASE q = p
    <3>1. /\ custody'[p] = "InReturnAuction" /\ RA!Open(p)' /\ punkOwner'[p] = Module
          /\ p \notin isLocked'
      BY <1>1 DEF IInv, Shapes, ContractsAgree, RA!Open
    <3>2. PC!RowOf(p)' = row /\ sales'[p] = slot
      BY <1>1, <1>4 DEF IInv, Shapes, PC!RowOf
    <3> QED BY <2>1, <3>1, <3>2, AddressAssumption DEF PC!TargetOf
  <2>2. CASE q # p
    <3>1. /\ custody'[q] = custody[q] /\ sales'[q] = sales[q]
          /\ punkOwner'[q] = punkOwner[q] /\ isLocked' = isLocked
      BY <1>1, <2>2 DEF IInv, Shapes
    <3>2. RA!Open(q) => PC!RowOf(q)' = PC!RowOf(q)
      BY <1>1, <1>4, <2>2 DEF IInv, Shapes, RowsExist, ContractsAgree, PC!RowOf
    <3> QED BY <3>1, <3>2 DEF IInv, ContractsAgree, RA!Open, PC!TargetOf
  <2> QED BY <2>1, <2>2
<1> QED BY <1>5, <1>6, <1>7 DEF IInv

\* An accepted bid or listing is an acquisition, paid to the owner of the Punk.
LEMMA AcceptKeeps ==
    ASSUME IInv, NEW p \in Punks, Accept(p)
    PROVE  IInv'
<1>1. PICK t \in Traits, price \in Prices :
         \/ \E expected \in Prices : AcceptBid(p, t, price, expected)
         \/ \E caller \in Accounts : AcceptListing(p, t, price, caller)
  BY DEF Accept
<1>2. punkOwner[p] \in Accounts
  BY <1>1 DEF AcceptBid, AcceptListing
<1>3. \E a \in Accounts : Acquire(p, t, price, a, punkOwner[p])
  BY <1>1, <1>2 DEF AcceptBid, AcceptListing
<1> QED BY <1>2, <1>3, AcquireKeeps

\* What the contracts agree on of a slot are its phase, target and cost.
LEMMA SameSlotsAgree ==
    ASSUME ContractsAgree,
           UNCHANGED <<custody, acquisitions, acquisitionIndexOf, punkOwner, isLocked>>,
           \A q \in Punks : /\ sales'[q].phase = sales[q].phase
                            /\ sales'[q].target = sales[q].target
                            /\ sales'[q].cost = sales[q].cost
    PROVE  ContractsAgree'
<1> SUFFICES ASSUME NEW q \in Punks
             PROVE  /\ custody'[q] = "InReturnAuction" <=> RA!Open(q)'
                    /\ RA!Open(q)' <=> punkOwner'[q] = Module
                    /\ RA!Open(q)' => /\ sales'[q].target = PC!TargetOf(q)'
                                      /\ sales'[q].cost = PC!RowOf(q)'.price
                    /\ custody'[q] = "Vaulted" <=> punkOwner'[q] = Vault
                    /\ custody'[q] = "Vaulted" <=> q \in isLocked'
  BY DEF ContractsAgree
<1>1. PC!RowOf(q)' = PC!RowOf(q) /\ RA!Open(q)' = RA!Open(q)
  BY DEF PC!RowOf, RA!Open
<1> QED BY <1>1 DEF ContractsAgree, PC!TargetOf

\* A row whose custody is marked keeps its other fields.
LEMMA MarkedRow ==
    ASSUME NEW row \in PC!Acquisition, NEW c \in PC!Custody
    PROVE  /\ [row EXCEPT !.custody = c] \in PC!Acquisition
           /\ [row EXCEPT !.custody = c].target = row.target
           /\ [row EXCEPT !.custody = c].price = row.price
BY DEF PC!Acquisition

\* A bid changes nothing but the slot's bid, bidder and clock.
LEMMA BidSlots ==
    ASSUME IInv, NEW p \in Punks, PlaceBid(p)
    PROVE  /\ sales' \in [Punks -> Slot]
           /\ \A q \in Punks : /\ sales'[q].phase = sales[q].phase
                               /\ sales'[q].target = sales[q].target
                               /\ sales'[q].cost = sales[q].cost
                               /\ sales'[q].reserve = sales[q].reserve
           /\ UNCHANGED <<custody, acquisitions, acquisitionIndexOf, attemptCount,
                          punkOwner, isLocked, pendingTraitCount>>
<1>1. PICK a \in Accounts, value \in Bids, referrer \in Referrers \cup {NoAccount},
           pushed \in BOOLEAN : RA!PlaceBid(p, a, value, referrer, pushed)
  BY DEF PlaceBid
<1> DEFINE s == [sales[p] EXCEPT !.high = value, !.bidder = a,
                                 !.left = RA!LeftAfterBid(sales[p])]
<1>2. sales[p] \in Slot
  BY DEF IInv, Shapes
<1>3. sales' = [sales EXCEPT ![p] = s]
  BY <1>1, <1>2 DEF RA!PlaceBid, IInv, Shapes, Slot
<1>4. /\ s \in Slot /\ s.phase = sales[p].phase /\ s.target = sales[p].target
      /\ s.cost = sales[p].cost /\ s.reserve = sales[p].reserve
  <2>1. RA!LeftAfterBid(sales[p]) \in Int /\ value \in Int
    BY <1>2, ProtocolAssumption DEF Slot, RA!LeftAfterBid
  <2> QED BY <1>2, <2>1 DEF Slot
<1>5. UNCHANGED <<custody, acquisitions, acquisitionIndexOf, attemptCount, punkOwner,
                  isLocked, pendingTraitCount>>
  BY <1>1 DEF PlaceBid, RA!PlaceBid, recordsVars, vaultVars
<1> HIDE DEF s
<1> QED BY <1>3, <1>4, <1>5 DEF IInv, Shapes

\* So a bid preserves the invariant.
LEMMA BidKeeps ==
    ASSUME IInv, NEW p \in Punks, PlaceBid(p)
    PROVE  IInv'
BY BidSlots, SameSlotsAgree DEF IInv, Shapes, RowsExist

\* A settlement closes the slot, moves the Punk to owner `to' and its custody to
\* `outcome': the vault for a vaulted Punk, an account for a returned one.
LEMMA SettleKeeps ==
    ASSUME IInv, NEW p \in Punks, NEW outcome, NEW to,
           RA!Open(p), PC!MarkCustody(p, outcome),
           sales' = [sales EXCEPT ![p].phase = "settled"],
           punkOwner' = [punkOwner EXCEPT ![p] = to],
           \/ outcome = "Vaulted" /\ to = Vault /\ isLocked' = isLocked \cup {p}
           \/ outcome = "ReturnedToMarket" /\ to \in Accounts /\ isLocked' = isLocked
    PROVE  IInv'
<1> DEFINE i == acquisitionIndexOf[p]
<1>1. /\ custody' = [custody EXCEPT ![p] = outcome]
      /\ acquisitions' = [acquisitions EXCEPT ![i].custody = outcome]
      /\ UNCHANGED <<attemptCount, acquisitionIndexOf>>
      /\ custody[p] = "InReturnAuction"
  BY DEF PC!MarkCustody
<1>2. i \in 1 .. Len(acquisitions)
  BY <1>1 DEF IInv, RowsExist
<1>3. outcome \in PC!Custody
  BY DEF PC!Custody
<1>4. /\ acquisitions' \in Seq(PC!Acquisition)
      /\ Len(acquisitions') = Len(acquisitions)
      /\ \A j \in 1 .. Len(acquisitions) :
            /\ acquisitions'[j].target = acquisitions[j].target
            /\ acquisitions'[j].price = acquisitions[j].price
  <2>1. acquisitions[i] \in PC!Acquisition
    BY <1>2 DEF IInv, Shapes
  <2>2. /\ [acquisitions[i] EXCEPT !.custody = outcome] \in PC!Acquisition
        /\ [acquisitions[i] EXCEPT !.custody = outcome].target = acquisitions[i].target
        /\ [acquisitions[i] EXCEPT !.custody = outcome].price = acquisitions[i].price
    BY <1>3, <2>1, MarkedRow
  <2>3. acquisitions' = [acquisitions EXCEPT ![i] = [acquisitions[i] EXCEPT !.custody = outcome]]
    BY <1>1
  <2> QED BY <1>2, <2>2, <2>3 DEF IInv, Shapes
<1>5. /\ sales' \in [Punks -> Slot]
      /\ sales'[p].phase = "settled"
      /\ \A q \in Punks : /\ q # p => sales'[q] = sales[q]
                          /\ sales'[q].target = sales[q].target
                          /\ sales'[q].cost = sales[q].cost
                          /\ sales'[q].reserve = sales[q].reserve
  <2>1. sales \in [Punks -> Slot]
    BY DEF IInv, Shapes
  <2>2. /\ [sales[p] EXCEPT !.phase = "settled"] \in Slot
        /\ [sales[p] EXCEPT !.phase = "settled"].phase = "settled"
        /\ [sales[p] EXCEPT !.phase = "settled"].target = sales[p].target
        /\ [sales[p] EXCEPT !.phase = "settled"].cost = sales[p].cost
        /\ [sales[p] EXCEPT !.phase = "settled"].reserve = sales[p].reserve
    BY <2>1 DEF Slot
  <2> QED BY <2>1, <2>2
<1>6. Shapes'
  BY <1>1, <1>3, <1>4, <1>5 DEF IInv, Shapes
<1>7. RowsExist'
  BY <1>1, <1>4 DEF IInv, Shapes, RowsExist
<1>8. ContractsAgree'
  <2> SUFFICES ASSUME NEW q \in Punks
               PROVE  /\ custody'[q] = "InReturnAuction" <=> RA!Open(q)'
                      /\ RA!Open(q)' <=> punkOwner'[q] = Module
                      /\ RA!Open(q)' => /\ sales'[q].target = PC!TargetOf(q)'
                                        /\ sales'[q].cost = PC!RowOf(q)'.price
                      /\ custody'[q] = "Vaulted" <=> punkOwner'[q] = Vault
                      /\ custody'[q] = "Vaulted" <=> q \in isLocked'
    BY DEF ContractsAgree
  <2>1. CASE q = p
    <3>1. ~RA!Open(q)' /\ custody'[q] = outcome /\ punkOwner'[q] = to
      BY <1>1, <1>5, <2>1 DEF IInv, Shapes, RA!Open
    <3>2. q \notin isLocked
      BY <1>1, <2>1 DEF IInv, ContractsAgree
    <3> QED BY <2>1, <3>1, <3>2, AddressAssumption
  <2>2. CASE q # p
    <3>1. /\ custody'[q] = custody[q] /\ sales'[q] = sales[q]
          /\ punkOwner'[q] = punkOwner[q] /\ (q \in isLocked' <=> q \in isLocked)
      BY <1>1, <1>5, <2>2 DEF IInv, Shapes
    <3>2. RA!Open(q) => /\ PC!RowOf(q)'.target = PC!RowOf(q).target
                        /\ PC!RowOf(q)'.price = PC!RowOf(q).price
      BY <1>1, <1>4 DEF IInv, RowsExist, ContractsAgree, PC!RowOf
    <3> QED BY <3>1, <3>2 DEF IInv, ContractsAgree, RA!Open, PC!TargetOf
  <2> QED BY <2>1, <2>2
<1> QED BY <1>6, <1>7, <1>8 DEF IInv

\* Time only moves the clocks of the slots.
LEMMA TickSlots ==
    ASSUME IInv, Tick
    PROVE  /\ sales' \in [Punks -> Slot]
           /\ \A q \in Punks : /\ sales'[q].phase = sales[q].phase
                               /\ sales'[q].target = sales[q].target
                               /\ sales'[q].cost = sales[q].cost
                               /\ sales'[q].reserve = sales[q].reserve
           /\ UNCHANGED <<custody, acquisitions, acquisitionIndexOf, attemptCount,
                          punkOwner, isLocked, pendingTraitCount>>
<1>1. /\ sales' = [p \in Punks |->
              [sales[p] EXCEPT !.left = IF @ > 0 THEN @ - 1 ELSE 0]]
      /\ UNCHANGED <<custody, acquisitions, acquisitionIndexOf, attemptCount, punkOwner,
                     isLocked, pendingTraitCount>>
  BY DEF Tick, RA!Elapse, recordsVars, vaultVars
<1>2. \A q \in Punks : sales[q] \in Slot
  BY DEF IInv, Shapes
<1> QED BY <1>1, <1>2 DEF Slot

\* So the passing of time preserves the invariant.
LEMMA TickKeeps ==
    ASSUME IInv, Tick
    PROVE  IInv'
BY TickSlots, SameSlotsAgree DEF IInv, Shapes, RowsExist

\* Every transaction preserves the invariant.
LEMMA IInvNext == IInv /\ [Next]_vars => IInv'
<1> SUFFICES ASSUME IInv, [Next]_vars PROVE IInv'
  OBVIOUS
<1> DEFINE Watched == <<custody, acquisitions, acquisitionIndexOf, attemptCount, sales,
                        punkOwner, isLocked>>
<1>1. ASSUME NEW p \in Punks, Accept(p) PROVE IInv'
  BY <1>1, AcceptKeeps
<1>2. ASSUME NEW p \in Punks, PlaceBid(p) PROVE IInv'
  BY <1>2, BidKeeps
<1>3. ASSUME NEW p \in Punks, SettleUnsold(p) PROVE IInv'
  <2>1. /\ RA!Open(p) /\ PC!MarkCustody(p, "Vaulted")
        /\ sales' = [sales EXCEPT ![p].phase = "settled"]
        /\ punkOwner' = [punkOwner EXCEPT ![p] = Vault]
        /\ isLocked' = isLocked \cup {p}
    BY <1>3 DEF SettleUnsold, RA!SettleUnsold, RA!Settleable, RA!TransferPunk, PV!ReceivePunk
  <2> QED BY <2>1, SettleKeeps
<1>4. ASSUME NEW p \in Punks, SettleCleared(p) PROVE IInv'
  <2>1. /\ RA!Open(p) /\ PC!MarkCustody(p, "ReturnedToMarket")
        /\ sales' = [sales EXCEPT ![p].phase = "settled"]
        /\ punkOwner' = [punkOwner EXCEPT ![p] = sales[p].bidder]
        /\ sales[p].bidder # NoAccount
        /\ isLocked' = isLocked
    BY <1>4 DEF SettleCleared, RA!SettleCleared, RA!Settleable, RA!TransferPunk, vaultVars
  <2>2. sales[p].bidder \in Accounts
    BY <2>1 DEF IInv, Shapes, Slot
  <2> QED BY <2>1, <2>2, SettleKeeps
<1>5. UNCHANGED Watched => IInv'
  BY DEF IInv, Shapes, RowsExist, ContractsAgree, RA!Open, PC!TargetOf, PC!RowOf
<1>6. CASE WithdrawRefund
  BY <1>5, <1>6 DEF WithdrawRefund, RA!WithdrawRefund, recordsVars, vaultVars
<1>7. CASE FundLiveBid
  BY <1>5, <1>7 DEF FundLiveBid, recordsVars, auctionVars, vaultVars
<1>8. CASE EditAllowlist
  BY <1>5, <1>8 DEF EditAllowlist, recordsVars, auctionVars, vaultVars
<1>9. CASE Tick
  BY <1>9, TickKeeps
<1>10. CASE UNCHANGED vars
  BY <1>5, <1>10 DEF vars, recordsVars, auctionVars, vaultVars
<1> QED BY <1>1, <1>2, <1>3, <1>4, <1>6, <1>7, <1>8, <1>9, <1>10 DEF Next, Settle

\* The invariant holds in every behaviour.
LEMMA AlwaysIInv == Spec => []IInv
BY IInvInit, IInvNext, PTL DEF Spec

\* The four contracts agree about every Punk, for any set of Punks and accounts:
\* custody, auction slot, market owner and vault move together in every call.
THEOREM AlwaysAgree == Spec => []ContractsAgree
<1>1. IInv => ContractsAgree
  BY DEF IInv
<1> QED BY <1>1, AlwaysIInv, PTL

-----------------------------------------------------------------------------
(***************************************************************************)
(* The reserve: while an auction is open nobody can attempt its target      *)
(* again, because the auction holds the only claim on it.                   *)
(***************************************************************************)
Claims ==
    /\ pendingTraitCount \in [Traits -> Nat]
    /\ \A p \in Punks : RA!Open(p) =>
          sales[p].target \in Traits /\ pendingTraitCount[sales[p].target] # 0
    /\ \A p, q \in Punks :
          RA!Open(p) /\ RA!Open(q) /\ sales[p].target = sales[q].target => p = q

ReserveInv == IInv /\ Claims /\ ReserveCountsAttempts

\* A hundredth, rounded up.
LEMMA RoundsUp ==
    ASSUME NEW x \in Nat
    PROVE  100 * ((x + 99) \div 100) >= x /\ 100 * ((x + 99) \div 100 - 1) < x
OBVIOUS

\* An acquisition takes the only claim on its target, and its reserve counts
\* the attempts before it and itself.
LEMMA AcquireReserve ==
    ASSUME ReserveInv, NEW p \in Punks, NEW t \in Traits, NEW cost \in Prices,
           NEW a \in Accounts, NEW seller \in Accounts,
           Acquire(p, t, cost, a, seller)
    PROVE  Claims' /\ ReserveCountsAttempts'
<1>1. /\ pendingTraitCount' = [pendingTraitCount EXCEPT ![t] = @ + 1]
      /\ attemptCount' = [attemptCount EXCEPT ![t] = @ + 1]
      /\ pendingTraitCount[t] = 0
  BY DEF Acquire, PC!RecordAcquisition, PC!TargetGuard
<1>2. /\ sales'[p].phase = "open" /\ sales'[p].target = t /\ sales'[p].cost = cost
      /\ sales'[p].reserve = RA!ReserveFor(cost, attemptCount[t])
      /\ \A q \in Punks : q # p => sales'[q] = sales[q]
  BY DEF Acquire, RA!StartSale, ReserveInv, IInv, Shapes
<1>3. \A q \in Punks : q # p /\ RA!Open(q)' =>
          RA!Open(q) /\ sales'[q] = sales[q] /\ sales[q].target \in Traits \ {t}
  BY <1>1, <1>2 DEF ReserveInv, Claims, RA!Open
<1>4. Claims'
  BY <1>1, <1>2, <1>3 DEF ReserveInv, Claims, RA!Open
<1>5. ReserveCountsAttempts'
  <2>1. /\ 100 * sales'[p].reserve >= sales'[p].cost * (100 + attemptCount'[t])
        /\ 100 * (sales'[p].reserve - 1) < sales'[p].cost * (100 + attemptCount'[t])
    <3>1. cost \in Nat /\ attemptCount[t] \in Nat /\ attemptCount'[t] = attemptCount[t] + 1
      BY <1>1, ProtocolAssumption DEF ReserveInv, IInv, Shapes
    <3>2. cost * (101 + attemptCount[t]) \in Nat
      BY <3>1
    <3>3. cost * (100 + attemptCount'[t]) = cost * (101 + attemptCount[t])
      BY <3>1
    <3>4. sales'[p].reserve = (cost * (101 + attemptCount[t]) + 99) \div 100
      BY <1>2 DEF RA!ReserveFor
    <3> QED BY <1>2, <3>2, <3>3, <3>4, RoundsUp
  <2>2. \A q \in Punks : q # p /\ RA!Open(q)' =>
            attemptCount'[sales'[q].target] = attemptCount[sales[q].target]
    BY <1>1, <1>3 DEF ReserveInv, IInv, Shapes
  <2> QED BY <1>2, <1>3, <2>1, <2>2 DEF ReserveInv, ReserveCountsAttempts
<1> QED BY <1>4, <1>5

\* A settlement gives up the claim of its own auction and of no other.
LEMMA SettleReserve ==
    ASSUME ReserveInv, NEW p \in Punks, NEW outcome,
           RA!Open(p), PC!MarkCustody(p, outcome),
           sales' = [sales EXCEPT ![p].phase = "settled"]
    PROVE  Claims' /\ ReserveCountsAttempts'
<1> DEFINE t == sales[p].target
<1>1. t \in Traits /\ t = PC!TargetOf(p)
  BY DEF ReserveInv, Claims, IInv, ContractsAgree
<1>2. /\ pendingTraitCount' = [pendingTraitCount EXCEPT ![t] = IF @ > 0 THEN @ - 1 ELSE @]
      /\ attemptCount' = attemptCount
  BY <1>1 DEF PC!MarkCustody, PC!ReleaseClaim
<1>3. /\ ~RA!Open(p)'
      /\ \A q \in Punks : q # p => sales'[q] = sales[q]
  BY DEF ReserveInv, IInv, Shapes, Slot, RA!Open
<1>4. \A q \in Punks : RA!Open(q)' =>
          RA!Open(q) /\ sales'[q] = sales[q] /\ sales[q].target \in Traits \ {t}
  BY <1>3 DEF ReserveInv, Claims, RA!Open
<1>5. Claims'
  BY <1>1, <1>2, <1>4 DEF ReserveInv, Claims
<1>6. ReserveCountsAttempts'
  BY <1>2, <1>4 DEF ReserveInv, ReserveCountsAttempts
<1> QED BY <1>5, <1>6

\* What the reserve depends on of a slot are its phase, target, cost and reserve.
LEMMA SameSlotsReserve ==
    ASSUME Claims, ReserveCountsAttempts, UNCHANGED <<pendingTraitCount, attemptCount>>,
           \A q \in Punks : /\ sales'[q].phase = sales[q].phase
                            /\ sales'[q].target = sales[q].target
                            /\ sales'[q].cost = sales[q].cost
                            /\ sales'[q].reserve = sales[q].reserve
    PROVE  Claims' /\ ReserveCountsAttempts'
<1>1. \A q \in Punks : RA!Open(q)' <=> RA!Open(q)
  BY DEF RA!Open
<1> QED BY <1>1 DEF Claims, ReserveCountsAttempts

\* At first there are no claims and no auctions.
LEMMA ReserveInvInit == Init => ReserveInv
<1> SUFFICES ASSUME Init PROVE ReserveInv
  OBVIOUS
<1>1. \A p \in Punks : ~RA!Open(p)
  BY DEF Init, RA!Init, RA!EmptySlot, RA!Open
<1>2. pendingTraitCount \in [Traits -> Nat]
  BY SameTraits DEF Init, PC!Init
<1> QED BY <1>1, <1>2, IInvInit DEF ReserveInv, Claims, ReserveCountsAttempts

\* Every transaction preserves claims and reserves.
LEMMA ReserveInvNext == ReserveInv /\ [Next]_vars => ReserveInv'
<1> SUFFICES ASSUME ReserveInv, [Next]_vars PROVE Claims' /\ ReserveCountsAttempts'
  BY IInvNext DEF ReserveInv
<1>1. ASSUME NEW p \in Punks, Accept(p) PROVE Claims' /\ ReserveCountsAttempts'
  <2>1. \E t \in Traits, price \in Prices, a, seller \in Accounts :
            Acquire(p, t, price, a, seller)
    BY <1>1 DEF Accept, AcceptBid, AcceptListing
  <2> QED BY <2>1, AcquireReserve
<1>2. ASSUME NEW p \in Punks, PlaceBid(p) PROVE Claims' /\ ReserveCountsAttempts'
  BY <1>2, BidSlots, SameSlotsReserve DEF ReserveInv
<1>3. ASSUME NEW p \in Punks, Settle(p) PROVE Claims' /\ ReserveCountsAttempts'
  <2>1. \E outcome \in PC!Custody : PC!MarkCustody(p, outcome)
    BY <1>3 DEF Settle, SettleUnsold, SettleCleared, PC!Custody
  <2>2. RA!Open(p) /\ sales' = [sales EXCEPT ![p].phase = "settled"]
    BY <1>3 DEF Settle, SettleUnsold, SettleCleared, RA!SettleUnsold, RA!SettleCleared,
                RA!Settleable
  <2> QED BY <2>1, <2>2, SettleReserve
<1>4. CASE Tick
  BY <1>4, TickSlots, SameSlotsReserve DEF ReserveInv
<1>5. UNCHANGED <<pendingTraitCount, attemptCount, sales>> => Claims' /\ ReserveCountsAttempts'
  BY SameSlotsReserve DEF ReserveInv
<1>6. CASE WithdrawRefund
  BY <1>5, <1>6 DEF WithdrawRefund, RA!WithdrawRefund, recordsVars
<1>7. CASE FundLiveBid
  BY <1>5, <1>7 DEF FundLiveBid, recordsVars, auctionVars
<1>8. CASE EditAllowlist
  BY <1>5, <1>8 DEF EditAllowlist, recordsVars, auctionVars
<1>9. CASE UNCHANGED vars
  BY <1>5, <1>9 DEF vars, recordsVars, auctionVars
<1> QED BY <1>1, <1>2, <1>3, <1>4, <1>6, <1>7, <1>8, <1>9 DEF Next

\* An open auction asks for the premium of every attempt at its target so far,
\* whatever the costs: no later acquisition can raise the count under it.
THEOREM AlwaysReserve == Spec => []ReserveCountsAttempts
<1>1. ReserveInv => ReserveCountsAttempts
  BY DEF ReserveInv
<1> QED BY <1>1, ReserveInvInit, ReserveInvNext, PTL DEF Spec
-----------------------------------------------------------------------------
(***************************************************************************)
(* What is proved of two components holds of them in the cycle.  Core and   *)
(* Auctions are the modules of those proofs, about the variables here; what *)
(* they assume of their constants is assumed here too.                      *)
(***************************************************************************)
Core == INSTANCE PermanentCollectionProofs
Auctions == INSTANCE ReturnAuctionProofs WITH
    Costs <- Prices, MaxAttempts <- MaxAcquisitions

\* The dataset is one that the records core admits.
LEMMA CoreAssumed == Core!DatasetAssumption /\ Core!SoleCarrierAssumption
BY CoreAssumption
   DEF PC!DatasetAssumption, PC!SoleCarrierAssumption, PC!Traits,
       Core!DatasetAssumption, Core!SoleCarrierAssumption, Core!Traits

\* Times, costs and addresses are ones that the auctions admit.
LEMMA AuctionsAssumed ==
    Auctions!AuctionAssumption /\ Auctions!AddressAssumption /\ Auctions!FiniteAssumption
BY AuctionAssumption, AddressAssumption, FiniteAssumption
   DEF RA!AuctionAssumption, IsFiniteSet, Auctions!IsFiniteSet,
       Auctions!AuctionAssumption, Auctions!AddressAssumption, Auctions!FiniteAssumption

\* The cycle implements the specification that the core's proofs are about.
LEMMA DrivesCore == Spec => Core!Spec
<1>1. PC!Init => Core!Init
  BY DEF PC!Init, Core!Init, PC!Traits, Core!Traits
<1>2. [PC!Next]_(PC!vars) => [Core!Next]_(Core!vars)
  BY DEF PC!Next, Core!Next, PC!vars, Core!vars, PC!Record, Core!Record, PC!Mark, Core!Mark,
         PC!RecordAcquisition, Core!RecordAcquisition, PC!MarkCustody, Core!MarkCustody,
         PC!Traits, Core!Traits, PC!Custody, Core!Custody, PC!Acquirable, Core!Acquirable,
         PC!TargetGuard, Core!TargetGuard, PC!SoleCarrierGuard, Core!SoleCarrierGuard,
         PC!IsCanonicalTarget, Core!IsCanonicalTarget, PC!EligibleTraits,
         Core!EligibleTraits, PC!Rarer, Core!Rarer, PC!ReleaseClaim, Core!ReleaseClaim,
         PC!TargetOf, Core!TargetOf, PC!RowOf, Core!RowOf, PC!Collect, Core!Collect
<1>3. PC!Spec => Core!Spec
  BY <1>1, <1>2, PTL DEF PC!Spec, Core!Spec
<1> QED BY <1>3, ImplementsRecordsCore, PTL DEF RecordsCore

\* The invariant of the records core holds in the cycle.
LEMMA AlwaysCore == Spec => []Core!IInv
<1>1. Core!Spec => []Core!IInv
  BY CoreAssumed, Core!Invariance
<1> QED BY <1>1, DrivesCore, PTL

AuctionsInv == Auctions!IInv /\ Auctions!MoneyTypes

\* A bid of the cycle is a bid of the auctions.
LEMMA BidIsBid ==
    ASSUME NEW p \in Punks, PlaceBid(p)
    PROVE  Auctions!Bid(p)
<1>1. PICK a \in Accounts, value \in Bids, referrer \in Referrers \cup {NoAccount},
           pushed \in BOOLEAN : RA!PlaceBid(p, a, value, referrer, pushed)
  BY DEF PlaceBid
<1>2. Auctions!Live(p) = RA!Live(p)
  BY DEF RA!Live, RA!Open, Auctions!Live, Auctions!Open
<1>3. Auctions!MinBid(sales[p]) = RA!MinBid(sales[p])
  BY DEF RA!MinBid, Auctions!MinBid, RA!MinBidIncrementBps, RA!BpsDenom,
         Auctions!MinBidIncrementBps, Auctions!BpsDenom
<1>4. Auctions!LeftAfterBid(sales[p]) = RA!LeftAfterBid(sales[p])
  BY Zenon DEF RA!LeftAfterBid, Auctions!LeftAfterBid
<1>5. ASSUME NEW funds, NEW b, NEW x, NEW y
      PROVE  Auctions!Refund(funds, b, x, y) = RA!Refund(funds, b, x, y)
  BY Zenon DEF RA!Refund, Auctions!Refund
<1>6. Auctions!PlaceBid(p, a, value, referrer, pushed)
  BY <1>1, <1>2, <1>3, <1>4, <1>5, Zenon DEF RA!PlaceBid, Auctions!PlaceBid
<1> QED BY <1>6, ProtocolAssumption DEF Auctions!Bid

\* A settlement of the cycle is a settlement of the auctions.
LEMMA SettleIsSettle ==
    ASSUME NEW p \in Punks, Settle(p)
    PROVE  Auctions!Settle(p)
<1>1. Auctions!Settleable(p) = RA!Settleable(p)
  BY DEF RA!Settleable, RA!Open, Auctions!Settleable, Auctions!Open
<1>2. /\ \A to : Auctions!TransferPunk(p, to) = RA!TransferPunk(p, to)
      /\ Auctions!Sweep = RA!Sweep
  BY Zenon DEF Auctions!TransferPunk, RA!TransferPunk, Auctions!Sweep, RA!Sweep
<1>3. RA!SettleUnsold(p) => Auctions!SettleUnsold(p)
  BY <1>1, <1>2, Zenon DEF RA!SettleUnsold, Auctions!SettleUnsold
<1>4. ASSUME NEW s
      PROVE  /\ Auctions!LiveBidShare(s) = RA!LiveBidShare(s)
             /\ Auctions!BurnShare(s) = RA!BurnShare(s)
             /\ Auctions!VaultBurnFromCost(s) = RA!VaultBurnFromCost(s)
             /\ Auctions!Premium(s) = RA!Premium(s)
  BY DEF Auctions!LiveBidShare, RA!LiveBidShare, Auctions!BurnShare, RA!BurnShare,
         Auctions!VaultBurnFromCost, RA!VaultBurnFromCost, Auctions!Premium, RA!Premium,
         Auctions!ClearedBidBps, RA!ClearedBidBps, Auctions!ClearedVaultBurnBps,
         RA!ClearedVaultBurnBps, Auctions!BpsDenom, RA!BpsDenom
<1>5. ASSUME NEW accepted
      PROVE  Auctions!ReferrerShare(p, accepted) = RA!ReferrerShare(p, accepted)
  BY <1>4 DEF Auctions!ReferrerShare, RA!ReferrerShare, Auctions!ReferrerPremiumBps,
              RA!ReferrerPremiumBps, Auctions!BpsDenom, RA!BpsDenom
<1>6. ASSUME NEW accepted \in BOOLEAN, RA!SettleCleared(p, accepted)
      PROVE  Auctions!SettleCleared(p, accepted)
  <2> DEFINE toReferrer == RA!ReferrerShare(p, accepted)
  <2>1. received' = [received EXCEPT
            !["adapter"] = @ + Auctions!LiveBidShare(sales[p]),
            !["burner"] = @ + Auctions!BurnShare(sales[p]),
            !["vaultBurnPool"] = @ + Auctions!VaultBurnFromCost(sales[p])
                                   + Auctions!Premium(sales[p]) - toReferrer]
    BY <1>4, <1>6, Zenon DEF RA!SettleCleared
  <2>2. wallet' = IF toReferrer > 0
                  THEN [wallet EXCEPT ![referrerOfHighBid[p]] = @ + toReferrer]
                  ELSE wallet
    BY <1>6, Zenon DEF RA!SettleCleared
  <2>3. /\ Auctions!Settleable(p)
        /\ sales[p].bidder # NoAccount
        /\ eth >= sales[p].high /\ sales[p].high >= sales[p].cost
        /\ sales' = [sales EXCEPT ![p].phase = "settled"]
        /\ Auctions!TransferPunk(p, sales[p].bidder)
        /\ eth' = eth - sales[p].high
        /\ UNCHANGED <<pendingRefund, referrerOfHighBid>>
    BY <1>1, <1>2, <1>6 DEF RA!SettleCleared
  <2>4. toReferrer = Auctions!ReferrerShare(p, accepted)
    BY <1>5
  <2> HIDE DEF toReferrer
  <2> QED BY <2>1, <2>2, <2>3, <2>4, Zenon DEF Auctions!SettleCleared
<1> QED BY <1>3, <1>6 DEF Settle, SettleUnsold, SettleCleared, Auctions!Settle

\* Time passes for the auctions, or all their clocks have stopped.
LEMMA TickIsTick ==
    ASSUME AuctionsInv, Tick
    PROVE  Auctions!Tick \/ UNCHANGED Auctions!vars
<1>1. /\ sales' = [p \in Punks |->
              [sales[p] EXCEPT !.left = IF @ > 0 THEN @ - 1 ELSE 0]]
      /\ UNCHANGED <<pendingRefund, referrerOfHighBid, punkOwner, eth, wallet, received>>
  BY DEF Tick, RA!Elapse
<1>2. CASE \E p \in Punks : sales[p].left > 0
  BY <1>1, <1>2 DEF Auctions!Tick, Auctions!Elapse
<1>3. CASE \A p \in Punks : ~(sales[p].left > 0)
  <2>1. \A p \in Punks : sales[p] \in Auctions!Sale
    BY DEF AuctionsInv, Auctions!IInv, Auctions!SlotTypes
  <2>2. \A p \in Punks : sales[p].left = 0 /\ [sales[p] EXCEPT !.left = 0] = sales[p]
    BY <1>3, <2>1 DEF Auctions!Sale
  <2>3. sales' = [p \in Punks |-> sales[p]]
    BY <1>1, <1>3, <2>2
  <2>4. sales' = sales
    BY <2>3 DEF AuctionsInv, Auctions!IInv, Auctions!SlotTypes
  <2> QED BY <1>1, <2>4 DEF Auctions!vars
<1> QED BY <1>2, <1>3

-----------------------------------------------------------------------------
(***************************************************************************)
(* Type correctness, component by component.                                *)
(***************************************************************************)
\* The finder fee is a share of the live bid, capped.
LEMMA FeeType ==
    ASSUME PA!TypeOK
    PROVE  PA!FinderFee \in Nat
BY ProtocolAssumption DEF PA!TypeOK, PA!FinderFee, PA!FinderFeeCapBps, PA!BpsDenom

\* A payout is covered by the bid and by the balance.
LEMMA PayOutTypes ==
    ASSUME PA!TypeOK, NEW value \in Nat, PA!PayOut(value), UNCHANGED allowlistVars
    PROVE  PA!TypeOK'
BY DEF PA!TypeOK, PA!PayOut, allowlistVars

\* Every transaction keeps the amounts of the hub natural numbers.
LEMMA HubStep == PA!TypeOK /\ [Next]_vars => PA!TypeOK'
<1> SUFFICES ASSUME PA!TypeOK, [Next]_vars PROVE PA!TypeOK'
  OBVIOUS
<1>1. ASSUME NEW p \in Punks, Accept(p) PROVE PA!TypeOK'
  <2>1. PICK t \in Traits, price \in Prices :
           \/ \E expected \in Prices : AcceptBid(p, t, price, expected)
           \/ \E caller \in Accounts : AcceptListing(p, t, price, caller)
    BY <1>1 DEF Accept
  <2>2. price \in Nat /\ price + PA!FinderFee \in Nat
    BY FeeType, ProtocolAssumption
  <2>3. UNCHANGED allowlistVars /\ (PA!PayOut(price) \/ PA!PayOut(price + PA!FinderFee))
    BY <2>1 DEF AcceptBid, AcceptListing
  <2> QED BY <2>2, <2>3, PayOutTypes
<1>2. CASE FundLiveBid
  BY <1>2, ProtocolAssumption DEF FundLiveBid, PA!Receive, PA!TypeOK, allowlistVars
<1>3. CASE EditAllowlist
  <2>1. PICK a \in AllowlistCandidates : PA!AddAllowedSeller(a) \/ PA!RemoveAllowedSeller(a)
    BY <1>3 DEF EditAllowlist
  <2> QED BY <2>1, ProtocolAssumption
          DEF PA!AddAllowedSeller, PA!RemoveAllowedSeller, PA!TypeOK
<1>4. CASE Tick
  BY <1>4 DEF Tick, PA!Elapse, PA!TypeOK
<1>5. UNCHANGED patronVars => PA!TypeOK'
  BY DEF patronVars, PA!TypeOK
<1>6. ASSUME NEW p \in Punks, PlaceBid(p) \/ Settle(p) PROVE PA!TypeOK'
  BY <1>5, <1>6 DEF PlaceBid, Settle, SettleUnsold, SettleCleared
<1>7. CASE WithdrawRefund
  BY <1>5, <1>7 DEF WithdrawRefund
<1>8. CASE UNCHANGED vars
  BY <1>5, <1>8 DEF vars
<1> QED BY <1>1, <1>2, <1>3, <1>4, <1>6, <1>7, <1>8 DEF Next

\* An acquisition opens a slot of its type and pays the owner and the finder.
LEMMA AcceptAuctions ==
    ASSUME AuctionsInv, Core!IInv, PA!TypeOK, NEW p \in Punks, Accept(p)
    PROVE  AuctionsInv'
<1>1. PICK t \in Traits, price \in Prices :
         \/ \E expected \in Prices : AcceptBid(p, t, price, expected)
         \/ \E caller \in Accounts : AcceptListing(p, t, price, caller)
  BY DEF Accept
<1>2. /\ price \in Nat /\ PA!FinderFee \in Nat /\ attemptCount[t] \in Nat
  BY FeeType, ProtocolAssumption DEF Core!IInv, Core!TypeOK, Core!Traits, Traits
<1>3. /\ punkOwner' = [punkOwner EXCEPT ![p] = Module]
      /\ RA!StartSale(p, price, t, attemptCount[t])
  BY <1>1 DEF AcceptBid, AcceptListing, Acquire
<1>4. Auctions!StartSale(p, price, t, attemptCount[t])
  <2>1. Auctions!ReserveFor(price, attemptCount[t]) = RA!ReserveFor(price, attemptCount[t])
    BY DEF Auctions!ReserveFor, RA!ReserveFor
  <2> QED BY <1>3, <2>1, Zenon DEF RA!StartSale, Auctions!StartSale, RA!Open, Auctions!Open
<1>5. Auctions!IInv'
  BY <1>2, <1>3, <1>4, AuctionsAssumed, Auctions!StartKeeps DEF AuctionsInv
<1>6. wallet' \in [Accounts -> Nat]
  <2>1. wallet \in [Accounts -> Nat]
    BY DEF AuctionsInv, Auctions!MoneyTypes
  <2>2. CASE \E expected \in Prices : AcceptBid(p, t, price, expected)
    BY <1>2, <2>1, <2>2 DEF AcceptBid
  <2>3. CASE \E caller \in Accounts : AcceptListing(p, t, price, caller)
    BY <1>2, <2>1, <2>3 DEF AcceptListing
  <2> QED BY <1>1, <2>2, <2>3
<1>7. Auctions!MoneyTypes'
  BY <1>3, <1>6 DEF RA!StartSale, AuctionsInv, Auctions!MoneyTypes
<1> QED BY <1>5, <1>7 DEF AuctionsInv

\* Every transaction keeps the invariant of the auctions.
LEMMA AuctionsStep ==
    ASSUME AuctionsInv, Core!IInv, PA!TypeOK, [Next]_vars
    PROVE  AuctionsInv'
<1>1. [Auctions!Next]_(Auctions!vars) => AuctionsInv'
  BY AuctionsAssumed, Auctions!IInvNext, Auctions!StepKeepsMoney DEF AuctionsInv
<1>2. ASSUME NEW p \in Punks, Accept(p) PROVE AuctionsInv'
  BY <1>2, AcceptAuctions
<1>3. ASSUME NEW p \in Punks, PlaceBid(p) PROVE AuctionsInv'
  BY <1>1, <1>3, BidIsBid DEF Auctions!Next
<1>4. ASSUME NEW p \in Punks, Settle(p) PROVE AuctionsInv'
  BY <1>1, <1>4, SettleIsSettle DEF Auctions!Next
<1>5. CASE WithdrawRefund
  <2>1. PICK a \in Accounts : RA!WithdrawRefund(a)
    BY <1>5 DEF WithdrawRefund
  <2>2. Auctions!WithdrawRefund(a)
    BY <2>1, Zenon DEF RA!WithdrawRefund, Auctions!WithdrawRefund
  <2> QED BY <1>1, <2>2 DEF Auctions!Next, Auctions!Withdraw
<1>6. CASE Tick
  BY <1>1, <1>6, TickIsTick DEF Auctions!Next
<1>7. UNCHANGED auctionVars => AuctionsInv'
  BY <1>1 DEF auctionVars, Auctions!vars
<1>8. CASE FundLiveBid \/ EditAllowlist
  BY <1>7, <1>8 DEF FundLiveBid, EditAllowlist
<1>9. CASE UNCHANGED vars
  BY <1>7, <1>9 DEF vars
<1> QED BY <1>2, <1>3, <1>4, <1>5, <1>6, <1>8, <1>9 DEF Next

-----------------------------------------------------------------------------
(***************************************************************************)
(* The Proofs.  ProofPerCollectedTrait is inductive once the invariant of   *)
(* the core and the agreement of the contracts are known: they say that the *)
(* target of an open auction is not collected, and that the Punk behind a   *)
(* collected trait is locked and has a row that is never rewritten.         *)
(***************************************************************************)
ProofInv == PV!TypeOK /\ ProofPerCollectedTrait

\* The seller in the row of a vaulted Punk is there for ever.
LEMMA SellerKept ==
    ASSUME Core!IInv, NEW q \in Punks, custody[q] = "Vaulted", [PC!Next]_(PC!vars)
    PROVE  PC!RowOf(q)'.seller = PC!RowOf(q).seller
<1> DEFINE i == acquisitionIndexOf[q]
<1>1. /\ i \in 1 .. Len(acquisitions)
      /\ acquisitions \in Seq(PC!Acquisition)
      /\ acquisitionIndexOf \in [Punks -> Nat]
  BY DEF Core!IInv, Core!IndexInv, Core!TypeOK, Core!Acquisition, PC!Acquisition,
         Core!Custody, PC!Custody, Core!Traits, PC!Traits
<1>2. ASSUME NEW p \in Punks, NEW t, NEW a, NEW s, NEW c,
             PC!RecordAcquisition(p, t, a, s, c)
      PROVE  PC!RowOf(q)' = PC!RowOf(q)
  <2>1. /\ p # q
        /\ acquisitionIndexOf' = [acquisitionIndexOf EXCEPT ![p] = Len(acquisitions')]
        /\ acquisitions' = Append(acquisitions,
              [punk |-> p, target |-> t, acquirer |-> a, seller |-> s, price |-> c,
               custody |-> "InReturnAuction"])
    BY <1>2 DEF PC!RecordAcquisition, PC!Acquirable
  <2>2. acquisitionIndexOf'[q] = i /\ acquisitions'[i] = acquisitions[i]
    BY <1>1, <2>1
  <2> QED BY <2>2 DEF PC!RowOf
<1>3. ASSUME NEW p \in Punks, NEW outcome, PC!MarkCustody(p, outcome)
      PROVE  PC!RowOf(q)'.seller = PC!RowOf(q).seller
  <2>1. /\ acquisitions' = [acquisitions EXCEPT ![acquisitionIndexOf[p]].custody = outcome]
        /\ acquisitionIndexOf' = acquisitionIndexOf
    BY <1>3 DEF PC!MarkCustody
  <2>2. acquisitions[i] \in PC!Acquisition
    BY <1>1
  <2>3. acquisitions'[i].seller = acquisitions[i].seller
    BY <1>1, <2>1, <2>2 DEF PC!Acquisition
  <2> QED BY <2>1, <2>3 DEF PC!RowOf
<1>4. UNCHANGED PC!vars => PC!RowOf(q)' = PC!RowOf(q)
  BY DEF PC!vars, PC!RowOf
<1> QED BY <1>2, <1>3, <1>4 DEF PC!Next, PC!Record, PC!Mark

\* The Punk behind a collected trait is in the vault.
LEMMA BehindIsVaulted ==
    ASSUME IInv, Core!IInv, NEW t \in collectedMask
    PROVE  /\ t \in Traits
           /\ firstVaulted[t] \in Punks
           /\ custody[firstVaulted[t]] = "Vaulted"
BY DEF Core!IInv, Core!VaultInv, Core!Vaulted, Core!TypeOK, Core!Traits, Traits

\* What leaves the collection and the vault alone leaves every Proof right.
LEMMA SameProofs ==
    ASSUME IInv, Core!IInv, ProofInv, [PC!Next]_(PC!vars),
           UNCHANGED <<collectedMask, firstVaulted, vaultVars>>
    PROVE  ProofInv'
<1>1. PV!TypeOK'
  BY DEF ProofInv, PV!TypeOK, vaultVars
<1>2. \A t \in collectedMask :
          acquisitions'[acquisitionIndexOf'[firstVaulted[t]]].seller
              = acquisitions[acquisitionIndexOf[firstVaulted[t]]].seller
  BY BehindIsVaulted, SellerKept DEF PC!RowOf
<1>3. ProofPerCollectedTrait'
  <2>1. /\ collectedMask' = collectedMask /\ firstVaulted' = firstVaulted
        /\ isLocked' = isLocked /\ proofMeta' = proofMeta
        /\ lockedPunkCount' = lockedPunkCount /\ proofsMintedCount' = proofsMintedCount
    BY DEF vaultVars
  <2>2. ProofPerCollectedTrait
    BY DEF ProofInv
  <2>3. ASSUME NEW t \in Traits
        PROVE  IF t \in collectedMask
               THEN /\ proofMeta[t] # NoProof
                    /\ proofMeta[t].punk = firstVaulted[t]
                    /\ firstVaulted[t] \in isLocked
                    /\ proofMeta[t].recipient
                          = acquisitions'[acquisitionIndexOf'[firstVaulted[t]]].seller
               ELSE proofMeta[t] = NoProof
    BY <1>2, <2>2 DEF ProofPerCollectedTrait, PC!RowOf
  <2> QED BY <2>1, <2>2, <2>3 DEF ProofPerCollectedTrait, PC!RowOf
<1> QED BY <1>1, <1>3 DEF ProofInv

\* The collection is finite.
LEMMA FiniteCollection ==
    ASSUME Core!IInv
    PROVE  IsFiniteSet(collectedMask)
<1>1. collectedMask \subseteq 0 .. (TraitCount - 1)
  BY DEF Core!IInv, Core!TypeOK, Core!Traits
<1>2. TraitCount \in Nat
  BY CoreAssumption DEF PC!DatasetAssumption
<1>3. IsFiniteSet(0 .. (TraitCount - 1))
  BY <1>2, FS_Interval
<1> QED BY <1>1, <1>3, FS_Subset

\* A settlement without a bid collects the target and mints its Proof.
LEMMA UnsoldMints ==
    ASSUME IInv, Core!IInv, ProofInv, NEW p \in Punks, SettleUnsold(p)
    PROVE  ProofInv'
<1> DEFINE t == sales[p].target
           r == acquisitions[acquisitionIndexOf[p]].seller
           n == proofsMintedCount
<1>1. /\ custody[p] = "InReturnAuction" /\ t = PC!TargetOf(p)
      /\ t \in Traits /\ t \notin collectedMask
      /\ acquisitionIndexOf[p] \in 1 .. Len(acquisitions)
  <2>1. RA!Open(p)
    BY DEF SettleUnsold, RA!SettleUnsold, RA!Settleable
  <2>2. custody[p] = "InReturnAuction" /\ t = PC!TargetOf(p)
    BY <2>1 DEF IInv, ContractsAgree
  <2>3. pendingTraitCount[PC!TargetOf(p)] = 1 /\ acquisitionIndexOf[p] \in 1 .. Len(acquisitions)
    BY <2>2 DEF Core!IInv, Core!ClaimInv, Core!IndexInv, Core!InAuction, Core!TargetOf,
                Core!RowOf, PC!TargetOf, PC!RowOf
  <2>4. PC!TargetOf(p) \in Carries[p]
    BY <2>2 DEF Core!IInv, Core!IndexInv, Core!TargetOf, Core!RowOf, PC!TargetOf, PC!RowOf
  <2>5. t \in Traits
    BY <2>2, <2>4, CoreAssumption DEF PC!DatasetAssumption, PC!Traits, Traits
  <2>6. t \notin collectedMask
    BY <2>2, <2>3, <2>5 DEF Core!IInv, Core!ClaimInv, Core!Traits, Traits
  <2> QED BY <2>2, <2>3, <2>5, <2>6
<1>2. /\ PV!ReceivePunk(p) /\ PC!MarkCustody(p, "Vaulted")
      /\ PV!MintProofs(p, t, r, Cardinality(collectedMask'))
  BY <1>1 DEF SettleUnsold, PC!OriginalSellerOf, PC!RowOf
<1>3. /\ isLocked' = isLocked \cup {p} /\ lockedPunkCount' = lockedPunkCount + 1
      /\ r \in Accounts /\ proofsMintedCount' = n + 1
      /\ proofMeta' = [proofMeta EXCEPT
              ![t] = [punk |-> p, recipient |-> r, sequence |-> Cardinality(collectedMask')]]
  BY <1>2, Zenon DEF PV!ReceivePunk, PV!MintProofs
<1>4. /\ collectedMask' = collectedMask \cup {t}
      /\ firstVaulted' = [firstVaulted EXCEPT ![t] = p]
  BY <1>1, <1>2 DEF PC!MarkCustody, PC!Collect
<1>5. /\ firstVaulted \in [Traits -> Punks \cup {NoPunk}]
      /\ collectedMask \subseteq Traits
      /\ acquisitions \in Seq(PC!Acquisition)
  BY DEF Core!IInv, Core!TypeOK, Core!Traits, Traits, Core!Acquisition, PC!Acquisition,
         Core!Custody, PC!Custody, PC!Traits
<1>6. Cardinality(collectedMask') = n + 1 /\ n \in Nat /\ lockedPunkCount = n
  <2>1. n = Cardinality(collectedMask) /\ lockedPunkCount = n /\ n \in Nat
    BY DEF ProofInv, ProofPerCollectedTrait, PV!TypeOK
  <2> QED BY <1>1, <1>4, <2>1, FiniteCollection, FS_AddElement
<1> DEFINE proof == [punk |-> p, recipient |-> r, sequence |-> n + 1]
<1>7. /\ proofMeta \in [Traits -> PV!Proof \cup {NoProof}]
      /\ proof \in PV!Proof
      /\ proofMeta' = [proofMeta EXCEPT ![t] = proof]
  BY <1>3, <1>6 DEF ProofInv, PV!TypeOK, PV!Proof
<1>8. proof.punk = p /\ proof.recipient = r /\ proof.sequence = n + 1 /\ proof # NoProof
  BY <1>7, NoProofAssumption
<1>9. PV!TypeOK'
  BY <1>1, <1>3, <1>6, <1>7 DEF ProofInv, PV!TypeOK
<1>10. /\ acquisitionIndexOf' = acquisitionIndexOf
       /\ acquisitions' = [acquisitions EXCEPT ![acquisitionIndexOf[p]].custody = "Vaulted"]
  BY <1>2 DEF PC!MarkCustody
<1>11. acquisitions'[acquisitionIndexOf'[p]].seller = r
  <2>1. acquisitions[acquisitionIndexOf[p]] \in PC!Acquisition
    BY <1>1, <1>5
  <2> QED BY <1>1, <1>5, <1>10, <2>1 DEF PC!Acquisition
<1>12. [PC!Next]_(PC!vars)
  BY <1>2 DEF PC!Next, PC!Mark, PC!Custody
<1> HIDE DEF proof, r, t
<1>13. ASSUME NEW u \in Traits
       PROVE  IF u \in collectedMask'
              THEN /\ proofMeta'[u] # NoProof
                   /\ proofMeta'[u].punk = firstVaulted'[u]
                   /\ firstVaulted'[u] \in isLocked'
                   /\ proofMeta'[u].recipient
                        = acquisitions'[acquisitionIndexOf'[firstVaulted'[u]]].seller
              ELSE proofMeta'[u] = NoProof
  <2>1. CASE u = t
    <3>1. firstVaulted'[t] = p /\ proofMeta'[t] = proof
      BY <1>1, <1>4, <1>5, <1>7
    <3> QED BY <1>3, <1>4, <1>8, <1>11, <2>1, <3>1
  <2>2. CASE u # t /\ u \in collectedMask
    <3>1. firstVaulted'[u] = firstVaulted[u] /\ proofMeta'[u] = proofMeta[u]
      BY <1>4, <1>5, <1>7, <2>2
    <3>2. acquisitions'[acquisitionIndexOf'[firstVaulted[u]]].seller
              = acquisitions[acquisitionIndexOf[firstVaulted[u]]].seller
      BY <1>12, <2>2, BehindIsVaulted, SellerKept DEF PC!RowOf
    <3> QED BY <1>3, <1>4, <2>2, <3>1, <3>2 DEF ProofInv, ProofPerCollectedTrait, PC!RowOf
  <2>3. CASE u # t /\ u \notin collectedMask
    BY <1>4, <1>7, <2>3 DEF ProofInv, ProofPerCollectedTrait
  <2> QED BY <2>1, <2>2, <2>3
<1>14. {proofMeta'[u].sequence : u \in collectedMask'} = 1 .. n + 1
  <2>1. {proofMeta[u].sequence : u \in collectedMask} = 1 .. n
    BY DEF ProofInv, ProofPerCollectedTrait
  <2>2. \A u \in collectedMask : proofMeta'[u] = proofMeta[u]
    BY <1>1, <1>5, <1>7
  <2>3. proofMeta'[t].sequence = n + 1
    BY <1>1, <1>7, <1>8
  <2>4. {proofMeta'[u].sequence : u \in collectedMask'} = (1 .. n) \cup {n + 1}
    BY <1>4, <2>1, <2>2, <2>3
  <2>5. (1 .. n) \cup {n + 1} = 1 .. n + 1
    BY <1>6
  <2> QED BY <2>4, <2>5
<1>15. /\ proofsMintedCount' = Cardinality(collectedMask)'
       /\ lockedPunkCount' = proofsMintedCount'
  BY <1>3, <1>6
<1>16. ProofPerCollectedTrait'
  BY <1>3, <1>13, <1>14, <1>15 DEF ProofPerCollectedTrait, PC!RowOf
<1> QED BY <1>9, <1>16 DEF ProofInv

\* Every transaction keeps the Proofs right.
LEMMA ProofStep ==
    ASSUME IInv, Core!IInv, ProofInv, [Next]_vars
    PROVE  ProofInv'
<1>1. UNCHANGED <<collectedMask, firstVaulted, vaultVars>> => ProofInv'
  BY StepOfCore, SameProofs
<1>2. ASSUME NEW p \in Punks, Accept(p) PROVE ProofInv'
  BY <1>1, <1>2 DEF Accept, AcceptBid, AcceptListing, Acquire, PC!RecordAcquisition
<1>3. ASSUME NEW p \in Punks, SettleUnsold(p) PROVE ProofInv'
  BY <1>3, UnsoldMints
<1>4. ASSUME NEW p \in Punks, SettleCleared(p) PROVE ProofInv'
  BY <1>1, <1>4 DEF SettleCleared, PC!MarkCustody, PC!Collect
<1>5. ASSUME NEW p \in Punks, PlaceBid(p) PROVE ProofInv'
  BY <1>1, <1>5 DEF PlaceBid, recordsVars
<1>6. CASE WithdrawRefund \/ FundLiveBid \/ EditAllowlist \/ Tick \/ UNCHANGED vars
  BY <1>1, <1>6 DEF WithdrawRefund, FundLiveBid, EditAllowlist, Tick, vars, recordsVars
<1> QED BY <1>2, <1>3, <1>4, <1>5, <1>6 DEF Next, Settle

\* Nothing is collected at first.
LEMMA ProofInit == Init => ProofInv
<1> SUFFICES ASSUME Init PROVE ProofInv
  OBVIOUS
<1>1. /\ collectedMask = {} /\ isLocked = {} /\ lockedPunkCount = 0
      /\ proofMeta = [t \in Traits |-> NoProof] /\ proofsMintedCount = 0
  BY DEF Init, PC!Init, PV!Init
<1>2. PV!TypeOK
  BY <1>1 DEF PV!TypeOK
<1>3. Cardinality(collectedMask) = 0
  BY <1>1, FS_EmptySet
<1>4. {proofMeta[t].sequence : t \in collectedMask} = 1 .. 0
  BY <1>1
<1> QED BY <1>1, <1>2, <1>3, <1>4 DEF ProofInv, ProofPerCollectedTrait

\* So they are right in every behaviour.
LEMMA AlwaysProofInv == Spec => []ProofInv
<1>1. IInv /\ Core!IInv /\ ProofInv /\ [Next]_vars => ProofInv'
  BY ProofStep
<1> QED BY <1>1, ProofInit, AlwaysIInv, AlwaysCore, PTL DEF Spec

\* A trait is collected exactly when its Proof exists, for any dataset; the Proof
\* names the Punk locked for it and the seller recorded when it was acquired, and
\* Proofs are numbered without gaps (PunkVault.sol:353-411, PermanentCollection.sol:
\* 487-535).
THEOREM AlwaysProven == Spec => []ProofPerCollectedTrait
<1>1. ProofInv => ProofPerCollectedTrait
  BY DEF ProofInv
<1> QED BY <1>1, AlwaysProofInv, PTL

-----------------------------------------------------------------------------
\* The auctions keep their invariant in every behaviour of the cycle.
LEMMA AlwaysAuctions == Spec => [](AuctionsInv /\ PA!TypeOK)
<1>1. Init => AuctionsInv
  <2>1. Init => Auctions!Init
    BY DEF Init, RA!Init, Auctions!Init, RA!EmptySlot, Auctions!EmptySlot, RA!Sinks,
           Auctions!Sinks
  <2>2. Auctions!Init => Auctions!IInv
    BY AuctionsAssumed, Auctions!IInvInit
  <2>3. Auctions!Init => Auctions!MoneyTypes
    BY AuctionsAssumed DEF Auctions!AuctionAssumption, Auctions!Init, Auctions!MoneyTypes
  <2> QED BY <2>1, <2>2, <2>3 DEF AuctionsInv
<1>2. Init => PA!TypeOK
  BY DEF Init, PA!Init, PA!TypeOK
<1>3. AuctionsInv /\ Core!IInv /\ PA!TypeOK /\ [Next]_vars => AuctionsInv'
  BY AuctionsStep
<1> QED BY <1>1, <1>2, <1>3, HubStep, AlwaysCore, PTL DEF Spec

\* In the cycle too, a standing bid covers the reserve and the reserve the cost,
\* so that no settlement reverts on its premium; and the module owns a Punk
\* exactly while its auction is open (ReturnAuctionModule.sol:405-717).
THEOREM AuctionsHold == Spec => [](RA!BidsCoverCost /\ RA!OwnsExactlyOpenPunks)
<1>1. AuctionsInv => RA!BidsCoverCost /\ RA!OwnsExactlyOpenPunks
  BY DEF AuctionsInv, Auctions!IInv, Auctions!BidsCoverCost, RA!BidsCoverCost,
         Auctions!OwnsExactlyOpenPunks, RA!OwnsExactlyOpenPunks, Auctions!Open, RA!Open
<1> QED BY <1>1, AlwaysAuctions, PTL

\* In the cycle too, claims, vaulted Punks, the log and the custody map agree: a
\* trait is pending for one auction at most, every locked Punk has collected a
\* trait, and no row of the log is out of date (PermanentCollection.sol:393-535).
THEOREM CoreHolds ==
    Spec => [](/\ PC!PendingMatchesAuctions
               /\ PC!OneVaultedPunkPerTrait
               /\ PC!LogMatchesCustody)
<1>1. Core!PendingMatchesAuctions => PC!PendingMatchesAuctions
  BY DEF Core!PendingMatchesAuctions, PC!PendingMatchesAuctions, Core!InAuctionFor,
         PC!InAuctionFor, Core!TargetOf, PC!TargetOf, Core!RowOf, PC!RowOf, Core!Traits,
         PC!Traits, Core!Cardinality, PC!Cardinality
<1>2. Core!OneVaultedPunkPerTrait => PC!OneVaultedPunkPerTrait
  BY DEF Core!OneVaultedPunkPerTrait, PC!OneVaultedPunkPerTrait, Core!VaultedFor,
         PC!VaultedFor, Core!TargetOf, PC!TargetOf, Core!RowOf, PC!RowOf, Core!Traits,
         PC!Traits
<1>3. Core!LogMatchesCustody => PC!LogMatchesCustody
  BY DEF Core!LogMatchesCustody, PC!LogMatchesCustody
<1>4. Core!Spec => [](/\ Core!PendingMatchesAuctions
                     /\ Core!OneVaultedPunkPerTrait
                     /\ Core!LogMatchesCustody)
  <2>1. Core!Spec => []Core!PendingMatchesAuctions
    BY CoreAssumed, Core!PendingMatches
  <2>2. Core!Spec => []Core!OneVaultedPunkPerTrait
    BY CoreAssumed, Core!OneVaultedPunk
  <2>3. Core!Spec => []Core!LogMatchesCustody
    BY CoreAssumed, Core!LogAgrees
  <2> QED BY <2>1, <2>2, <2>3, PTL
<1> QED BY <1>1, <1>2, <1>3, <1>4, DrivesCore, PTL

\* Every variable of the four contracts keeps its type.  No balance, refund,
\* bid or share underflows, in whatever order the transactions come.
THEOREM TypeCorrect == Spec => []TypeOK
<1>1. Core!IInv /\ AuctionsInv /\ ProofInv /\ PA!TypeOK => TypeOK
  <2>1. Core!IInv => PC!TypeOK
    BY DEF Core!IInv, Core!TypeOK, PC!TypeOK, Core!Traits, PC!Traits, Core!Acquisition,
           PC!Acquisition, Core!Custody, PC!Custody
  <2>2. AuctionsInv => RA!TypeOK
    BY DEF AuctionsInv, Auctions!IInv, Auctions!SlotTypes, Auctions!OwnerTypes,
           Auctions!MoneyTypes, Auctions!Sale, RA!Sale, RA!TypeOK, Auctions!Sinks, RA!Sinks
  <2> QED BY <2>1, <2>2 DEF ProofInv, TypeOK
<1> QED BY <1>1, AlwaysAuctions, AlwaysProofInv, AlwaysCore, PTL

-----------------------------------------------------------------------------
(***************************************************************************)
(* The indexer.  The invariant says how far the contracts are ahead of the  *)
(* tables: by the events of the last transaction that still wait, and by    *)
(* nothing else.                                                            *)
(***************************************************************************)

\* The events of a kind that wait to be handled.
Waiting(kind) == {e \in Range(queue) : e.kind = kind}

\* A transaction emits one event of a kind at most, and an acquisition before
\* the custody it begins.
Orderly(q) ==
    /\ \A i, j \in 1 .. Len(q) : q[i].kind = q[j].kind => i = j
    /\ \A i, j \in 1 .. Len(q) :
          q[i].kind = "AcquisitionRecorded" /\ q[j].kind = "CustodyUpdated" => i < j

\* The history is the log but for the row and the outcome that wait.
LogAhead ==
    LET recorded == Waiting("AcquisitionRecorded")
        marked == Waiting("CustodyUpdated")
    IN  /\ \A e \in recorded :
              /\ e.punk \in Punks /\ acquisitions # << >>
              /\ e.row = acquisitions[Len(acquisitions)]
              /\ e.row.punk = e.punk /\ e.row.custody = "InReturnAuction"
        /\ \A e \in marked :
              /\ e.punk \in Punks /\ acquisitionIndexOf[e.punk] # 0
              /\ e.outcome = custody[e.punk]
        /\ history \in Seq(HistoryRow)
        /\ Len(acquisitions) = Len(history) + (IF recorded = {} THEN 0 ELSE 1)
        /\ \A i \in 1 .. Len(history) :
              LET h == history[i]
                  a == acquisitions[i]
              IN  /\ h.punk = a.punk /\ h.target = a.target /\ h.acquirer = a.acquirer
                  /\ h.seller = a.seller /\ h.price = a.price
                  /\ \/ h.custody = a.custody
                     \/ \E e \in marked : e.punk = a.punk /\ acquisitionIndexOf[a.punk] = i

\* The history rows of a Punk.
HistoryOf(p) == {i \in 1 .. Len(history) : history[i].punk = p}

\* The latest row of each Punk says what its last history row says.
RowsAgree ==
    /\ acquisitionRow \in [Punks -> AcquisitionRow \cup {NoRow}]
    /\ \A p \in Punks :
          IF HistoryOf(p) = {} THEN acquisitionRow[p] = NoRow
          ELSE LET r == acquisitionRow[p]
               IN  /\ r # NoRow
                   /\ r.latest \in HistoryOf(p) /\ \A i \in HistoryOf(p) : i <= r.latest
                   /\ r.count = Cardinality(HistoryOf(p))
                   /\ r.target = history[r.latest].target
                   /\ r.seller = history[r.latest].seller
                   /\ r.custody = history[r.latest].custody
    /\ \A i \in 1 .. Len(history) :
          history[i].seq = Cardinality({j \in 1 .. i - 1 : history[j].punk = history[i].punk})

\* How an auction has ended.
Outcome(p) ==
    CASE custody[p] = "Vaulted" -> "Vaulted"
      [] custody[p] = "ReturnedToMarket" -> "Cleared"
      [] OTHER -> "none"

\* The auction rows show the slots but for the start, the bid and the end that
\* wait.
AuctionAhead ==
    LET started == Waiting("ReturnAuctionStarted")
        bids == Waiting("BidPlaced")
        extended == Waiting("Extended")
        closed == Waiting("ReturnAuctionCleared") \cup Waiting("PunkVaulted")
    IN  /\ \A e \in started :
              /\ e.punk \in Punks /\ e.sale = sales[e.punk] /\ RA!Open(e.punk)
              /\ e.sale.high = 0 /\ e.sale.bidder = NoAccount
        /\ \A e \in bids :
              /\ e.punk \in Punks /\ RA!Open(e.punk) /\ started = {}
              /\ e.left = sales[e.punk].left
              /\ e.value = sales[e.punk].high /\ e.who = sales[e.punk].bidder
        /\ \A e \in extended :
              /\ e.punk \in Punks /\ RA!Open(e.punk) /\ started = {}
              /\ e.left = sales[e.punk].left
        /\ \A e \in closed :
              /\ e.punk \in Punks /\ sales[e.punk].phase # "none" /\ started = {}
        /\ \A e \in Waiting("ReturnAuctionCleared") : custody[e.punk] = "ReturnedToMarket"
        /\ \A e \in Waiting("PunkVaulted") : custody[e.punk] = "Vaulted"
        /\ auctionRow \in [Punks -> AuctionRow \cup {NoRow}]
        /\ \A p \in Punks :
              \/ \E e \in started : e.punk = p
              \/ IF sales[p].phase = "none" THEN auctionRow[p] = NoRow
                 ELSE LET r == auctionRow[p]
                          s == sales[p]
                      IN  /\ r # NoRow
                          /\ r.cost = s.cost /\ r.reserve = s.reserve
                          /\ \/ r.left = s.left /\ r.high = s.high /\ r.bidder = s.bidder
                             \/ \E e \in bids : e.punk = p
                          /\ \/ r.outcome = Outcome(p)
                             \/ \E e \in closed : e.punk = p

\* Each attempt is counted, or waits to be.
TrialsAhead ==
    LET recorded == Waiting("AcquisitionRecorded")
    IN  /\ recorded = {} => trials = attemptCount
        /\ \A e \in recorded : attemptCount = [trials EXCEPT ![e.row.target] = @ + 1]

\* A vaulted Punk has its row, with the trait it was locked for, or waits for it.
VaultedAhead ==
    LET vaulted == Waiting("PunkVaulted")
    IN  /\ \A e \in vaulted : e.punk \in isLocked /\ Waiting("AcquisitionRecorded") = {}
        /\ vaultedRow \in [Punks -> Traits \cup {NoTrait, NoRow}]
        /\ \A p \in Punks :
              IF p \in isLocked /\ ~ \E e \in vaulted : e.punk = p
              THEN vaultedRow[p] = PC!TargetOf(p)
              ELSE vaultedRow[p] = NoRow

\* A Proof has its row, with its owner, or waits for them.
ProofsAhead ==
    LET minted == Waiting("ProofMinted")
        given == Waiting("Transfer")
    IN  /\ \A e \in minted :
              /\ e.token \in Traits /\ e.proof = proofMeta[e.token]
              /\ e.proof \in PV!Proof /\ e.proof.recipient = proofOwner[e.token]
        /\ \A e \in given :
              /\ e.token \in Traits /\ e.to \in Accounts /\ e.to = proofOwner[e.token]
        /\ proofOwner \in [Traits -> Accounts \cup {NoAccount}]
        /\ proofRow \in [Traits -> ProofRow \cup {NoRow}]
        /\ \A t \in Traits :
              IF proofMeta[t] = NoProof \/ \E e \in minted : e.token = t
              THEN proofRow[t] = NoRow
              ELSE /\ proofRow[t] # NoRow /\ proofRow[t].meta = proofMeta[t]
                   /\ \/ proofRow[t].owner = proofOwner[t]
                      \/ \E e \in given : e.token = t

\* The acquisitions that ended with a winner.
ClearedRows == {i \in 1 .. Len(acquisitions) : acquisitions[i].custody = "ReturnedToMarket"}

\* What an event that waits adds to a counter.
One(events) == IF events = {} THEN 0 ELSE 1
Outcomes(outcome) == {e \in Waiting("CustodyUpdated") : e.outcome = outcome}

\* The counters count what is there but for what waits.
CountersAhead ==
    LET inflows == Waiting("PoolReplenished")
    IN  /\ counters \in [{"collected", "acquisitions", "vaulted", "cleared", "proofs",
                          "inflow"} -> Int]
        /\ \A e \in Waiting("TraitsCollected") : e.count = 1
        /\ Cardinality(collectedMask) = counters.collected + One(Waiting("TraitsCollected"))
        /\ Len(acquisitions) = counters.acquisitions + One(Waiting("AcquisitionRecorded"))
        /\ lockedPunkCount = counters.vaulted + One(Outcomes("Vaulted"))
        /\ Cardinality(ClearedRows) = counters.cleared + One(Outcomes("ReturnedToMarket"))
        /\ proofsMintedCount = counters.proofs + One(Waiting("ProofMinted"))
        /\ inflows = {} => received["adapter"] = counters.inflow
        /\ \A e \in inflows : received["adapter"] = counters.inflow + e.value /\ e.value \in Int

\* The allowlist, but for the edit that waits.
SellersAhead ==
    LET edits == Waiting("AllowedSellers")
    IN  /\ edits = {} => activeSellers = allowedSellers
        /\ \A e \in edits : allowedSellers = (activeSellers \cup e.added) \ e.removed

\* What is owed, but for the refund that waits.
RefundsAhead ==
    LET refunded == Waiting("RefundQueued")
        withdrawn == Waiting("RefundWithdrawn")
    IN  /\ refunded = {} /\ withdrawn = {} => refunds = pendingRefund
        /\ \A e \in refunded :
              withdrawn = {} /\ pendingRefund = [refunds EXCEPT ![e.who] = @ + e.value]
        /\ \A e \in withdrawn :
              refunded = {} /\ pendingRefund = [refunds EXCEPT ![e.who] = @ - e.value]
-----------------------------------------------------------------------------
\* Queues of events, put together.
LEMMA NoEvents == ASSUME NEW E PROVE << >> \in Seq(E) /\ Range(<< >>) = {} /\ Orderly(<< >>)
BY DEF Range, Orderly

\* A single event is an orderly queue.
LEMMA OneEvent ==
    ASSUME NEW E, NEW e \in E
    PROVE  <<e>> \in Seq(E) /\ Range(<<e>>) = {e} /\ Orderly(<<e>>)
<1>1. <<e>> \in Seq(E) /\ DOMAIN <<e>> = {1} /\ Len(<<e>>) = 1 /\ <<e>>[1] = e
  OBVIOUS
<1>2. Range(<<e>>) = {e}
  BY <1>1 DEF Range
<1>3. Orderly(<<e>>)
  <2>1. \A i \in 1 .. Len(<<e>>) : i = 1
    BY <1>1
  <2>2. ASSUME <<e>>[1].kind = "AcquisitionRecorded", <<e>>[1].kind = "CustodyUpdated" PROVE FALSE
    BY <2>2
  <2> QED BY <2>1, <2>2 DEF Orderly
<1> QED BY <1>1, <1>2, <1>3

\* Two orderly queues with no kind in common make one, unless the second would
\* put an acquisition behind a custody.
LEMMA Joined ==
    ASSUME NEW E, NEW q \in Seq(E), NEW r \in Seq(E), Orderly(q), Orderly(r),
           \A d \in Range(q), e \in Range(r) :
              d.kind # e.kind /\ ~(d.kind = "CustodyUpdated" /\ e.kind = "AcquisitionRecorded")
    PROVE  /\ q \o r \in Seq(E)
           /\ Range(q \o r) = Range(q) \cup Range(r)
           /\ Orderly(q \o r)
<1> DEFINE n == Len(q)
           m == Len(r)
<1>1. /\ q \o r \in Seq(E) /\ n \in Nat /\ m \in Nat /\ Len(q \o r) = n + m
      /\ \A i \in 1 .. n : (q \o r)[i] = q[i] /\ q[i] \in Range(q)
      /\ \A i \in n + 1 .. n + m : (q \o r)[i] = r[i - n] /\ i - n \in 1 .. m
      /\ DOMAIN (q \o r) = 1 .. n + m /\ DOMAIN q = 1 .. n /\ DOMAIN r = 1 .. m
  BY DEF Range
<1>2. Range(q \o r) = Range(q) \cup Range(r)
  <2>1. ASSUME NEW x \in Range(q) PROVE x \in Range(q \o r)
    <3>1. PICK i \in 1 .. n : x = q[i]
      BY <1>1 DEF Range
    <3>2. i \in 1 .. n + m /\ (q \o r)[i] = x
      BY <1>1, <3>1
    <3> QED BY <1>1, <3>2 DEF Range
  <2>2. ASSUME NEW x \in Range(r) PROVE x \in Range(q \o r)
    <3>1. PICK i \in 1 .. m : x = r[i]
      BY <1>1 DEF Range
    <3>2. i + n \in n + 1 .. n + m /\ i + n \in 1 .. n + m /\ (i + n) - n = i
      BY <1>1
    <3>3. (q \o r)[i + n] = x
      BY <1>1, <3>1, <3>2
    <3> QED BY <1>1, <3>2, <3>3 DEF Range
  <2>3. ASSUME NEW x \in Range(q \o r) PROVE x \in Range(q) \cup Range(r)
    <3>1. PICK i \in 1 .. n + m : x = (q \o r)[i]
      BY <1>1 DEF Range
    <3>2. CASE i <= n
      BY <1>1, <3>1, <3>2
    <3>3. CASE i > n
      <4>1. x = r[i - n] /\ i - n \in 1 .. m
        BY <1>1, <3>1, <3>3
      <4> QED BY <1>1, <4>1 DEF Range
    <3> QED BY <1>1, <3>2, <3>3
  <2> QED BY <2>1, <2>2, <2>3
<1>3. ASSUME NEW i \in 1 .. n + m
      PROVE  \/ i <= n /\ i \in 1 .. n /\ (q \o r)[i] = q[i] /\ q[i] \in Range(q)
             \/ i > n /\ i - n \in 1 .. m /\ (q \o r)[i] = r[i - n] /\ r[i - n] \in Range(r)
  <2>1. CASE i <= n
    BY <1>1, <2>1
  <2>2. CASE i > n
    BY <1>1, <2>2 DEF Range
  <2> QED BY <1>1, <2>1, <2>2
<1> DEFINE s == q \o r
<1>4. ASSUME NEW i \in 1 .. n + m, NEW j \in 1 .. n + m, s[i].kind = s[j].kind
      PROVE  i = j
  <2>1. CASE i <= n /\ j <= n
    BY <1>1, <1>3, <1>4, <2>1 DEF Orderly
  <2>2. CASE i > n /\ j > n
    <3>1. i - n = j - n
      BY <1>1, <1>3, <1>4, <2>2 DEF Orderly
    <3> QED BY <1>1, <3>1
  <2>3. CASE i <= n /\ j > n
    BY <1>1, <1>3, <1>4, <2>3
  <2>4. CASE i > n /\ j <= n
    BY <1>1, <1>3, <1>4, <2>4
  <2> QED BY <1>1, <2>1, <2>2, <2>3, <2>4
<1>5. ASSUME NEW i \in 1 .. n + m, NEW j \in 1 .. n + m,
             s[i].kind = "AcquisitionRecorded", s[j].kind = "CustodyUpdated"
      PROVE  i < j
  <2>1. CASE i <= n /\ j <= n
    BY <1>1, <1>3, <1>5, <2>1 DEF Orderly
  <2>2. CASE i > n /\ j > n
    <3>1. i - n < j - n
      BY <1>1, <1>3, <1>5, <2>2 DEF Orderly
    <3> QED BY <1>1, <3>1
  <2>3. CASE i <= n /\ j > n
    BY <1>1, <2>3
  <2>4. CASE i > n /\ j <= n
    BY <1>1, <1>3, <1>5, <2>4
  <2> QED BY <1>1, <2>1, <2>2, <2>3, <2>4
<1>6. Orderly(s)
  BY <1>1, <1>4, <1>5 DEF Orderly
<1> QED BY <1>1, <1>2, <1>6

\* The event that is handled is the only one of its kind, and no acquisition
\* waits when an outcome is handled.
LEMMA HandleTakes ==
    ASSUME NEW E, queue \in Seq(E), queue # << >>, Orderly(queue), queue' = Tail(queue),
           NEW e, e = Head(queue)
    PROVE  /\ queue' \in Seq(E) /\ Orderly(queue')
           /\ Waiting(e.kind) = {e} /\ Waiting(e.kind)' = {}
           /\ \A k : k # e.kind => Waiting(k)' = Waiting(k)
           /\ e.kind = "CustodyUpdated" => Waiting("AcquisitionRecorded") = {}
<1> DEFINE q == queue
           r == Tail(queue)
           n == Len(q)
<1>1. /\ n \in Nat /\ n > 0 /\ r \in Seq(E) /\ Len(r) = n - 1 /\ e = q[1]
      /\ \A i \in 1 .. n - 1 : r[i] = q[i + 1] /\ i + 1 \in 1 .. n
      /\ DOMAIN q = 1 .. n /\ DOMAIN r = 1 .. n - 1
  OBVIOUS
<1>2. ASSUME NEW x \in Range(q) PROVE x = e \/ x \in Range(r)
  <2>1. PICK i \in 1 .. n : x = q[i]
    BY <1>1 DEF Range
  <2>2. CASE i = 1
    BY <1>1, <2>1, <2>2
  <2>3. CASE i # 1
    <3>1. i - 1 \in 1 .. n - 1 /\ (i - 1) + 1 = i
      BY <1>1, <2>3
    <3>2. r[i - 1] = x
      BY <1>1, <2>1, <3>1
    <3> QED BY <1>1, <3>1, <3>2 DEF Range
  <2> QED BY <2>2, <2>3
<1>3. ASSUME NEW x \in Range(r) PROVE x \in Range(q) /\ x.kind # e.kind
  <2>1. PICK i \in 1 .. n - 1 : x = r[i]
    BY <1>1 DEF Range
  <2>2. x = q[i + 1] /\ i + 1 \in 1 .. n /\ 1 \in 1 .. n /\ i + 1 # 1
    BY <1>1, <2>1
  <2> QED BY <1>1, <2>2 DEF Range, Orderly
<1>4. e \in Range(q)
  <2>1. 1 \in 1 .. n
    BY <1>1
  <2> QED BY <1>1, <2>1 DEF Range
<1>5. Orderly(r)
  <2>1. ASSUME NEW i \in 1 .. n - 1, NEW j \in 1 .. n - 1
        PROVE  /\ r[i].kind = r[j].kind => i = j
               /\ r[i].kind = "AcquisitionRecorded" /\ r[j].kind = "CustodyUpdated" => i < j
    <3>1. r[i] = q[i + 1] /\ r[j] = q[j + 1] /\ i + 1 \in 1 .. n /\ j + 1 \in 1 .. n
      BY <1>1
    <3> QED BY <1>1, <3>1 DEF Orderly
  <2> QED BY <1>1, <2>1 DEF Orderly
<1>6. ASSUME e.kind = "CustodyUpdated", NEW x \in Range(q), x.kind = "AcquisitionRecorded"
      PROVE  FALSE
  <2>1. PICK i \in 1 .. n : x = q[i]
    BY <1>1 DEF Range
  <2>2. 1 \in 1 .. n
    BY <1>1
  <2>3. i < 1
    BY <1>1, <1>6, <2>1, <2>2 DEF Orderly
  <2> QED BY <1>1, <2>3
<1>7. /\ Waiting(e.kind) = {e} /\ Waiting(e.kind)' = {}
      /\ e.kind = "CustodyUpdated" => Waiting("AcquisitionRecorded") = {}
  BY <1>2, <1>3, <1>4, <1>6 DEF Waiting
<1>8. ASSUME NEW k, k # e.kind PROVE Waiting(k)' = Waiting(k)
  BY <1>2, <1>3, <1>8 DEF Waiting
<1> QED BY <1>1, <1>5, <1>7, <1>8
-----------------------------------------------------------------------------
\* What each part is about: where that is unchanged, so is the part.
LEMMA LogSame ==
    ASSUME LogAhead, UNCHANGED <<acquisitions, acquisitionIndexOf, custody, history>>,
           Waiting("AcquisitionRecorded")' = Waiting("AcquisitionRecorded"),
           Waiting("CustodyUpdated")' = Waiting("CustodyUpdated")
    PROVE  LogAhead'
BY DEF LogAhead

\* Rows: the latest rows and the history.
LEMMA RowsSame ==
    ASSUME RowsAgree, UNCHANGED <<acquisitionRow, history>>
    PROVE  RowsAgree'
<1>1. \A p : HistoryOf(p)' = HistoryOf(p)
  BY DEF HistoryOf
<1> QED BY <1>1 DEF RowsAgree

\* Auctions: the slots, the custody and the auction rows.
LEMMA AuctionSame ==
    ASSUME AuctionAhead, UNCHANGED <<sales, custody, auctionRow>>,
           Waiting("ReturnAuctionStarted")' = Waiting("ReturnAuctionStarted"),
           Waiting("BidPlaced")' = Waiting("BidPlaced"),
           Waiting("Extended")' = Waiting("Extended"),
           Waiting("ReturnAuctionCleared")' = Waiting("ReturnAuctionCleared"),
           Waiting("PunkVaulted")' = Waiting("PunkVaulted")
    PROVE  AuctionAhead'
<1>1. \A p : Outcome(p)' = Outcome(p) /\ RA!Open(p)' = RA!Open(p)
  BY DEF Outcome, RA!Open
<1> QED BY <1>1 DEF AuctionAhead

\* Trials: the attempt counts and their mirror.
LEMMA TrialsSame ==
    ASSUME TrialsAhead, UNCHANGED <<attemptCount, trials>>,
           Waiting("AcquisitionRecorded")' = Waiting("AcquisitionRecorded")
    PROVE  TrialsAhead'
BY DEF TrialsAhead

\* Vault: the locked Punks and the trait of each.
LEMMA VaultedSame ==
    ASSUME VaultedAhead, UNCHANGED <<isLocked, vaultedRow>>,
           \A p \in isLocked : PC!TargetOf(p)' = PC!TargetOf(p),
           Waiting("AcquisitionRecorded")' \subseteq Waiting("AcquisitionRecorded"),
           Waiting("PunkVaulted")' = Waiting("PunkVaulted")
    PROVE  VaultedAhead'
BY DEF VaultedAhead

\* Proofs: their metadata and their owners.
LEMMA ProofsSame ==
    ASSUME ProofsAhead, UNCHANGED <<proofMeta, proofOwner, proofRow>>,
           Waiting("ProofMinted")' = Waiting("ProofMinted"),
           Waiting("Transfer")' = Waiting("Transfer")
    PROVE  ProofsAhead'
BY DEF ProofsAhead

\* Counters: the five sets and amounts they count.
LEMMA CountersSame ==
    ASSUME CountersAhead,
           UNCHANGED <<collectedMask, acquisitions, lockedPunkCount, proofsMintedCount,
                       received, counters>>,
           Waiting("TraitsCollected")' = Waiting("TraitsCollected"),
           Waiting("AcquisitionRecorded")' = Waiting("AcquisitionRecorded"),
           Waiting("CustodyUpdated")' = Waiting("CustodyUpdated"),
           Waiting("ProofMinted")' = Waiting("ProofMinted"),
           Waiting("PoolReplenished")' = Waiting("PoolReplenished")
    PROVE  CountersAhead'
<1>1. ClearedRows' = ClearedRows /\ \A o : Outcomes(o)' = Outcomes(o)
  BY DEF ClearedRows, Outcomes
<1> QED BY <1>1 DEF CountersAhead

\* Sellers: the allowlist and its mirror.
LEMMA SellersSame ==
    ASSUME SellersAhead, UNCHANGED <<allowedSellers, activeSellers>>,
           Waiting("AllowedSellers")' = Waiting("AllowedSellers")
    PROVE  SellersAhead'
BY DEF SellersAhead

\* Refunds: the amounts queued in the auctions and their mirror.
LEMMA RefundsSame ==
    ASSUME RefundsAhead, UNCHANGED <<pendingRefund, refunds>>,
           Waiting("RefundQueued")' = Waiting("RefundQueued"),
           Waiting("RefundWithdrawn")' = Waiting("RefundWithdrawn")
    PROVE  RefundsAhead'
BY DEF RefundsAhead
-----------------------------------------------------------------------------
(***************************************************************************)
(* The handlers.                                                            *)
(***************************************************************************)
\* The only event of its kind is taken out, and the chain stands still.
Takes(kind, e) ==
    /\ e.kind = kind
    /\ Waiting(kind) = {e} /\ Waiting(kind)' = {}
    /\ \A k : k # kind => Waiting(k)' = Waiting(k)
    /\ UNCHANGED <<recordsVars, auctionVars, vaultVars, patronVars, proofOwner>>

\* Targets are read off the log.
LEMMA TargetsSame ==
    ASSUME UNCHANGED recordsVars
    PROVE  \A p : PC!TargetOf(p)' = PC!TargetOf(p)
BY DEF recordsVars, PC!TargetOf, PC!RowOf

\* A Transfer gives a Proof that is minted to its new owner.
LEMMA TransferTaken ==
    ASSUME ProofsAhead, NEW e, Takes("Transfer", e), OnTransfer(e)
    PROVE  ProofsAhead'
<1>1. e \in Waiting("Transfer") /\ Waiting("Transfer")' = {}
  BY DEF Takes
<1>2. Waiting("ProofMinted")' = Waiting("ProofMinted")
  BY DEF Takes
<1>3. UNCHANGED <<proofMeta, proofOwner>>
  BY DEF Takes, vaultVars
<1>4. e.token \in Traits /\ e.to \in Accounts /\ e.to = proofOwner[e.token]
  BY <1>1 DEF ProofsAhead
<1>5. proofRow' = IF proofRow[e.token] = NoRow THEN proofRow
                  ELSE [proofRow EXCEPT ![e.token].owner = e.to]
  BY DEF OnTransfer
<1>6. proofRow \in [Traits -> ProofRow \cup {NoRow}]
  BY DEF ProofsAhead
<1>7. ASSUME NEW t \in Traits
      PROVE  /\ proofRow'[t] \in ProofRow \cup {NoRow}
             /\ IF proofMeta[t] = NoProof \/ \E d \in Waiting("ProofMinted") : d.token = t
                THEN proofRow'[t] = NoRow
                ELSE /\ proofRow'[t] # NoRow /\ proofRow'[t].meta = proofMeta[t]
                     /\ proofRow'[t].owner = proofOwner[t]
  <2>1. /\ Waiting("Transfer") = {e}
        /\ IF proofMeta[t] = NoProof \/ \E d \in Waiting("ProofMinted") : d.token = t
           THEN proofRow[t] = NoRow
           ELSE /\ proofRow[t] # NoRow /\ proofRow[t].meta = proofMeta[t]
                /\ proofRow[t].owner = proofOwner[t] \/ e.token = t
    BY DEF ProofsAhead, Takes
  <2>2. CASE t # e.token
    <3>1. proofRow'[t] = proofRow[t]
      BY <1>4, <1>5, <1>6, <2>2
    <3> QED BY <1>6, <2>1, <2>2, <3>1
  <2>3. CASE t = e.token /\ proofRow[t] = NoRow
    BY <1>5, <1>6, <2>1, <2>3
  <2>4. CASE t = e.token /\ proofRow[t] # NoRow
    <3>1. proofRow[t] \in ProofRow /\ proofRow'[t] = [proofRow[t] EXCEPT !.owner = e.to]
      BY <1>4, <1>5, <1>6, <2>4
    <3>2. /\ proofRow'[t] \in ProofRow /\ proofRow'[t].owner = e.to
          /\ proofRow'[t].meta = proofRow[t].meta
      BY <1>4, <3>1 DEF ProofRow
    <3> QED BY <1>4, <2>1, <2>4, <3>2, RowAssumption DEF RowAssumption
  <2> QED BY <2>2, <2>3, <2>4
<1>8. proofRow' \in [Traits -> ProofRow \cup {NoRow}]
  <2>1. proofRow' = [t \in Traits |-> proofRow'[t]]
    BY <1>5, <1>6
  <2> QED BY <1>7, <2>1
<1>9. proofOwner \in [Traits -> Accounts \cup {NoAccount}]
  BY DEF ProofsAhead
<1> QED BY <1>1, <1>2, <1>3, <1>7, <1>8, <1>9 DEF ProofsAhead

\* The mint makes the row.
LEMMA MintTaken ==
    ASSUME ProofsAhead, NEW e, Takes("ProofMinted", e), OnProofMinted(e)
    PROVE  ProofsAhead'
<1>1. /\ Waiting("ProofMinted") = {e} /\ Waiting("ProofMinted")' = {}
      /\ Waiting("Transfer")' = Waiting("Transfer")
  BY DEF Takes
<1>2. UNCHANGED <<proofMeta, proofOwner>>
  BY DEF Takes, vaultVars
<1>3. /\ e.token \in Traits /\ e.proof = proofMeta[e.token]
      /\ e.proof \in PV!Proof /\ e.proof.recipient = proofOwner[e.token]
  BY <1>1 DEF ProofsAhead
<1> DEFINE row == [meta |-> e.proof, owner |-> e.proof.recipient]
<1>4. row \in ProofRow /\ row.meta = e.proof /\ row.owner = proofOwner[e.token]
  BY <1>3 DEF ProofRow, PV!Proof
<1>5. proofRow' = [proofRow EXCEPT ![e.token] = row]
  BY DEF OnProofMinted
<1> HIDE DEF row
<1>6. proofRow \in [Traits -> ProofRow \cup {NoRow}]
  BY DEF ProofsAhead
<1>7. proofRow' \in [Traits -> ProofRow \cup {NoRow}]
  BY <1>4, <1>5, <1>6
<1>8. ASSUME NEW t \in Traits
      PROVE  IF proofMeta[t] = NoProof THEN proofRow'[t] = NoRow
             ELSE /\ proofRow'[t] # NoRow /\ proofRow'[t].meta = proofMeta[t]
                  /\ proofRow'[t].owner = proofOwner[t] \/ \E d \in Waiting("Transfer") : d.token = t
  <2>1. CASE t # e.token
    <3>1. proofRow'[t] = proofRow[t]
      BY <1>5, <1>6, <2>1
    <3> QED BY <1>1, <2>1, <3>1 DEF ProofsAhead
  <2>2. CASE t = e.token
    BY <1>3, <1>4, <1>5, <1>6, <2>2, NoProofAssumption, RowAssumption
       DEF NoProofAssumption, RowAssumption
  <2> QED BY <2>1, <2>2
<1>9. proofOwner \in [Traits -> Accounts \cup {NoAccount}]
  BY DEF ProofsAhead
<1> QED BY <1>1, <1>2, <1>7, <1>8, <1>9 DEF ProofsAhead

\* The allowlist is edited.
LEMMA EditTaken ==
    ASSUME SellersAhead, NEW e, Takes("AllowedSellers", e), OnAllowedSellers(e)
    PROVE  SellersAhead'
BY DEF SellersAhead, Takes, OnAllowedSellers, patronVars

\* A refund is queued or withdrawn.
LEMMA RefundTaken ==
    ASSUME RefundsAhead, NEW e, OnRefund(e),
           Takes("RefundQueued", e) \/ Takes("RefundWithdrawn", e)
    PROVE  RefundsAhead'
<1>1. pendingRefund' = pendingRefund
  BY DEF Takes, auctionVars
<1>2. CASE Takes("RefundQueued", e)
  <2>1. Waiting("RefundQueued") = {e} /\ e.kind = "RefundQueued"
    BY <1>2 DEF Takes
  <2>2. Waiting("RefundQueued")' = {} /\ Waiting("RefundWithdrawn")' = Waiting("RefundWithdrawn")
    BY <1>2 DEF Takes
  <2>3. refunds' = [refunds EXCEPT ![e.who] = @ + e.value]
    BY <2>1 DEF OnRefund
  <2>4. /\ Waiting("RefundWithdrawn") = {}
        /\ pendingRefund = [refunds EXCEPT ![e.who] = @ + e.value]
    BY <2>1 DEF RefundsAhead
  <2> QED BY <1>1, <2>2, <2>3, <2>4 DEF RefundsAhead
<1>3. CASE Takes("RefundWithdrawn", e)
  <2>1. Waiting("RefundWithdrawn") = {e} /\ e.kind = "RefundWithdrawn"
    BY <1>3 DEF Takes
  <2>2. Waiting("RefundWithdrawn")' = {} /\ Waiting("RefundQueued")' = Waiting("RefundQueued")
    BY <1>3 DEF Takes
  <2>3. refunds' = [refunds EXCEPT ![e.who] = @ - e.value]
    BY <2>1 DEF OnRefund
  <2>4. /\ Waiting("RefundQueued") = {}
        /\ pendingRefund = [refunds EXCEPT ![e.who] = @ - e.value]
    BY <2>1 DEF RefundsAhead
  <2> QED BY <1>1, <2>2, <2>3, <2>4 DEF RefundsAhead
<1> QED BY <1>2, <1>3

\* An attempt is counted.
LEMMA TrialTaken ==
    ASSUME TrialsAhead, NEW e, Takes("AcquisitionRecorded", e), OnAcquisitionRecorded(e)
    PROVE  TrialsAhead'
BY DEF TrialsAhead, Takes, OnAcquisitionRecorded, recordsVars
\* The slots are of their type, and show how the auction has ended.
LEMMA SlotFacts ==
    ASSUME IInv, AuctionsInv, NEW p \in Punks
    PROVE  /\ sales[p] \in Auctions!Sale
           /\ RA!Open(p) <=> sales[p].phase = "open"
           /\ RA!Open(p) => custody[p] = "InReturnAuction" /\ Outcome(p) = "none"
<1>1. RA!Open(p) <=> custody[p] = "InReturnAuction"
  BY DEF IInv, ContractsAgree
<1> QED BY <1>1 DEF AuctionsInv, Auctions!IInv, Auctions!SlotTypes, Outcome, RA!Open

\* The row of the auction of a Punk, while it waits for a bid or its end.
ShowsSlot(r, p) ==
    /\ r \in AuctionRow
    /\ r.cost = sales[p].cost /\ r.reserve = sales[p].reserve
    /\ \/ r.left = sales[p].left /\ r.high = sales[p].high /\ r.bidder = sales[p].bidder
       \/ \E e \in Waiting("BidPlaced") : e.punk = p
    /\ \/ r.outcome = Outcome(p)
       \/ \E e \in Waiting("ReturnAuctionCleared") \cup Waiting("PunkVaulted") : e.punk = p

\* What AuctionAhead says of the rows, in terms of ShowsSlot.
LEMMA AuctionRows ==
    ASSUME AuctionAhead
    PROVE  /\ auctionRow \in [Punks -> AuctionRow \cup {NoRow}]
           /\ \A p \in Punks :
                \/ \E e \in Waiting("ReturnAuctionStarted") : e.punk = p
                \/ IF sales[p].phase = "none" THEN auctionRow[p] = NoRow
                   ELSE ShowsSlot(auctionRow[p], p)
BY DEF AuctionAhead, ShowsSlot

\* The start of an auction makes its row, or a new one in its place.
LEMMA StartTaken ==
    ASSUME IInv, AuctionsInv, RowsAgree, AuctionAhead, NEW e,
           Takes("ReturnAuctionStarted", e), OnReturnAuctionStarted(e)
    PROVE  AuctionAhead'
<1> DEFINE p == e.punk
           target == IF acquisitionRow[p] = NoRow THEN NoTrait ELSE acquisitionRow[p].target
           row == StartData(p, e.sale, target)
<1>1. /\ Waiting("ReturnAuctionStarted") = {e} /\ Waiting("ReturnAuctionStarted")' = {}
      /\ Waiting("BidPlaced")' = Waiting("BidPlaced")
      /\ Waiting("Extended")' = Waiting("Extended")
      /\ Waiting("ReturnAuctionCleared")' = Waiting("ReturnAuctionCleared")
      /\ Waiting("PunkVaulted")' = Waiting("PunkVaulted")
  BY DEF Takes
<1>2. UNCHANGED <<sales, custody>> /\ \A q : Outcome(q)' = Outcome(q) /\ RA!Open(q)' = RA!Open(q)
  BY DEF Takes, auctionVars, recordsVars, Outcome, RA!Open
<1>3. /\ p \in Punks /\ e.sale = sales[p] /\ RA!Open(p)
      /\ e.sale.high = 0 /\ e.sale.bidder = NoAccount
  BY <1>1 DEF AuctionAhead
<1>4. /\ Waiting("BidPlaced") = {} /\ Waiting("Extended") = {}
      /\ Waiting("ReturnAuctionCleared") = {} /\ Waiting("PunkVaulted") = {}
  BY <1>1 DEF AuctionAhead
<1>5. auctionRow' = [auctionRow EXCEPT ![p] = row]
  BY DEF OnReturnAuctionStarted
<1>6. target \in Traits \cup {NoTrait}
  BY <1>3 DEF RowsAgree, AcquisitionRow
<1> HIDE DEF target
<1>7. row \in AuctionRow /\ row.cost = sales[p].cost /\ row.reserve = sales[p].reserve
      /\ row.left = sales[p].left /\ row.high = sales[p].high
      /\ row.bidder = sales[p].bidder /\ row.outcome = Outcome(p)
  BY <1>3, <1>6, SlotFacts DEF StartData, AuctionRow, Auctions!Sale
<1> HIDE DEF row
<1>8. auctionRow' \in [Punks -> AuctionRow \cup {NoRow}]
  BY <1>5, <1>7, AuctionRows
<1>9. ASSUME NEW q \in Punks
      PROVE  IF sales[q].phase = "none" THEN auctionRow'[q] = NoRow
             ELSE /\ auctionRow'[q] # NoRow /\ auctionRow'[q].cost = sales[q].cost
                  /\ auctionRow'[q].reserve = sales[q].reserve
                  /\ auctionRow'[q].left = sales[q].left /\ auctionRow'[q].high = sales[q].high
                  /\ auctionRow'[q].bidder = sales[q].bidder
                  /\ auctionRow'[q].outcome = Outcome(q)
  <2>1. CASE q = p
    <3>1. sales[q].phase # "none" /\ auctionRow'[q] = row
      BY <1>3, <1>5, <2>1, SlotFacts, AuctionRows
    <3> QED BY <1>7, <2>1, <3>1, RowAssumption DEF RowAssumption
  <2>2. CASE q # p
    <3>1. auctionRow'[q] = auctionRow[q]
      BY <1>5, <2>2, AuctionRows
    <3> QED BY <1>1, <1>4, <2>2, <3>1 DEF AuctionAhead
  <2> QED BY <2>1, <2>2
<1> QED BY <1>1, <1>2, <1>4, <1>8, <1>9 DEF AuctionAhead

\* A row that is changed in place still shows its slot.
LEMMA RowChanged ==
    ASSUME AuctionAhead, UNCHANGED <<sales, custody>>,
           Waiting("ReturnAuctionStarted") = {}, Waiting("ReturnAuctionStarted")' = {},
           \A k : Waiting(k)' \subseteq Waiting(k),
           NEW p \in Punks, sales[p].phase # "none", NEW row,
           auctionRow' = [auctionRow EXCEPT ![p] = row],
           \A k \in {"BidPlaced", "ReturnAuctionCleared", "PunkVaulted"} :
              \A e \in Waiting(k) : e.punk # p => e \in Waiting(k)',
           ShowsSlot(row, p)'
    PROVE  AuctionAhead'
<1>1. /\ auctionRow \in [Punks -> AuctionRow \cup {NoRow}] /\ row \in AuctionRow
  BY AuctionRows DEF ShowsSlot
<1>2. auctionRow' \in [Punks -> AuctionRow \cup {NoRow}]
  BY <1>1
<1>3. \A q : Outcome(q)' = Outcome(q) /\ RA!Open(q)' = RA!Open(q)
  BY DEF Outcome, RA!Open
<1>4. ASSUME NEW q \in Punks
      PROVE  IF sales[q].phase = "none" THEN auctionRow'[q] = NoRow
             ELSE auctionRow'[q] # NoRow /\ ShowsSlot(auctionRow[q], q)'
  <2>1. CASE q = p
    BY <1>1, <2>1, RowAssumption DEF RowAssumption
  <2>2. CASE q # p
    <3>1. auctionRow'[q] = auctionRow[q]
      BY <1>1, <2>2
    <3>2. IF sales[q].phase = "none" THEN auctionRow[q] = NoRow
          ELSE auctionRow[q] # NoRow /\ ShowsSlot(auctionRow[q], q)
      BY AuctionRows DEF AuctionAhead
    <3>3. ASSUME ShowsSlot(auctionRow[q], q) PROVE ShowsSlot(auctionRow[q], q)'
      BY <1>3, <2>2, <3>1, <3>3 DEF ShowsSlot
    <3> QED BY <3>1, <3>2, <3>3
  <2> QED BY <2>1, <2>2
<1>5. ASSUME NEW q \in Punks
      PROVE  IF sales'[q].phase = "none" THEN auctionRow'[q] = NoRow
             ELSE /\ auctionRow'[q] # NoRow /\ auctionRow'[q].cost = sales'[q].cost
                  /\ auctionRow'[q].reserve = sales'[q].reserve
                  /\ \/ /\ auctionRow'[q].left = sales'[q].left
                        /\ auctionRow'[q].high = sales'[q].high
                        /\ auctionRow'[q].bidder = sales'[q].bidder
                     \/ \E e \in Waiting("BidPlaced")' : e.punk = q
                  /\ \/ auctionRow'[q].outcome = Outcome(q)'
                     \/ \E e \in Waiting("ReturnAuctionCleared")' \cup Waiting("PunkVaulted")' :
                           e.punk = q
  BY <1>4 DEF ShowsSlot
<1>6. \A k : \A e : e \in Waiting(k)' => e \in Waiting(k)
  OBVIOUS
<1>7. /\ \A e \in Waiting("BidPlaced")' :
            /\ e.punk \in Punks /\ RA!Open(e.punk)' /\ Waiting("ReturnAuctionStarted")' = {}
            /\ e.left = sales'[e.punk].left
            /\ e.value = sales'[e.punk].high /\ e.who = sales'[e.punk].bidder
      /\ \A e \in Waiting("Extended")' :
            /\ e.punk \in Punks /\ RA!Open(e.punk)' /\ Waiting("ReturnAuctionStarted")' = {}
            /\ e.left = sales'[e.punk].left
      /\ \A e \in Waiting("ReturnAuctionCleared")' \cup Waiting("PunkVaulted")' :
            /\ e.punk \in Punks /\ sales'[e.punk].phase # "none"
            /\ Waiting("ReturnAuctionStarted")' = {}
      /\ \A e \in Waiting("ReturnAuctionCleared")' : custody'[e.punk] = "ReturnedToMarket"
      /\ \A e \in Waiting("PunkVaulted")' : custody'[e.punk] = "Vaulted"
  BY <1>3, <1>6 DEF AuctionAhead
<1> QED BY <1>2, <1>5, <1>7 DEF AuctionAhead
\* A bid, or the extension it causes, is entered in the row.
LEMMA BidTaken ==
    ASSUME IInv, AuctionsInv, AuctionAhead, NEW e, Takes("BidPlaced", e), OnBidPlaced(e)
    PROVE  AuctionAhead'
<1> DEFINE p == e.punk
<1>0. PICK old : old = auctionRow[p]
  OBVIOUS
<1>1. PICK more : more = IF e.left > old.left THEN old.extensions + 1 ELSE old.extensions
  OBVIOUS
<1> DEFINE row == [old EXCEPT !.high = e.value, !.bidder = e.who, !.left = e.left,
                      !.extensions = more]
<1>2. /\ Waiting("BidPlaced") = {e} /\ Waiting("BidPlaced")' = {}
      /\ \A k : k # "BidPlaced" => Waiting(k)' = Waiting(k)
  BY DEF Takes
<1>3. UNCHANGED <<sales, custody>> /\ Outcome(p)' = Outcome(p)
  <2>1. UNCHANGED <<sales, custody>>
    BY DEF Takes, auctionVars, recordsVars
  <2> QED BY <2>1 DEF Outcome
<1>4. /\ p \in Punks /\ RA!Open(p) /\ Waiting("ReturnAuctionStarted") = {}
      /\ e.left = sales[p].left /\ e.value = sales[p].high /\ e.who = sales[p].bidder
  BY <1>2 DEF AuctionAhead
<1>5. sales[p] \in Auctions!Sale /\ sales[p].phase # "none"
  BY <1>4, SlotFacts
<1>6. ShowsSlot(old, p) /\ auctionRow \in [Punks -> AuctionRow \cup {NoRow}]
  BY <1>0, <1>4, <1>5, AuctionRows
<1>7. auctionRow' = [auctionRow EXCEPT ![p] = row]
  BY <1>0, <1>1, <1>4, <1>6 DEF OnBidPlaced
<1>8. more \in Nat
  BY <1>1, <1>6 DEF ShowsSlot, AuctionRow
<1>9. row \in AuctionRow /\ row.cost = old.cost /\ row.reserve = old.reserve
      /\ row.left = sales[p].left /\ row.high = sales[p].high
      /\ row.bidder = sales[p].bidder /\ row.outcome = old.outcome
  BY <1>4, <1>5, <1>6, <1>8 DEF ShowsSlot, AuctionRow, Auctions!Sale
<1> HIDE DEF row
<1>10. Waiting("ReturnAuctionCleared")' = Waiting("ReturnAuctionCleared")
      /\ Waiting("PunkVaulted")' = Waiting("PunkVaulted")
      /\ Waiting("ReturnAuctionStarted")' = Waiting("ReturnAuctionStarted")
  BY <1>2
<1>11. ShowsSlot(row, p)'
  BY <1>3, <1>6, <1>9, <1>10 DEF ShowsSlot
<1>12. \A k : Waiting(k)' \subseteq Waiting(k)
  BY <1>2
<1>13. \A k \in {"BidPlaced", "ReturnAuctionCleared", "PunkVaulted"} :
          \A d \in Waiting(k) : d.punk # p => d \in Waiting(k)'
  BY <1>2
<1> HIDE DEF p
<1> QED BY <1>3, <1>4, <1>5, <1>7, <1>10, <1>11, <1>12, <1>13, RowChanged

\* The handler of an extension takes the left time of the slot to the row.
LEMMA ExtensionTaken ==
    ASSUME IInv, AuctionsInv, AuctionAhead, NEW e, Takes("Extended", e),
           OnReturnAuctionExtended(e)
    PROVE  AuctionAhead'
<1> DEFINE p == e.punk
<1>0. PICK old : old = auctionRow[p]
  OBVIOUS
<1> DEFINE row == [old EXCEPT !.left = e.left]
<1>1. /\ Waiting("Extended") = {e} /\ Waiting("Extended")' = {}
      /\ \A k : k # "Extended" => Waiting(k)' = Waiting(k)
  BY DEF Takes
<1>2. UNCHANGED <<sales, custody>> /\ Outcome(p)' = Outcome(p)
  <2>1. UNCHANGED <<sales, custody>>
    BY DEF Takes, auctionVars, recordsVars
  <2> QED BY <2>1 DEF Outcome
<1>3. /\ p \in Punks /\ RA!Open(p) /\ Waiting("ReturnAuctionStarted") = {}
      /\ e.left = sales[p].left
  BY <1>1 DEF AuctionAhead
<1>4. sales[p] \in Auctions!Sale /\ sales[p].phase # "none"
  BY <1>3, SlotFacts
<1>5. ShowsSlot(old, p) /\ auctionRow \in [Punks -> AuctionRow \cup {NoRow}]
  BY <1>0, <1>3, <1>4, AuctionRows
<1>6. auctionRow' = [auctionRow EXCEPT ![p] = row]
  BY <1>0, <1>3, <1>5 DEF OnReturnAuctionExtended
<1>7. row \in AuctionRow /\ row.cost = old.cost /\ row.reserve = old.reserve
      /\ row.left = sales[p].left /\ row.high = old.high
      /\ row.bidder = old.bidder /\ row.outcome = old.outcome
  BY <1>3, <1>4, <1>5 DEF ShowsSlot, AuctionRow, Auctions!Sale
<1> HIDE DEF row
<1>8. /\ Waiting("BidPlaced")' = Waiting("BidPlaced")
      /\ Waiting("ReturnAuctionCleared")' = Waiting("ReturnAuctionCleared")
      /\ Waiting("PunkVaulted")' = Waiting("PunkVaulted")
      /\ Waiting("ReturnAuctionStarted")' = Waiting("ReturnAuctionStarted")
  BY <1>1
<1>9. ShowsSlot(row, p)'
  BY <1>2, <1>5, <1>7, <1>8 DEF ShowsSlot
<1>10. \A k : Waiting(k)' \subseteq Waiting(k)
  BY <1>1
<1>11. \A k \in {"BidPlaced", "ReturnAuctionCleared", "PunkVaulted"} :
          \A d \in Waiting(k) : d.punk # p => d \in Waiting(k)'
  BY <1>1
<1> HIDE DEF p
<1> QED BY <1>2, <1>3, <1>4, <1>6, <1>8, <1>9, <1>10, <1>11, RowChanged

\* The end of an auction is entered in its row.
LEMMA EndTaken ==
    ASSUME IInv, AuctionsInv, AuctionAhead, NEW e, NEW kind, NEW outcome,
           \/ kind = "ReturnAuctionCleared" /\ outcome = "Cleared"
           \/ kind = "PunkVaulted" /\ outcome = "Vaulted",
           Takes(kind, e), auctionRow' = [auctionRow EXCEPT ![e.punk].outcome = outcome]
    PROVE  AuctionAhead'
<1> DEFINE p == e.punk
<1>0. PICK old : old = auctionRow[p]
  OBVIOUS
<1> DEFINE row == [old EXCEPT !.outcome = outcome]
<1>1. /\ Waiting(kind) = {e} /\ Waiting(kind)' = {}
      /\ \A k : k # kind => Waiting(k)' = Waiting(k)
  BY DEF Takes
<1>2. UNCHANGED <<sales, custody>> /\ Outcome(p)' = Outcome(p)
  <2>1. UNCHANGED <<sales, custody>>
    BY DEF Takes, auctionVars, recordsVars
  <2> QED BY <2>1 DEF Outcome
<1>3. /\ e \in Waiting("ReturnAuctionCleared") \cup Waiting("PunkVaulted")
      /\ kind = "ReturnAuctionCleared" => e \in Waiting("ReturnAuctionCleared")
      /\ kind = "PunkVaulted" => e \in Waiting("PunkVaulted")
  BY <1>1
<1>4. /\ p \in Punks /\ sales[p].phase # "none" /\ Waiting("ReturnAuctionStarted") = {}
      /\ kind = "ReturnAuctionCleared" => custody[p] = "ReturnedToMarket"
      /\ kind = "PunkVaulted" => custody[p] = "Vaulted"
  BY <1>3 DEF AuctionAhead
<1>5. Outcome(p) = outcome
  BY <1>4 DEF Outcome
<1>6. ShowsSlot(old, p) /\ auctionRow \in [Punks -> AuctionRow \cup {NoRow}]
  BY <1>0, <1>4, AuctionRows
<1>7. auctionRow' = [auctionRow EXCEPT ![p] = row]
  BY <1>0, <1>4, <1>6
<1>8. row \in AuctionRow /\ row.cost = old.cost /\ row.reserve = old.reserve
      /\ row.left = old.left /\ row.high = old.high
      /\ row.bidder = old.bidder /\ row.outcome = outcome
  BY <1>6 DEF ShowsSlot, AuctionRow
<1> HIDE DEF row
<1>9. /\ Waiting("BidPlaced")' = Waiting("BidPlaced")
      /\ Waiting("ReturnAuctionStarted")' = Waiting("ReturnAuctionStarted")
  BY <1>1
<1>10. ShowsSlot(row, p)'
  BY <1>2, <1>5, <1>6, <1>8, <1>9 DEF ShowsSlot
<1>11. \A k : Waiting(k)' \subseteq Waiting(k)
  BY <1>1
<1>12. \A k \in {"BidPlaced", "ReturnAuctionCleared", "PunkVaulted"} :
          \A d \in Waiting(k) : d.punk # p => d \in Waiting(k)'
  BY <1>1
<1> HIDE DEF p
<1> QED BY <1>2, <1>4, <1>7, <1>9, <1>10, <1>11, <1>12, RowChanged

\* A target that is filled in later is not what the row is checked for.
LEMMA PatchTaken ==
    ASSUME AuctionAhead, NEW p \in Punks, NEW t \in Traits, PatchTarget(p, t),
           UNCHANGED <<sales, custody>>,
           Waiting("ReturnAuctionStarted")' = Waiting("ReturnAuctionStarted"),
           Waiting("BidPlaced")' = Waiting("BidPlaced"),
           Waiting("Extended")' = Waiting("Extended"),
           Waiting("ReturnAuctionCleared")' = Waiting("ReturnAuctionCleared"),
           Waiting("PunkVaulted")' = Waiting("PunkVaulted")
    PROVE  AuctionAhead'
<1>1. auctionRow \in [Punks -> AuctionRow \cup {NoRow}]
  BY AuctionRows
<1>2. CASE auctionRow[p] # NoRow /\ auctionRow[p].target = NoTrait
  <2> DEFINE row == [auctionRow[p] EXCEPT !.target = t]
  <2>1. auctionRow' = [auctionRow EXCEPT ![p] = row]
    BY <1>1, <1>2 DEF PatchTarget
  <2>2. /\ row \in AuctionRow /\ row.cost = auctionRow[p].cost
        /\ row.reserve = auctionRow[p].reserve
        /\ row.left = auctionRow[p].left /\ row.high = auctionRow[p].high
        /\ row.bidder = auctionRow[p].bidder /\ row.outcome = auctionRow[p].outcome
    BY <1>1, <1>2 DEF AuctionRow
  <2> HIDE DEF row
  <2>3. auctionRow' \in [Punks -> AuctionRow \cup {NoRow}]
    BY <1>1, <2>1, <2>2
  <2>4. ASSUME NEW q \in Punks
        PROVE  /\ auctionRow'[q] = NoRow <=> auctionRow[q] = NoRow
               /\ auctionRow[q] # NoRow =>
                    /\ auctionRow'[q].cost = auctionRow[q].cost
                    /\ auctionRow'[q].reserve = auctionRow[q].reserve
                    /\ auctionRow'[q].left = auctionRow[q].left
                    /\ auctionRow'[q].high = auctionRow[q].high
                    /\ auctionRow'[q].bidder = auctionRow[q].bidder
                    /\ auctionRow'[q].outcome = auctionRow[q].outcome
    BY <1>1, <1>2, <2>1, <2>2, RowAssumption DEF RowAssumption
  <2>5. \A q : Outcome(q)' = Outcome(q) /\ RA!Open(q)' = RA!Open(q)
    BY DEF Outcome, RA!Open
  <2> QED BY <2>3, <2>4, <2>5 DEF AuctionAhead
<1>3. CASE ~(auctionRow[p] # NoRow /\ auctionRow[p].target = NoTrait)
  BY <1>3, AuctionSame DEF PatchTarget
<1> QED BY <1>2, <1>3
-----------------------------------------------------------------------------
\* Once the history has caught up, the row of a Punk points to the history row
\* of its latest acquisition.
LEMMA LatestRow ==
    ASSUME Core!IInv, LogAhead, RowsAgree, Waiting("AcquisitionRecorded") = {},
           NEW p \in Punks
    PROVE  /\ Len(history) = Len(acquisitions)
           /\ acquisitionIndexOf[p] = 0 => HistoryOf(p) = {} /\ acquisitionRow[p] = NoRow
           /\ acquisitionIndexOf[p] # 0 =>
                /\ acquisitionIndexOf[p] \in 1 .. Len(history)
                /\ acquisitionIndexOf[p] \in HistoryOf(p)
                /\ acquisitionRow[p] \in AcquisitionRow
                /\ acquisitionRow[p].latest = acquisitionIndexOf[p]
                /\ acquisitionRow[p].count = Cardinality(HistoryOf(p))
                /\ acquisitionRow[p].target = acquisitions[acquisitionIndexOf[p]].target
                /\ acquisitionRow[p].seller = acquisitions[acquisitionIndexOf[p]].seller
                /\ acquisitionRow[p].custody = history[acquisitionIndexOf[p]].custody
<1> DEFINE i == acquisitionIndexOf[p]
           n == Len(history)
<1>1. /\ n \in Nat /\ Len(acquisitions) = n
      /\ \A k \in 1 .. n : history[k].punk = acquisitions[k].punk
                           /\ history[k].target = acquisitions[k].target
                           /\ history[k].seller = acquisitions[k].seller
  BY DEF LogAhead
<1>2. /\ i \in Nat
      /\ i # 0 => i \in 1 .. n /\ acquisitions[i].punk = p
      /\ \A k \in 1 .. n : acquisitionIndexOf[acquisitions[k].punk] # k =>
            k < acquisitionIndexOf[acquisitions[k].punk]
  BY <1>1 DEF Core!IInv, Core!TypeOK, Core!IndexInv, Core!OldRowsInv, Core!RowOf
<1>3. ASSUME NEW k \in HistoryOf(p) PROVE k \in 1 .. n /\ i # 0 /\ k <= i
  <2>1. k \in 1 .. n /\ acquisitions[k].punk = p
    BY <1>1 DEF HistoryOf
  <2> QED BY <1>1, <1>2, <2>1
<1>4. CASE i = 0
  <2>1. HistoryOf(p) = {}
    BY <1>3, <1>4
  <2> QED BY <1>1, <1>4, <2>1 DEF RowsAgree
<1>5. CASE i # 0
  <2>1. i \in HistoryOf(p) /\ i \in 1 .. n
    BY <1>1, <1>2, <1>5 DEF HistoryOf
  <2>2. /\ acquisitionRow[p] # NoRow /\ acquisitionRow[p] \in AcquisitionRow \cup {NoRow}
        /\ acquisitionRow[p].latest \in HistoryOf(p) /\ i <= acquisitionRow[p].latest
        /\ acquisitionRow[p].count = Cardinality(HistoryOf(p))
        /\ acquisitionRow[p].target = history[acquisitionRow[p].latest].target
        /\ acquisitionRow[p].seller = history[acquisitionRow[p].latest].seller
        /\ acquisitionRow[p].custody = history[acquisitionRow[p].latest].custody
    BY <2>1 DEF RowsAgree
  <2>3. acquisitionRow[p].latest = i
    BY <1>3, <2>1, <2>2
  <2> QED BY <1>1, <1>5, <2>1, <2>2, <2>3
<1> QED BY <1>4, <1>5

\* A vaulted Punk gets its row, with the trait it is locked for.
LEMMA VaultedTaken ==
    ASSUME Core!IInv, IInv, LogAhead, RowsAgree, VaultedAhead, NEW e,
           Takes("PunkVaulted", e), OnPunkVaulted(e)
    PROVE  VaultedAhead'
<1> DEFINE p == e.punk
<1>1. /\ Waiting("PunkVaulted") = {e} /\ Waiting("PunkVaulted")' = {}
      /\ UNCHANGED isLocked /\ \A q : PC!TargetOf(q)' = PC!TargetOf(q)
  BY TargetsSame DEF Takes, vaultVars
<1>2. p \in isLocked /\ Waiting("AcquisitionRecorded") = {}
      /\ vaultedRow \in [Punks -> Traits \cup {NoTrait, NoRow}]
  BY <1>1 DEF VaultedAhead
<1>3. p \in Punks /\ custody[p] = "Vaulted"
  BY <1>2 DEF IInv, Shapes, ContractsAgree
<1>4. acquisitionIndexOf[p] # 0
  BY <1>3 DEF Core!IInv, Core!IndexInv
<1>5. acquisitionRow[p] \in AcquisitionRow /\ acquisitionRow[p].target = PC!TargetOf(p)
  BY <1>2, <1>3, <1>4, LatestRow DEF PC!TargetOf, PC!RowOf
<1>6. acquisitionRow[p] # NoRow /\ acquisitionRow[p].target \in Traits
  BY <1>5, RowAssumption DEF RowAssumption, AcquisitionRow
<1>7. vaultedRow' = [vaultedRow EXCEPT ![p] = PC!TargetOf(p)]
  BY <1>5, <1>6 DEF OnPunkVaulted
<1>8. vaultedRow' \in [Punks -> Traits \cup {NoTrait, NoRow}]
  BY <1>2, <1>5, <1>6, <1>7
<1>9. ASSUME NEW q \in Punks
      PROVE  IF q \in isLocked THEN vaultedRow'[q] = PC!TargetOf(q) ELSE vaultedRow'[q] = NoRow
  <2>1. CASE q = p
    BY <1>2, <1>3, <1>7, <2>1
  <2>2. CASE q # p
    <3>1. vaultedRow'[q] = vaultedRow[q]
      BY <1>2, <1>7, <2>2
    <3> QED BY <1>1, <2>2, <3>1 DEF VaultedAhead
  <2> QED BY <2>1, <2>2
<1> QED BY <1>1, <1>8, <1>9 DEF VaultedAhead
-----------------------------------------------------------------------------
\* The outcome of an acquisition is entered in its history row, and in the row
\* of its Punk.
LEMMA OutcomeTaken ==
    ASSUME Core!IInv, IInv, LogAhead, RowsAgree, NEW e, Takes("CustodyUpdated", e),
           Waiting("AcquisitionRecorded") = {}, OnCustodyUpdated(e)
    PROVE  LogAhead' /\ RowsAgree'
<1> DEFINE p == e.punk
<1>0. PICK i : i = acquisitionIndexOf[p]
  OBVIOUS
<1>1. /\ Waiting("CustodyUpdated") = {e} /\ Waiting("CustodyUpdated")' = {}
      /\ Waiting("AcquisitionRecorded")' = {}
      /\ UNCHANGED <<acquisitions, acquisitionIndexOf, custody>>
  BY DEF Takes, recordsVars
<1>2. p \in Punks /\ i # 0 /\ e.outcome = custody[p]
  BY <1>0, <1>1 DEF LogAhead
<1>3. /\ Len(history) = Len(acquisitions) /\ i \in 1 .. Len(history) /\ i \in HistoryOf(p)
      /\ acquisitionRow[p] \in AcquisitionRow /\ acquisitionRow[p].latest = i
  BY <1>0, <1>2, LatestRow
<1>4. /\ history \in Seq(HistoryRow)
      /\ acquisitionRow \in [Punks -> AcquisitionRow \cup {NoRow}]
  BY DEF LogAhead, RowsAgree
<1>5. e.outcome \in PC!Custody /\ acquisitions[i].custody = e.outcome
      /\ acquisitions[i].punk = p
  BY <1>0, <1>2 DEF IInv, Shapes, Core!IInv, Core!IndexInv, Core!RowOf
<1>6. /\ history' = [history EXCEPT ![i].custody = e.outcome]
      /\ acquisitionRow' = [acquisitionRow EXCEPT ![p].custody = e.outcome]
  BY <1>3 DEF OnCustodyUpdated
<1>7. history[i] \in HistoryRow
  BY <1>3, <1>4
<1>8. /\ [history[i] EXCEPT !.custody = e.outcome] \in HistoryRow
      /\ [acquisitionRow[p] EXCEPT !.custody = e.outcome] \in AcquisitionRow
  BY <1>3, <1>5, <1>7 DEF HistoryRow, AcquisitionRow
<1>9. /\ history' \in Seq(HistoryRow) /\ Len(history') = Len(history)
      /\ acquisitionRow' \in [Punks -> AcquisitionRow \cup {NoRow}]
  <2>1. PICK h : h = [history[i] EXCEPT !.custody = e.outcome]
    OBVIOUS
  <2>2. history' = [history EXCEPT ![i] = h]
    BY <1>6, <2>1
  <2>3. [history EXCEPT ![i] = h] \in Seq(HistoryRow)
        /\ Len([history EXCEPT ![i] = h]) = Len(history)
    BY <1>3, <1>4, <1>8, <2>1, ExceptSeq
  <2>4. acquisitionRow' \in [Punks -> AcquisitionRow \cup {NoRow}]
    BY <1>4, <1>6, <1>8
  <2> QED BY <2>2, <2>3, <2>4
<1>10. ASSUME NEW k \in 1 .. Len(history)
       PROVE  /\ history'[k].punk = history[k].punk
              /\ history'[k].target = history[k].target
              /\ history'[k].acquirer = history[k].acquirer
              /\ history'[k].seller = history[k].seller
              /\ history'[k].price = history[k].price
              /\ history'[k].seq = history[k].seq
              /\ history'[k].custody = IF k = i THEN e.outcome ELSE history[k].custody
  <2>1. CASE k = i
    <3>1. history'[k] = [history[i] EXCEPT !.custody = e.outcome]
      BY <1>4, <1>6, <2>1
    <3> QED BY <1>7, <2>1, <3>1 DEF HistoryRow
  <2>2. CASE k # i
    BY <1>4, <1>6, <2>2
  <2> QED BY <2>1, <2>2
<1>11. LogAhead'
  <2>1. ASSUME NEW k \in 1 .. Len(history')
        PROVE  /\ history'[k].punk = acquisitions'[k].punk
               /\ history'[k].target = acquisitions'[k].target
               /\ history'[k].acquirer = acquisitions'[k].acquirer
               /\ history'[k].seller = acquisitions'[k].seller
               /\ history'[k].price = acquisitions'[k].price
               /\ history'[k].custody = acquisitions'[k].custody
    <3>1. k \in 1 .. Len(history)
      BY <1>9
    <3>2. /\ history[k].punk = acquisitions[k].punk
          /\ history[k].target = acquisitions[k].target
          /\ history[k].acquirer = acquisitions[k].acquirer
          /\ history[k].seller = acquisitions[k].seller
          /\ history[k].price = acquisitions[k].price
          /\ history[k].custody = acquisitions[k].custody \/ k = i
      BY <1>0, <1>1, <3>1 DEF LogAhead
    <3> QED BY <1>1, <1>5, <1>10, <3>1, <3>2
  <2> QED BY <1>1, <1>3, <1>9, <2>1 DEF LogAhead
<1>12. \A q : HistoryOf(q)' = HistoryOf(q)
  BY <1>9, <1>10 DEF HistoryOf
<1>13. RowsAgree'
  <2>1. ASSUME NEW q \in Punks
        PROVE  IF HistoryOf(q) = {} THEN acquisitionRow'[q] = NoRow
               ELSE /\ acquisitionRow'[q] # NoRow
                    /\ acquisitionRow'[q].latest \in HistoryOf(q)
                    /\ \A k \in HistoryOf(q) : k <= acquisitionRow'[q].latest
                    /\ acquisitionRow'[q].count = Cardinality(HistoryOf(q))
                    /\ acquisitionRow'[q].target = history'[acquisitionRow'[q].latest].target
                    /\ acquisitionRow'[q].seller = history'[acquisitionRow'[q].latest].seller
                    /\ acquisitionRow'[q].custody = history'[acquisitionRow'[q].latest].custody
    <3>1. IF HistoryOf(q) = {} THEN acquisitionRow[q] = NoRow
          ELSE /\ acquisitionRow[q] # NoRow
               /\ acquisitionRow[q].latest \in HistoryOf(q)
               /\ \A k \in HistoryOf(q) : k <= acquisitionRow[q].latest
               /\ acquisitionRow[q].count = Cardinality(HistoryOf(q))
               /\ acquisitionRow[q].target = history[acquisitionRow[q].latest].target
               /\ acquisitionRow[q].seller = history[acquisitionRow[q].latest].seller
               /\ acquisitionRow[q].custody = history[acquisitionRow[q].latest].custody
      BY DEF RowsAgree
    <3>2. CASE q # p
      <4>1. acquisitionRow'[q] = acquisitionRow[q]
        BY <1>4, <1>6, <3>2
      <4>2. HistoryOf(q) # {} =>
              acquisitionRow[q].latest \in 1 .. Len(history) /\ acquisitionRow[q].latest # i
        BY <1>3, <3>1, <3>2 DEF HistoryOf
      <4> QED BY <1>10, <3>1, <4>1, <4>2
    <3>3. CASE q = p
      <4>1. acquisitionRow'[q] = [acquisitionRow[p] EXCEPT !.custody = e.outcome]
        BY <1>2, <1>4, <1>6, <3>3
      <4>2. /\ acquisitionRow'[q].latest = i /\ acquisitionRow'[q].custody = e.outcome
            /\ acquisitionRow'[q].count = acquisitionRow[q].count
            /\ acquisitionRow'[q].target = acquisitionRow[q].target
            /\ acquisitionRow'[q].seller = acquisitionRow[q].seller
            /\ acquisitionRow'[q] # NoRow
        BY <1>3, <1>8, <3>3, <4>1, RowAssumption DEF AcquisitionRow, RowAssumption
      <4> QED BY <1>3, <1>10, <3>1, <3>3, <4>2
    <3> QED BY <3>2, <3>3
  <2>2. ASSUME NEW k \in 1 .. Len(history')
        PROVE  history'[k].seq
                 = Cardinality({j \in 1 .. k - 1 : history'[j].punk = history'[k].punk})
    <3>1. k \in 1 .. Len(history) /\ 1 .. k - 1 \subseteq 1 .. Len(history)
      BY <1>3, <1>4, <1>9
    <3>2. {j \in 1 .. k - 1 : history'[j].punk = history'[k].punk}
            = {j \in 1 .. k - 1 : history[j].punk = history[k].punk}
      BY <1>10, <3>1
    <3> QED BY <1>10, <3>1, <3>2 DEF RowsAgree
  <2> QED BY <1>9, <1>12, <2>1, <2>2 DEF RowsAgree
<1> QED BY <1>11, <1>13

\* An acquisition gets its history row, numbered, and the row of its Punk is
\* overwritten.
LEMMA RecordTaken ==
    ASSUME Core!IInv, LogAhead, RowsAgree, NEW e, Takes("AcquisitionRecorded", e),
           OnAcquisitionRecorded(e)
    PROVE  LogAhead' /\ RowsAgree'
<1> DEFINE p == e.punk
           a == e.row
<1>0. PICK n, c : n = Len(history) /\ c = PreviousCount(acquisitionRow[p])
  OBVIOUS
<1> DEFINE h == [punk |-> p, seq |-> c,
                 target |-> a.target, acquirer |-> a.acquirer, seller |-> a.seller,
                 price |-> a.price, custody |-> "InReturnAuction"]
           r == [target |-> a.target, acquirer |-> a.acquirer, seller |-> a.seller,
                 price |-> a.price, custody |-> "InReturnAuction", count |-> c + 1,
                 latest |-> n + 1]
<1>1. /\ Waiting("AcquisitionRecorded") = {e} /\ Waiting("AcquisitionRecorded")' = {}
      /\ Waiting("CustodyUpdated")' = Waiting("CustodyUpdated")
      /\ UNCHANGED <<acquisitions, acquisitionIndexOf, custody>>
  BY DEF Takes, recordsVars
<1>2. /\ p \in Punks /\ acquisitions # << >> /\ a = acquisitions[Len(acquisitions)]
      /\ a.punk = p /\ a.custody = "InReturnAuction"
  BY <1>1 DEF LogAhead
<1>3. /\ history \in Seq(HistoryRow) /\ n \in Nat /\ Len(acquisitions) = n + 1
      /\ acquisitions \in Seq(Core!Acquisition)
      /\ acquisitionRow \in [Punks -> AcquisitionRow \cup {NoRow}]
  <2>1. history \in Seq(HistoryRow) /\ Len(acquisitions) = Len(history) + 1
    BY <1>1 DEF LogAhead
  <2>2. acquisitions \in Seq(Core!Acquisition)
    BY DEF Core!IInv, Core!TypeOK
  <2>3. acquisitionRow \in [Punks -> AcquisitionRow \cup {NoRow}]
    BY DEF RowsAgree
  <2> QED BY <1>0, <2>1, <2>2, <2>3
<1>4. a \in Core!Acquisition
  BY <1>2, <1>3
<1>5. IsFiniteSet(HistoryOf(p)) /\ Cardinality(HistoryOf(p)) \in Nat /\ n + 1 \notin HistoryOf(p)
  <2>1. IsFiniteSet(1 .. n)
    BY <1>3, FS_Interval
  <2>2. HistoryOf(p) \subseteq 1 .. n
    BY <1>0 DEF HistoryOf
  <2> QED BY <1>3, <2>1, <2>2, FS_Subset, FS_CardinalityType
<1>6. c = Cardinality(HistoryOf(p)) /\ c \in Nat
  <2>1. Cardinality({}) = 0
    BY FS_EmptySet
  <2> QED BY <1>0, <1>2, <1>5, <2>1 DEF RowsAgree, PreviousCount
<1>7. history' = Append(history, h)
  BY <1>0 DEF OnAcquisitionRecorded
<1>8. acquisitionRow' = [acquisitionRow EXCEPT ![p] = r]
  <2>1. Len(history') = n + 1
    BY <1>0, <1>3, <1>7
  <2> DEFINE new == [target |-> a.target, acquirer |-> a.acquirer, seller |-> a.seller,
                     price |-> a.price, custody |-> "InReturnAuction", count |-> 0,
                     latest |-> 0]
  <2>2. acquisitionRow' = [acquisitionRow EXCEPT
                             ![p] = UpsertAcquisition(acquisitionRow[p], new, n + 1)]
    BY <2>1 DEF OnAcquisitionRecorded
  <2>3. c + 1 = IF acquisitionRow[p] = NoRow THEN 1 ELSE acquisitionRow[p].count + 1
    BY <1>0 DEF PreviousCount
  <2>4. UpsertAcquisition(acquisitionRow[p], new, n + 1)
          = [new EXCEPT !.latest = n + 1, !.count = c + 1]
    BY <2>3 DEF UpsertAcquisition
  <2> DEFINE mid == [target |-> a.target, acquirer |-> a.acquirer, seller |-> a.seller,
                     price |-> a.price, custody |-> "InReturnAuction", count |-> 0,
                     latest |-> n + 1]
  <2>5. [new EXCEPT !.latest = n + 1, !.count = c + 1] = r
    <3>1. [new EXCEPT !.latest = n + 1] = mid
      OBVIOUS
    <3>2. [mid EXCEPT !.count = c + 1] = r
      OBVIOUS
    <3> HIDE DEF new, mid, r
    <3>3. [new EXCEPT !.latest = n + 1, !.count = c + 1]
            = [[new EXCEPT !.latest = n + 1] EXCEPT !.count = c + 1]
      OBVIOUS
    <3> QED BY <3>1, <3>2, <3>3
  <2> HIDE DEF new, r
  <2> QED BY <2>2, <2>4, <2>5
<1>9. h \in HistoryRow /\ r \in AcquisitionRow
  BY <1>2, <1>3, <1>4, <1>6 DEF HistoryRow, AcquisitionRow, Core!Acquisition, PC!Custody, Core!Custody,
     Core!Traits, Traits
<1>10. /\ h.punk = p /\ h.target = a.target /\ h.acquirer = a.acquirer /\ h.seller = a.seller
       /\ h.price = a.price /\ h.custody = "InReturnAuction" /\ h.seq = c
       /\ r.target = a.target /\ r.seller = a.seller /\ r.custody = "InReturnAuction"
       /\ r.count = c + 1 /\ r.latest = n + 1
  OBVIOUS
<1> HIDE DEF h, r
<1>11. /\ history' \in Seq(HistoryRow) /\ Len(history') = n + 1
       /\ history'[n + 1] = h /\ \A k \in 1 .. n : history'[k] = history[k]
       /\ acquisitionRow' \in [Punks -> AcquisitionRow \cup {NoRow}]
  <2>1. Append(history, h) \in Seq(HistoryRow) /\ Len(Append(history, h)) = n + 1
        /\ Append(history, h)[n + 1] = h
        /\ \A k \in 1 .. n : Append(history, h)[k] = history[k]
    BY <1>0, <1>3, <1>9, AppendProperties
  <2>2. acquisitionRow' \in [Punks -> AcquisitionRow \cup {NoRow}]
    BY <1>3, <1>8, <1>9
  <2> QED BY <1>7, <2>1, <2>2
<1>12. LogAhead'
  <2>1. ASSUME NEW k \in 1 .. n + 1
        PROVE  /\ history'[k].punk = acquisitions[k].punk
               /\ history'[k].target = acquisitions[k].target
               /\ history'[k].acquirer = acquisitions[k].acquirer
               /\ history'[k].seller = acquisitions[k].seller
               /\ history'[k].price = acquisitions[k].price
               /\ \/ history'[k].custody = acquisitions[k].custody
                  \/ \E d \in Waiting("CustodyUpdated") :
                        d.punk = acquisitions[k].punk
                        /\ acquisitionIndexOf[acquisitions[k].punk] = k
    <3>1. CASE k = n + 1
      BY <1>2, <1>3, <1>10, <1>11, <3>1
    <3>2. CASE k # n + 1
      <4>1. k \in 1 .. n
        BY <1>3, <3>2
      <4> QED BY <1>0, <1>11, <4>1 DEF LogAhead
    <3> QED BY <3>1, <3>2
  <2>2. \A d \in Waiting("CustodyUpdated") :
          d.punk \in Punks /\ acquisitionIndexOf[d.punk] # 0 /\ d.outcome = custody[d.punk]
    BY DEF LogAhead
  <2> QED BY <1>1, <1>3, <1>11, <2>1, <2>2 DEF LogAhead
<1>13. ASSUME NEW q
       PROVE  HistoryOf(q)' = IF q = p THEN HistoryOf(q) \cup {n + 1} ELSE HistoryOf(q)
  <2>1. \A k \in 1 .. n + 1 : k \in 1 .. n \/ k = n + 1
    BY <1>3
  <2>2. \A k \in 1 .. n : k \in 1 .. n + 1
    BY <1>3
  <2>3. n + 1 \in 1 .. n + 1 /\ n + 1 \notin 1 .. n
    BY <1>3
  <2> QED BY <1>0, <1>10, <1>11, <2>1, <2>2, <2>3 DEF HistoryOf
<1>14. RowsAgree'
  <2>1. ASSUME NEW q \in Punks
        PROVE  IF HistoryOf(q)' = {} THEN acquisitionRow'[q] = NoRow
               ELSE /\ acquisitionRow'[q] # NoRow
                    /\ acquisitionRow'[q].latest \in HistoryOf(q)'
                    /\ \A k \in HistoryOf(q)' : k <= acquisitionRow'[q].latest
                    /\ acquisitionRow'[q].count = Cardinality(HistoryOf(q)')
                    /\ acquisitionRow'[q].target = history'[acquisitionRow'[q].latest].target
                    /\ acquisitionRow'[q].seller = history'[acquisitionRow'[q].latest].seller
                    /\ acquisitionRow'[q].custody = history'[acquisitionRow'[q].latest].custody
    <3>1. CASE q # p
      <4>1. acquisitionRow'[q] = acquisitionRow[q] /\ HistoryOf(q)' = HistoryOf(q)
        BY <1>3, <1>8, <1>13, <3>1
      <4>2. HistoryOf(q) # {} => acquisitionRow[q].latest \in 1 .. n
        BY <1>0 DEF RowsAgree, HistoryOf
      <4> QED BY <1>11, <4>1, <4>2 DEF RowsAgree
    <3>2. CASE q = p
      <4>1. acquisitionRow'[q] = r /\ r # NoRow /\ HistoryOf(q)' = HistoryOf(q) \cup {n + 1}
        BY <1>2, <1>3, <1>8, <1>9, <1>13, <3>2, RowAssumption DEF RowAssumption
      <4>2. Cardinality(HistoryOf(q)') = c + 1
        BY <1>5, <1>6, <3>2, <4>1, FS_AddElement
      <4>3. \A k \in HistoryOf(q)' : k <= n + 1
        BY <1>0, <1>3, <4>1 DEF HistoryOf
      <4> QED BY <1>10, <1>11, <4>1, <4>2, <4>3
    <3> QED BY <3>1, <3>2
  <2>2. ASSUME NEW k \in 1 .. n + 1
        PROVE  history'[k].seq
                 = Cardinality({j \in 1 .. k - 1 : history'[j].punk = history'[k].punk})
    <3>1. \A j \in 1 .. k - 1 : j \in 1 .. n
      BY <1>3
    <3>2. CASE k = n + 1
      <4>1. {j \in 1 .. k - 1 : history'[j].punk = history'[k].punk} = HistoryOf(p)
        BY <1>0, <1>3, <1>10, <1>11, <3>2 DEF HistoryOf
      <4> QED BY <1>6, <1>10, <1>11, <3>2, <4>1
    <3>3. CASE k # n + 1
      <4>1. k \in 1 .. n
        BY <1>3, <3>3
      <4>2. {j \in 1 .. k - 1 : history'[j].punk = history'[k].punk}
              = {j \in 1 .. k - 1 : history[j].punk = history[k].punk}
        BY <1>11, <3>1, <4>1
      <4>3. history[k].seq = Cardinality({j \in 1 .. k - 1 : history[j].punk = history[k].punk})
        BY <1>0, <4>1 DEF RowsAgree
      <4>4. history'[k].seq = history[k].seq
        BY <1>11, <4>1
      <4> QED BY <4>2, <4>3, <4>4
    <3> QED BY <3>2, <3>3
  <2> QED BY <1>11, <2>1, <2>2 DEF RowsAgree
<1> QED BY <1>12, <1>14
-----------------------------------------------------------------------------
\* The counters of what the event does not count.
LEMMA Counted ==
    ASSUME CountersAhead, NEW e, NEW kind, Takes(kind, e),
           NEW f \in {"collected", "acquisitions", "vaulted", "cleared", "proofs", "inflow"},
           NEW v \in Int, counters' = [counters EXCEPT ![f] = @ + v]
    PROVE  /\ counters' \in [{"collected", "acquisitions", "vaulted", "cleared", "proofs",
                              "inflow"} -> Int]
           /\ counters'[f] = counters[f] + v
           /\ \A g \in {"collected", "acquisitions", "vaulted", "cleared", "proofs",
                        "inflow"} : g # f => counters'[g] = counters[g]
BY DEF CountersAhead

\* The counted state stands still.
LEMMA StillCounted ==
    ASSUME NEW e, NEW kind, Takes(kind, e)
    PROVE  /\ UNCHANGED <<collectedMask, acquisitions, lockedPunkCount, proofsMintedCount,
                          received>>
           /\ ClearedRows' = ClearedRows
           /\ kind # "CustodyUpdated" => \A o : Outcomes(o)' = Outcomes(o)
           /\ One(Waiting(kind)) = 1 /\ One(Waiting(kind)') = 0
<1>1. UNCHANGED <<collectedMask, acquisitions, lockedPunkCount, proofsMintedCount, received>>
  BY DEF Takes, recordsVars, vaultVars, auctionVars
<1>2. kind # "CustodyUpdated" => Waiting("CustodyUpdated")' = Waiting("CustodyUpdated")
  BY DEF Takes
<1>3. Waiting(kind) = {e} /\ Waiting(kind)' = {}
  BY DEF Takes
<1> QED BY <1>1, <1>2, <1>3 DEF ClearedRows, Outcomes, One

\* The handler of TraitsCollected counts the trait.
LEMMA CollectionTaken ==
    ASSUME CountersAhead, NEW e, Takes("TraitsCollected", e), OnTraitsCollected(e)
    PROVE  CountersAhead'
<1>1. /\ Waiting("TraitsCollected") = {e} /\ Waiting("TraitsCollected")' = {}
      /\ Waiting("AcquisitionRecorded")' = Waiting("AcquisitionRecorded")
      /\ Waiting("ProofMinted")' = Waiting("ProofMinted")
      /\ Waiting("PoolReplenished")' = Waiting("PoolReplenished")
  BY DEF Takes
<1>2. e.count = 1
  BY <1>1 DEF CountersAhead
<1>3. counters' = [counters EXCEPT !["collected"] = @ + 1]
  BY <1>2 DEF OnTraitsCollected
<1>4. /\ counters' \in [{"collected", "acquisitions", "vaulted", "cleared", "proofs",
                         "inflow"} -> Int]
      /\ counters'.collected = counters.collected + 1 /\ counters.collected \in Int
      /\ counters'.acquisitions = counters.acquisitions
      /\ counters'.vaulted = counters.vaulted
      /\ counters'.cleared = counters.cleared /\ counters'.proofs = counters.proofs
      /\ counters'.inflow = counters.inflow
  BY <1>3, Counted DEF CountersAhead
<1> QED BY <1>1, <1>4, StillCounted DEF CountersAhead

\* The handler of an acquisition counts it.
LEMMA AcquisitionCounted ==
    ASSUME CountersAhead, NEW e, Takes("AcquisitionRecorded", e), OnAcquisitionRecorded(e)
    PROVE  CountersAhead'
<1>1. /\ Waiting("AcquisitionRecorded") = {e} /\ Waiting("AcquisitionRecorded")' = {}
      /\ Waiting("TraitsCollected")' = Waiting("TraitsCollected")
      /\ Waiting("ProofMinted")' = Waiting("ProofMinted")
      /\ Waiting("PoolReplenished")' = Waiting("PoolReplenished")
  BY DEF Takes
<1>2. counters' = [counters EXCEPT !["acquisitions"] = @ + 1]
  BY DEF OnAcquisitionRecorded
<1>3. /\ counters' \in [{"collected", "acquisitions", "vaulted", "cleared", "proofs",
                         "inflow"} -> Int]
      /\ counters'.acquisitions = counters.acquisitions + 1 /\ counters.acquisitions \in Int
      /\ counters'.collected = counters.collected
      /\ counters'.vaulted = counters.vaulted
      /\ counters'.cleared = counters.cleared /\ counters'.proofs = counters.proofs
      /\ counters'.inflow = counters.inflow
  BY <1>2, Counted DEF CountersAhead
<1> QED BY <1>1, <1>3, StillCounted DEF CountersAhead

\* The handler of a mint counts the Proof.
LEMMA MintCounted ==
    ASSUME CountersAhead, NEW e, Takes("ProofMinted", e), OnProofMinted(e)
    PROVE  CountersAhead'
<1>1. /\ Waiting("ProofMinted") = {e} /\ Waiting("ProofMinted")' = {}
      /\ Waiting("TraitsCollected")' = Waiting("TraitsCollected")
      /\ Waiting("AcquisitionRecorded")' = Waiting("AcquisitionRecorded")
      /\ Waiting("PoolReplenished")' = Waiting("PoolReplenished")
  BY DEF Takes
<1>2. counters' = [counters EXCEPT !["proofs"] = @ + 1]
  BY DEF OnProofMinted
<1>3. /\ counters' \in [{"collected", "acquisitions", "vaulted", "cleared", "proofs",
                         "inflow"} -> Int]
      /\ counters'.proofs = counters.proofs + 1 /\ counters.proofs \in Int
      /\ counters'.collected = counters.collected
      /\ counters'.vaulted = counters.vaulted
      /\ counters'.cleared = counters.cleared
      /\ counters'.acquisitions = counters.acquisitions
      /\ counters'.inflow = counters.inflow
  BY <1>2, Counted DEF CountersAhead
<1> QED BY <1>1, <1>3, StillCounted DEF CountersAhead

\* The handler of PoolReplenished adds the inflow.
LEMMA InflowTaken ==
    ASSUME CountersAhead, NEW e, Takes("PoolReplenished", e), OnPoolReplenished(e)
    PROVE  CountersAhead'
<1>1. /\ Waiting("PoolReplenished") = {e} /\ Waiting("PoolReplenished")' = {}
      /\ Waiting("TraitsCollected")' = Waiting("TraitsCollected")
      /\ Waiting("AcquisitionRecorded")' = Waiting("AcquisitionRecorded")
      /\ Waiting("ProofMinted")' = Waiting("ProofMinted")
  BY DEF Takes
<1>2. e.value \in Int /\ received["adapter"] = counters.inflow + e.value
  BY <1>1 DEF CountersAhead
<1>3. counters' = [counters EXCEPT !["inflow"] = @ + e.value]
  BY DEF OnPoolReplenished
<1>4. /\ counters' \in [{"collected", "acquisitions", "vaulted", "cleared", "proofs",
                         "inflow"} -> Int]
      /\ counters'.inflow = counters.inflow + e.value
      /\ counters'.collected = counters.collected
      /\ counters'.vaulted = counters.vaulted
      /\ counters'.cleared = counters.cleared /\ counters'.proofs = counters.proofs
      /\ counters'.acquisitions = counters.acquisitions
  BY <1>2, <1>3, Counted
<1> QED BY <1>1, <1>2, <1>4, StillCounted DEF CountersAhead

\* The handler of an outcome counts it as vaulted or as cleared.
LEMMA OutcomeCounted ==
    ASSUME CountersAhead, NEW e, Takes("CustodyUpdated", e), OnCustodyUpdated(e)
    PROVE  CountersAhead'
<1>1. /\ Waiting("CustodyUpdated") = {e} /\ Waiting("CustodyUpdated")' = {}
      /\ Waiting("PoolReplenished")' = Waiting("PoolReplenished")
      /\ Waiting("TraitsCollected")' = Waiting("TraitsCollected")
      /\ Waiting("AcquisitionRecorded")' = Waiting("AcquisitionRecorded")
      /\ Waiting("ProofMinted")' = Waiting("ProofMinted")
  BY DEF Takes
<1>2. \A o : One(Outcomes(o)) = (IF e.outcome = o THEN 1 ELSE 0) /\ One(Outcomes(o)') = 0
  BY <1>1 DEF One, Outcomes
<1>3. /\ counters \in [{"collected", "acquisitions", "vaulted", "cleared", "proofs",
                        "inflow"} -> Int]
      /\ lockedPunkCount = counters.vaulted + (IF e.outcome = "Vaulted" THEN 1 ELSE 0)
      /\ Cardinality(ClearedRows)
            = counters.cleared + (IF e.outcome = "ReturnedToMarket" THEN 1 ELSE 0)
  BY <1>2 DEF CountersAhead
<1>4. /\ counters' \in [{"collected", "acquisitions", "vaulted", "cleared", "proofs",
                         "inflow"} -> Int]
      /\ counters'.vaulted = counters.vaulted + (IF e.outcome = "Vaulted" THEN 1 ELSE 0)
      /\ counters'.cleared
            = counters.cleared + (IF e.outcome = "ReturnedToMarket" THEN 1 ELSE 0)
      /\ counters'.collected = counters.collected
      /\ counters'.proofs = counters.proofs /\ counters'.inflow = counters.inflow
      /\ counters'.acquisitions = counters.acquisitions
  <2>1. CASE e.outcome = "Vaulted"
    <3>1. counters' = [counters EXCEPT !["vaulted"] = @ + 1]
      BY <2>1 DEF OnCustodyUpdated
    <3> QED BY <1>3, <2>1, <3>1, Counted
  <2>2. CASE e.outcome = "ReturnedToMarket"
    <3>1. counters' = [counters EXCEPT !["cleared"] = @ + 1]
      BY <2>2 DEF OnCustodyUpdated
    <3> QED BY <1>3, <2>2, <3>1, Counted
  <2>3. CASE e.outcome # "Vaulted" /\ e.outcome # "ReturnedToMarket"
    <3>1. counters' = counters
      BY <2>3 DEF OnCustodyUpdated
    <3> QED BY <1>3, <2>3, <3>1
  <2> QED BY <2>1, <2>2, <2>3
<1>5. /\ lockedPunkCount' = counters'.vaulted
      /\ Cardinality(ClearedRows') = counters'.cleared
      /\ counters'.vaulted \in Int /\ counters'.cleared \in Int
  BY <1>3, <1>4, StillCounted
<1> QED BY <1>1, <1>2, <1>4, <1>5, StillCounted DEF CountersAhead
-----------------------------------------------------------------------------
(***************************************************************************)
(* The inductive invariant.                                                 *)
(***************************************************************************)
Ahead ==
    /\ LogAhead /\ RowsAgree /\ AuctionAhead /\ TrialsAhead /\ VaultedAhead
    /\ ProofsAhead /\ CountersAhead /\ SellersAhead /\ RefundsAhead

\* The queue is an orderly sequence.
Queued == Orderly(queue) /\ \E E : queue \in Seq(E)

\* What an event is not about stays as it is.
LEMMA Frames ==
    ASSUME Ahead, NEW e, NEW kind, Takes(kind, e)
    PROVE  /\ kind \notin {"AcquisitionRecorded", "CustodyUpdated"} /\ UNCHANGED history
                => LogAhead'
           /\ UNCHANGED <<acquisitionRow, history>> => RowsAgree'
           /\ \/ kind \in {"ReturnAuctionStarted", "BidPlaced", "Extended",
                           "ReturnAuctionCleared", "PunkVaulted"}
              \/ UNCHANGED auctionRow => AuctionAhead'
           /\ kind # "AcquisitionRecorded" /\ UNCHANGED trials => TrialsAhead'
           /\ kind # "PunkVaulted" /\ UNCHANGED vaultedRow => VaultedAhead'
           /\ kind \notin {"ProofMinted", "Transfer"} /\ UNCHANGED proofRow => ProofsAhead'
           /\ \/ kind \in {"TraitsCollected", "AcquisitionRecorded", "CustodyUpdated",
                           "ProofMinted", "PoolReplenished"}
              \/ UNCHANGED counters => CountersAhead'
           /\ kind # "AllowedSellers" /\ UNCHANGED activeSellers => SellersAhead'
           /\ kind \notin {"RefundQueued", "RefundWithdrawn"} /\ UNCHANGED refunds
                => RefundsAhead'
<1>1. \A k : k # kind => Waiting(k)' = Waiting(k)
  BY DEF Takes
<1>2. \A k : Waiting(k)' \subseteq Waiting(k)
  BY DEF Takes
<1>3. UNCHANGED <<acquisitions, acquisitionIndexOf, custody, sales, attemptCount, isLocked,
                  proofMeta, proofOwner, collectedMask, lockedPunkCount, proofsMintedCount,
                  received, allowedSellers, pendingRefund>>
  BY DEF Takes, recordsVars, auctionVars, vaultVars, patronVars
<1>4. \A p : PC!TargetOf(p)' = PC!TargetOf(p)
  BY TargetsSame DEF Takes
<1>5. kind \notin {"AcquisitionRecorded", "CustodyUpdated"} /\ UNCHANGED history => LogAhead'
  BY <1>1, <1>3, LogSame DEF Ahead
<1>6. UNCHANGED <<acquisitionRow, history>> => RowsAgree'
  BY RowsSame DEF Ahead
<1>7. \/ kind \in {"ReturnAuctionStarted", "BidPlaced", "Extended",
                   "ReturnAuctionCleared", "PunkVaulted"}
      \/ UNCHANGED auctionRow => AuctionAhead'
  <2> SUFFICES ASSUME kind \notin {"ReturnAuctionStarted", "BidPlaced", "Extended",
                                   "ReturnAuctionCleared", "PunkVaulted"},
                      UNCHANGED auctionRow
               PROVE  AuctionAhead'
    OBVIOUS
  <2>1. /\ Waiting("ReturnAuctionStarted")' = Waiting("ReturnAuctionStarted")
        /\ Waiting("BidPlaced")' = Waiting("BidPlaced")
        /\ Waiting("Extended")' = Waiting("Extended")
        /\ Waiting("ReturnAuctionCleared")' = Waiting("ReturnAuctionCleared")
        /\ Waiting("PunkVaulted")' = Waiting("PunkVaulted")
    BY <1>1
  <2> QED BY <1>3, <2>1, AuctionSame DEF Ahead
<1>8. kind # "AcquisitionRecorded" /\ UNCHANGED trials => TrialsAhead'
  BY <1>1, <1>3, TrialsSame DEF Ahead
<1>9. kind # "PunkVaulted" /\ UNCHANGED vaultedRow => VaultedAhead'
  BY <1>1, <1>2, <1>3, <1>4, VaultedSame DEF Ahead
<1>10. kind \notin {"ProofMinted", "Transfer"} /\ UNCHANGED proofRow => ProofsAhead'
  BY <1>1, <1>3, ProofsSame DEF Ahead
<1>11. \/ kind \in {"TraitsCollected", "AcquisitionRecorded", "CustodyUpdated",
                    "ProofMinted", "PoolReplenished"}
       \/ UNCHANGED counters => CountersAhead'
  <2> SUFFICES ASSUME kind \notin {"TraitsCollected", "AcquisitionRecorded",
                                   "CustodyUpdated", "ProofMinted", "PoolReplenished"},
                      UNCHANGED counters
               PROVE  CountersAhead'
    OBVIOUS
  <2>1. /\ Waiting("TraitsCollected")' = Waiting("TraitsCollected")
        /\ Waiting("AcquisitionRecorded")' = Waiting("AcquisitionRecorded")
        /\ Waiting("CustodyUpdated")' = Waiting("CustodyUpdated")
        /\ Waiting("ProofMinted")' = Waiting("ProofMinted")
        /\ Waiting("PoolReplenished")' = Waiting("PoolReplenished")
    BY <1>1
  <2> QED BY <1>3, <2>1, CountersSame DEF Ahead
<1>12. kind # "AllowedSellers" /\ UNCHANGED activeSellers => SellersAhead'
  BY <1>1, <1>3, SellersSame DEF Ahead
<1>13. kind \notin {"RefundQueued", "RefundWithdrawn"} /\ UNCHANGED refunds => RefundsAhead'
  BY <1>1, <1>3, RefundsSame DEF Ahead
<1> QED BY <1>5, <1>6, <1>7, <1>8, <1>9, <1>10, <1>11, <1>12, <1>13

\* An acquisition patches the target of the auction row besides.
LEMMA RecordPatches ==
    ASSUME Core!IInv, AuctionAhead, LogAhead, NEW e, Takes("AcquisitionRecorded", e),
           OnAcquisitionRecorded(e)
    PROVE  AuctionAhead'
<1>1. /\ Waiting("ReturnAuctionStarted")' = Waiting("ReturnAuctionStarted")
      /\ Waiting("BidPlaced")' = Waiting("BidPlaced")
      /\ Waiting("Extended")' = Waiting("Extended")
      /\ Waiting("ReturnAuctionCleared")' = Waiting("ReturnAuctionCleared")
      /\ Waiting("PunkVaulted")' = Waiting("PunkVaulted")
      /\ UNCHANGED <<sales, custody>>
  BY DEF Takes, recordsVars, auctionVars
<1>2. /\ e.punk \in Punks /\ acquisitions # << >>
      /\ e.row = acquisitions[Len(acquisitions)]
  BY DEF Takes, LogAhead
<1>3. e.row \in Core!Acquisition
  <2>1. acquisitions \in Seq(Core!Acquisition)
    BY DEF Core!IInv, Core!TypeOK
  <2> QED BY <1>2, <2>1
<1>4. e.row.target \in Traits
  BY <1>3 DEF Core!Acquisition, Core!Traits, Traits
<1>5. PatchTarget(e.punk, e.row.target)
  BY DEF OnAcquisitionRecorded
<1> QED BY <1>1, <1>2, <1>4, <1>5, PatchTaken

\* Handling an event keeps the invariant.
LEMMA HandleKeeps ==
    ASSUME Core!IInv, IInv, AuctionsInv, Queued, Ahead, Handle
    PROVE  Queued' /\ Ahead'
<1>0. PICK e : e = Head(queue)
  OBVIOUS
<1>1. PICK E : queue \in Seq(E)
  BY DEF Queued
<1>2. queue # << >> /\ queue' = Tail(queue) /\ Orderly(queue)
  BY DEF Handle, Queued
<1>3. /\ queue' \in Seq(E) /\ Orderly(queue')
      /\ Waiting(e.kind) = {e} /\ Waiting(e.kind)' = {}
      /\ \A k : k # e.kind => Waiting(k)' = Waiting(k)
      /\ e.kind = "CustodyUpdated" => Waiting("AcquisitionRecorded") = {}
  BY <1>0, <1>1, <1>2, HandleTakes
<1>4. Takes(e.kind, e)
  BY <1>3 DEF Takes, Handle, vars
<1>5. Queued'
  BY <1>3 DEF Queued
<1>6. CASE OnAcquisitionRecorded(e)
  <2>1. Takes("AcquisitionRecorded", e)
    BY <1>4, <1>6 DEF OnAcquisitionRecorded
  <2>2. UNCHANGED <<vaultedRow, proofRow, refunds, activeSellers>>
    BY <1>6 DEF OnAcquisitionRecorded
  <2>3. LogAhead' /\ RowsAgree'
    BY <1>6, <2>1, RecordTaken DEF Ahead
  <2>4. AuctionAhead'
    BY <1>6, <2>1, RecordPatches DEF Ahead
  <2>5. TrialsAhead' /\ CountersAhead'
    BY <1>6, <2>1, TrialTaken, AcquisitionCounted DEF Ahead
  <2>6. VaultedAhead' /\ ProofsAhead' /\ SellersAhead' /\ RefundsAhead'
    BY <2>1, <2>2, Frames
  <2> QED BY <1>5, <2>3, <2>4, <2>5, <2>6 DEF Ahead
<1>7. CASE OnCustodyUpdated(e)
  <2>1. Takes("CustodyUpdated", e) /\ Waiting("AcquisitionRecorded") = {}
    BY <1>3, <1>4, <1>7 DEF OnCustodyUpdated
  <2>2. UNCHANGED <<auctionRow, trials, vaultedRow, proofRow, refunds, activeSellers>>
    BY <1>7 DEF OnCustodyUpdated
  <2>3. LogAhead' /\ RowsAgree' /\ CountersAhead'
    BY <1>7, <2>1, OutcomeTaken, OutcomeCounted DEF Ahead
  <2>4. /\ AuctionAhead' /\ TrialsAhead' /\ VaultedAhead' /\ ProofsAhead' /\ SellersAhead'
        /\ RefundsAhead'
    BY <2>1, <2>2, Frames
  <2> QED BY <1>5, <2>3, <2>4 DEF Ahead
<1>8. CASE OnTraitsCollected(e)
  <2>1. Takes("TraitsCollected", e)
    BY <1>4, <1>8 DEF OnTraitsCollected
  <2>2. CountersAhead'
    BY <1>8, <2>1, CollectionTaken DEF Ahead
  <2>3. UNCHANGED <<acquisitionRow, history, auctionRow, trials, vaultedRow, proofRow,
                   refunds, activeSellers>>
    BY <1>8 DEF OnTraitsCollected
  <2>4. /\ LogAhead' /\ RowsAgree' /\ AuctionAhead' /\ TrialsAhead' /\ VaultedAhead'
        /\ ProofsAhead' /\ SellersAhead' /\ RefundsAhead'
    BY <2>1, <2>3, Frames
  <2> QED BY <1>5, <2>2, <2>4 DEF Ahead
<1>9. CASE OnReturnAuctionStarted(e)
  <2>1. Takes("ReturnAuctionStarted", e)
    BY <1>4, <1>9 DEF OnReturnAuctionStarted
  <2>2. AuctionAhead'
    BY <1>9, <2>1, StartTaken DEF Ahead
  <2>3. UNCHANGED <<acquisitionRow, history, trials, vaultedRow, proofRow, refunds,
                   activeSellers, counters>>
    BY <1>9 DEF OnReturnAuctionStarted
  <2>4. /\ LogAhead' /\ RowsAgree' /\ TrialsAhead' /\ VaultedAhead' /\ ProofsAhead'
        /\ CountersAhead' /\ SellersAhead' /\ RefundsAhead'
    BY <2>1, <2>3, Frames
  <2> QED BY <1>5, <2>2, <2>4 DEF Ahead
<1>10. CASE OnBidPlaced(e)
  <2>1. Takes("BidPlaced", e)
    BY <1>4, <1>10 DEF OnBidPlaced
  <2>2. AuctionAhead'
    BY <1>10, <2>1, BidTaken DEF Ahead
  <2>3. UNCHANGED <<acquisitionRow, history, trials, vaultedRow, proofRow, refunds,
                   activeSellers, counters>>
    BY <1>10 DEF OnBidPlaced
  <2>4. /\ LogAhead' /\ RowsAgree' /\ TrialsAhead' /\ VaultedAhead' /\ ProofsAhead'
        /\ CountersAhead' /\ SellersAhead' /\ RefundsAhead'
    BY <2>1, <2>3, Frames
  <2> QED BY <1>5, <2>2, <2>4 DEF Ahead
<1>11. CASE OnReturnAuctionExtended(e)
  <2>1. Takes("Extended", e)
    BY <1>4, <1>11 DEF OnReturnAuctionExtended
  <2>2. AuctionAhead'
    BY <1>11, <2>1, ExtensionTaken DEF Ahead
  <2>3. UNCHANGED <<acquisitionRow, history, trials, vaultedRow, proofRow, refunds,
                   activeSellers, counters>>
    BY <1>11 DEF OnReturnAuctionExtended
  <2>4. /\ LogAhead' /\ RowsAgree' /\ TrialsAhead' /\ VaultedAhead' /\ ProofsAhead'
        /\ CountersAhead' /\ SellersAhead' /\ RefundsAhead'
    BY <2>1, <2>3, Frames
  <2> QED BY <1>5, <2>2, <2>4 DEF Ahead
<1>12. CASE OnReturnAuctionCleared(e)
  <2>1. Takes("ReturnAuctionCleared", e)
    BY <1>4, <1>12 DEF OnReturnAuctionCleared
  <2>2. AuctionAhead'
    BY <1>12, <2>1, EndTaken DEF Ahead, OnReturnAuctionCleared
  <2>3. UNCHANGED <<acquisitionRow, history, trials, vaultedRow, proofRow, refunds,
                   activeSellers, counters>>
    BY <1>12 DEF OnReturnAuctionCleared
  <2>4. /\ LogAhead' /\ RowsAgree' /\ TrialsAhead' /\ VaultedAhead' /\ ProofsAhead'
        /\ CountersAhead' /\ SellersAhead' /\ RefundsAhead'
    BY <2>1, <2>3, Frames
  <2> QED BY <1>5, <2>2, <2>4 DEF Ahead
<1>13. CASE OnPunkVaulted(e)
  <2>1. Takes("PunkVaulted", e)
    BY <1>4, <1>13 DEF OnPunkVaulted
  <2>2. AuctionAhead'
    BY <1>13, <2>1, EndTaken DEF Ahead, OnPunkVaulted
  <2>3. VaultedAhead'
    BY <1>13, <2>1, VaultedTaken DEF Ahead
  <2>4. UNCHANGED <<acquisitionRow, history, trials, proofRow, refunds, activeSellers,
                   counters>>
    BY <1>13 DEF OnPunkVaulted
  <2>5. /\ LogAhead' /\ RowsAgree' /\ TrialsAhead' /\ ProofsAhead' /\ CountersAhead'
        /\ SellersAhead' /\ RefundsAhead'
    BY <2>1, <2>4, Frames
  <2> QED BY <1>5, <2>2, <2>3, <2>5 DEF Ahead
<1>14. CASE OnRefund(e)
  <2>1. Takes("RefundQueued", e) \/ Takes("RefundWithdrawn", e)
    BY <1>4, <1>14 DEF OnRefund
  <2>2. RefundsAhead'
    BY <1>14, <2>1, RefundTaken DEF Ahead
  <2>3. UNCHANGED <<acquisitionRow, history, auctionRow, trials, vaultedRow, proofRow,
                   activeSellers, counters>>
    BY <1>14 DEF OnRefund
  <2>4. /\ LogAhead' /\ RowsAgree' /\ AuctionAhead' /\ TrialsAhead' /\ VaultedAhead'
        /\ ProofsAhead' /\ CountersAhead' /\ SellersAhead'
    BY <2>1, <2>3, Frames
  <2> QED BY <1>5, <2>2, <2>4 DEF Ahead
<1>15. CASE OnProofMinted(e)
  <2>1. Takes("ProofMinted", e)
    BY <1>4, <1>15 DEF OnProofMinted
  <2>2. ProofsAhead' /\ CountersAhead'
    BY <1>15, <2>1, MintTaken, MintCounted DEF Ahead
  <2>3. UNCHANGED <<acquisitionRow, history, auctionRow, trials, vaultedRow, refunds,
                   activeSellers>>
    BY <1>15 DEF OnProofMinted
  <2>4. /\ LogAhead' /\ RowsAgree' /\ AuctionAhead' /\ TrialsAhead' /\ VaultedAhead'
        /\ SellersAhead' /\ RefundsAhead'
    BY <2>1, <2>3, Frames
  <2> QED BY <1>5, <2>2, <2>4 DEF Ahead
<1>16. CASE OnTransfer(e)
  <2>1. Takes("Transfer", e)
    BY <1>4, <1>16 DEF OnTransfer
  <2>2. ProofsAhead'
    BY <1>16, <2>1, TransferTaken DEF Ahead
  <2>3. UNCHANGED <<acquisitionRow, history, auctionRow, trials, vaultedRow, refunds,
                   activeSellers, counters>>
    BY <1>16 DEF OnTransfer
  <2>4. /\ LogAhead' /\ RowsAgree' /\ AuctionAhead' /\ TrialsAhead' /\ VaultedAhead'
        /\ CountersAhead' /\ SellersAhead' /\ RefundsAhead'
    BY <2>1, <2>3, Frames
  <2> QED BY <1>5, <2>2, <2>4 DEF Ahead
<1>17. CASE OnPoolReplenished(e)
  <2>1. Takes("PoolReplenished", e)
    BY <1>4, <1>17 DEF OnPoolReplenished
  <2>2. CountersAhead'
    BY <1>17, <2>1, InflowTaken DEF Ahead
  <2>3. UNCHANGED <<acquisitionRow, history, auctionRow, trials, vaultedRow, proofRow,
                   refunds, activeSellers>>
    BY <1>17 DEF OnPoolReplenished
  <2>4. /\ LogAhead' /\ RowsAgree' /\ AuctionAhead' /\ TrialsAhead' /\ VaultedAhead'
        /\ ProofsAhead' /\ SellersAhead' /\ RefundsAhead'
    BY <2>1, <2>3, Frames
  <2> QED BY <1>5, <2>2, <2>4 DEF Ahead
<1>18. CASE OnAllowedSellers(e)
  <2>1. Takes("AllowedSellers", e)
    BY <1>4, <1>18 DEF OnAllowedSellers
  <2>2. SellersAhead'
    BY <1>18, <2>1, EditTaken DEF Ahead
  <2>3. UNCHANGED <<acquisitionRow, history, auctionRow, trials, vaultedRow, proofRow,
                   refunds, counters>>
    BY <1>18 DEF OnAllowedSellers
  <2>4. /\ LogAhead' /\ RowsAgree' /\ AuctionAhead' /\ TrialsAhead' /\ VaultedAhead'
        /\ ProofsAhead' /\ CountersAhead' /\ RefundsAhead'
    BY <2>1, <2>3, Frames
  <2> QED BY <1>5, <2>2, <2>4 DEF Ahead
<1> QED BY <1>0, <1>5, <1>6, <1>7, <1>8, <1>9, <1>10, <1>11, <1>12, <1>13, <1>14, <1>15,
           <1>16, <1>17, <1>18 DEF Handle
-----------------------------------------------------------------------------
(***************************************************************************)
(* The transactions.                                                        *)
(***************************************************************************)
\* Nothing waits before a transaction.
LEMMA Quiet ==
    ASSUME queue = << >>
    PROVE  \A k : Waiting(k) = {}
BY NoEvents DEF Waiting

\* After it, its events wait.
LEMMA Sent ==
    ASSUME NEW E, NEW q \in Seq(E), Orderly(q), queue' = q
    PROVE  Queued' /\ \A k : Waiting(k)' = {e \in Range(q) : e.kind = k}
BY DEF Queued, Waiting

\* After a transaction with one event, that event waits alone.
LEMMA SentOne ==
    ASSUME NEW e, queue = << >>, queue' = <<e>>
    PROVE  /\ Queued' /\ Waiting(e.kind)' = {e}
           /\ \A k : k # e.kind => Waiting(k)' = {}
<1>1. <<e>> \in Seq({e}) /\ Range(<<e>>) = {e} /\ Orderly(<<e>>)
  BY OneEvent
<1>2. Queued' /\ \A k : Waiting(k)' = {d \in Range(<<e>>) : d.kind = k}
  BY <1>1, Sent
<1> QED BY <1>1, <1>2

\* No event of a kind is added or taken.
Silent(kind) == Waiting(kind)' = Waiting(kind)

\* What no event is about stays as it is.
LEMMA EmitFrames ==
    ASSUME Ahead, UNCHANGED tableVars
    PROVE  /\ /\ Silent("AcquisitionRecorded") /\ Silent("CustodyUpdated")
              /\ UNCHANGED <<acquisitions, acquisitionIndexOf, custody>>
              => LogAhead'
           /\ RowsAgree'
           /\ /\ Silent("ReturnAuctionStarted") /\ Silent("BidPlaced") /\ Silent("Extended")
              /\ Silent("ReturnAuctionCleared") /\ Silent("PunkVaulted")
              /\ UNCHANGED <<sales, custody>>
              => AuctionAhead'
           /\ Silent("AcquisitionRecorded") /\ UNCHANGED attemptCount => TrialsAhead'
           /\ /\ Silent("PunkVaulted")
              /\ Waiting("AcquisitionRecorded")' \subseteq Waiting("AcquisitionRecorded")
              /\ UNCHANGED isLocked /\ \A p \in isLocked : PC!TargetOf(p)' = PC!TargetOf(p)
              => VaultedAhead'
           /\ /\ Silent("ProofMinted") /\ Silent("Transfer")
              /\ UNCHANGED <<proofMeta, proofOwner>>
              => ProofsAhead'
           /\ /\ Silent("TraitsCollected") /\ Silent("AcquisitionRecorded")
              /\ Silent("CustodyUpdated") /\ Silent("ProofMinted")
              /\ Silent("PoolReplenished")
              /\ UNCHANGED <<collectedMask, acquisitions, lockedPunkCount,
                             proofsMintedCount, received>>
              => CountersAhead'
           /\ Silent("AllowedSellers") /\ UNCHANGED allowedSellers => SellersAhead'
           /\ /\ Silent("RefundQueued") /\ Silent("RefundWithdrawn")
              /\ UNCHANGED pendingRefund
              => RefundsAhead'
<1>1. UNCHANGED <<acquisitionRow, history, auctionRow, trials, vaultedRow, proofRow,
                  refunds, activeSellers, counters>>
  BY DEF tableVars
<1> USE DEF Silent
<1>2. ASSUME Silent("AcquisitionRecorded"), Silent("CustodyUpdated"),
             UNCHANGED <<acquisitions, acquisitionIndexOf, custody>>
      PROVE  LogAhead'
  BY <1>1, <1>2, LogSame DEF Ahead
<1>3. RowsAgree'
  BY <1>1, RowsSame DEF Ahead
<1>4. ASSUME Silent("ReturnAuctionStarted"), Silent("BidPlaced"), Silent("Extended"),
             Silent("ReturnAuctionCleared"), Silent("PunkVaulted"),
             UNCHANGED <<sales, custody>>
      PROVE  AuctionAhead'
  BY <1>1, <1>4, AuctionSame DEF Ahead
<1>5. ASSUME Silent("AcquisitionRecorded"), UNCHANGED attemptCount PROVE TrialsAhead'
  BY <1>1, <1>5, TrialsSame DEF Ahead
<1>6. ASSUME Silent("PunkVaulted"), UNCHANGED isLocked,
             Waiting("AcquisitionRecorded")' \subseteq Waiting("AcquisitionRecorded"),
             \A p \in isLocked : PC!TargetOf(p)' = PC!TargetOf(p)
      PROVE  VaultedAhead'
  BY <1>1, <1>6, VaultedSame DEF Ahead
<1>7. ASSUME Silent("ProofMinted"), Silent("Transfer"), UNCHANGED <<proofMeta, proofOwner>>
      PROVE  ProofsAhead'
  BY <1>1, <1>7, ProofsSame DEF Ahead
<1>8. ASSUME Silent("TraitsCollected"), Silent("AcquisitionRecorded"),
             Silent("CustodyUpdated"), Silent("ProofMinted"), Silent("PoolReplenished"),
             UNCHANGED <<collectedMask, acquisitions, lockedPunkCount, proofsMintedCount,
                         received>>
      PROVE  CountersAhead'
  BY <1>1, <1>8, CountersSame DEF Ahead
<1>9. ASSUME Silent("AllowedSellers"), UNCHANGED allowedSellers PROVE SellersAhead'
  BY <1>1, <1>9, SellersSame DEF Ahead
<1>10. ASSUME Silent("RefundQueued"), Silent("RefundWithdrawn"), UNCHANGED pendingRefund
       PROVE  RefundsAhead'
  BY <1>1, <1>10, RefundsSame DEF Ahead
<1> QED BY <1>2, <1>3, <1>4, <1>5, <1>6, <1>7, <1>8, <1>9, <1>10

\* A funding of the live bid has no event here.
LEMMA FundKeeps ==
    ASSUME Ahead, Queued, Fund
    PROVE  Ahead' /\ Queued'
<1>1. UNCHANGED tableVars /\ queue' = queue /\ proofOwner' = proofOwner
  BY DEF Fund
<1>2. \A k : Silent(k) /\ Waiting(k)' \subseteq Waiting(k)
  BY <1>1 DEF Silent, Waiting
<1>3. UNCHANGED recordsVars /\ UNCHANGED auctionVars /\ UNCHANGED vaultVars
      /\ UNCHANGED allowlistVars
  BY DEF Fund, FundLiveBid
<1>4. UNCHANGED <<acquisitions, acquisitionIndexOf, custody, sales, attemptCount, isLocked,
                  proofMeta, collectedMask, lockedPunkCount, proofsMintedCount,
                  received, allowedSellers, pendingRefund>>
  BY <1>3 DEF recordsVars, auctionVars, vaultVars, allowlistVars
<1>5. \A p : PC!TargetOf(p)' = PC!TargetOf(p)
  BY <1>3, TargetsSame
<1>6. LogAhead' /\ RowsAgree' /\ AuctionAhead' /\ TrialsAhead' /\ VaultedAhead'
  BY <1>1, <1>2, <1>4, <1>5, EmitFrames
<1>7. ProofsAhead' /\ CountersAhead' /\ SellersAhead' /\ RefundsAhead'
  BY <1>1, <1>2, <1>4, EmitFrames
<1>8. Queued'
  BY <1>1 DEF Queued
<1> QED BY <1>6, <1>7, <1>8 DEF Ahead

\* An edit of the allowlist.
LEMMA AllowlistKeeps ==
    ASSUME Ahead, EmitAllowlist
    PROVE  Ahead' /\ Queued'
<1>0. PICK e : e = [kind |-> "AllowedSellers", added |-> allowedSellers' \ allowedSellers,
                    removed |-> allowedSellers \ allowedSellers']
  OBVIOUS
<1>1. /\ UNCHANGED tableVars /\ queue = << >> /\ queue' = <<e>>
      /\ proofOwner' = proofOwner /\ EditAllowlist
  BY <1>0 DEF EmitAllowlist, Emit
<1>2. /\ e.kind = "AllowedSellers" /\ e.added = allowedSellers' \ allowedSellers
      /\ e.removed = allowedSellers \ allowedSellers'
  BY <1>0
<1>3. /\ Queued' /\ Waiting("AllowedSellers")' = {e}
      /\ \A k : Waiting(k) = {}
      /\ \A k : k # "AllowedSellers" => Silent(k) /\ Waiting(k)' = {}
  BY <1>1, <1>2, Quiet, SentOne DEF Silent
<1>4. UNCHANGED recordsVars /\ UNCHANGED auctionVars /\ UNCHANGED vaultVars
  BY <1>1 DEF EditAllowlist
<1>5. UNCHANGED <<acquisitions, acquisitionIndexOf, custody, sales, attemptCount, isLocked,
                  proofMeta, collectedMask, lockedPunkCount, proofsMintedCount,
                  received, pendingRefund>>
  BY <1>4 DEF recordsVars, auctionVars, vaultVars
<1>6. \A p : PC!TargetOf(p)' = PC!TargetOf(p)
  BY <1>4, TargetsSame
<1>7. SellersAhead'
  <2>1. activeSellers = allowedSellers /\ activeSellers' = activeSellers
    BY <1>1, <1>3 DEF Ahead, SellersAhead, tableVars
  <2>2. allowedSellers' = (activeSellers' \cup e.added) \ e.removed
    BY <1>2, <2>1
  <2> QED BY <1>3, <2>2 DEF SellersAhead
<1>8. LogAhead' /\ RowsAgree' /\ AuctionAhead' /\ TrialsAhead' /\ VaultedAhead'
  BY <1>1, <1>3, <1>5, <1>6, EmitFrames
<1>9. ProofsAhead' /\ CountersAhead' /\ RefundsAhead'
  BY <1>1, <1>3, <1>5, EmitFrames
<1> QED BY <1>3, <1>7, <1>8, <1>9 DEF Ahead

\* A refund is withdrawn: whose, is the only account whose refund changes.
LEMMA WithdrawalKeeps ==
    ASSUME AuctionsInv, Ahead, EmitWithdrawal
    PROVE  Ahead' /\ Queued'
<1>0. PICK a : a = CHOOSE b \in Accounts : pendingRefund'[b] # pendingRefund[b]
  OBVIOUS
<1>1. PICK e : e = [kind |-> "RefundWithdrawn", who |-> a, value |-> pendingRefund[a]]
  OBVIOUS
<1>2. /\ UNCHANGED tableVars /\ queue = << >> /\ queue' = <<e>>
      /\ proofOwner' = proofOwner /\ WithdrawRefund
  BY <1>0, <1>1 DEF EmitWithdrawal, Emit
<1>3. e.kind = "RefundWithdrawn" /\ e.who = a /\ e.value = pendingRefund[a]
  BY <1>1
<1>4. /\ Queued' /\ Waiting("RefundWithdrawn")' = {e}
      /\ \A k : Waiting(k) = {}
      /\ \A k : k # "RefundWithdrawn" => Silent(k) /\ Waiting(k)' = {}
  BY <1>2, <1>3, Quiet, SentOne DEF Silent
<1>5. UNCHANGED recordsVars /\ UNCHANGED vaultVars /\ UNCHANGED patronVars
  BY <1>2 DEF WithdrawRefund
<1>6. PICK b \in Accounts : RA!WithdrawRefund(b)
  BY <1>2 DEF WithdrawRefund
<1>7. UNCHANGED <<acquisitions, acquisitionIndexOf, custody, sales, attemptCount, isLocked,
                  proofMeta, collectedMask, lockedPunkCount, proofsMintedCount,
                  received, allowedSellers>>
  BY <1>5, <1>6 DEF recordsVars, vaultVars, patronVars, RA!WithdrawRefund
<1>8. \A p : PC!TargetOf(p)' = PC!TargetOf(p)
  BY <1>5, TargetsSame
<1>9. pendingRefund \in [Accounts -> Nat] /\ pendingRefund[b] > 0
      /\ pendingRefund' = [pendingRefund EXCEPT ![b] = 0]
  BY <1>6 DEF AuctionsInv, Auctions!MoneyTypes, RA!WithdrawRefund
<1>10. a = b
  BY <1>0, <1>9
<1>11. RefundsAhead'
  <2>1. refunds = pendingRefund /\ refunds' = refunds
    BY <1>2, <1>4 DEF Ahead, RefundsAhead, tableVars
  <2>2. pendingRefund' = [refunds' EXCEPT ![e.who] = @ - e.value]
    <3>1. pendingRefund[b] - pendingRefund[b] = 0
      BY <1>9
    <3>2. pendingRefund' = [pendingRefund EXCEPT ![b] = @ - pendingRefund[b]]
      BY <1>9, <3>1
    <3> QED BY <1>3, <1>10, <2>1, <3>2
  <2>3. Waiting("RefundQueued")' = {}
    BY <1>4
  <2> QED BY <1>4, <2>2, <2>3 DEF RefundsAhead
<1>12. LogAhead' /\ RowsAgree' /\ AuctionAhead' /\ TrialsAhead' /\ VaultedAhead'
  BY <1>2, <1>4, <1>7, <1>8, EmitFrames
<1>13. ProofsAhead' /\ CountersAhead' /\ SellersAhead'
  BY <1>2, <1>4, <1>7, EmitFrames
<1> QED BY <1>4, <1>11, <1>12, <1>13 DEF Ahead

\* A Proof changes hands.
LEMMA TransferKeeps ==
    ASSUME Ahead, NEW t \in Traits, NEW to \in Accounts, TransferProof(t, to)
    PROVE  Ahead' /\ Queued'
<1>0. PICK e : e = [kind |-> "Transfer", token |-> t, to |-> to]
  OBVIOUS
<1>1. /\ UNCHANGED tableVars /\ queue = << >> /\ queue' = <<e>>
      /\ proofOwner' = [proofOwner EXCEPT ![t] = to] /\ UNCHANGED vars
  BY <1>0 DEF TransferProof, Emit
<1>2. e.kind = "Transfer" /\ e.token = t /\ e.to = to
  BY <1>0
<1>3. /\ Queued' /\ Waiting("Transfer")' = {e}
      /\ \A k : Waiting(k) = {}
      /\ \A k : k # "Transfer" => Silent(k) /\ Waiting(k)' = {}
  BY <1>1, <1>2, Quiet, SentOne DEF Silent
<1>4. UNCHANGED recordsVars /\ UNCHANGED auctionVars /\ UNCHANGED vaultVars
      /\ UNCHANGED patronVars
  BY <1>1 DEF vars
<1>5. UNCHANGED <<acquisitions, acquisitionIndexOf, custody, sales, attemptCount, isLocked,
                  proofMeta, collectedMask, lockedPunkCount, proofsMintedCount,
                  received, allowedSellers, pendingRefund>>
  BY <1>4 DEF recordsVars, auctionVars, vaultVars, patronVars
<1>6. \A p : PC!TargetOf(p)' = PC!TargetOf(p)
  BY <1>4, TargetsSame
<1>7. ProofsAhead'
  <2>1. /\ proofOwner \in [Traits -> Accounts \cup {NoAccount}]
        /\ proofRow \in [Traits -> ProofRow \cup {NoRow}]
        /\ \A u \in Traits :
              IF proofMeta[u] = NoProof THEN proofRow[u] = NoRow
              ELSE /\ proofRow[u] # NoRow /\ proofRow[u].meta = proofMeta[u]
                   /\ proofRow[u].owner = proofOwner[u]
    BY <1>3 DEF Ahead, ProofsAhead
  <2>2. /\ proofOwner' \in [Traits -> Accounts \cup {NoAccount}] /\ proofOwner'[t] = to
        /\ \A u \in Traits : u # t => proofOwner'[u] = proofOwner[u]
    BY <1>1, <2>1
  <2>3. proofRow' = proofRow /\ Waiting("ProofMinted")' = {}
    BY <1>1, <1>3 DEF tableVars
  <2> QED BY <1>2, <1>3, <1>5, <2>1, <2>2, <2>3 DEF ProofsAhead
<1>8. LogAhead' /\ RowsAgree' /\ AuctionAhead' /\ TrialsAhead' /\ VaultedAhead'
  BY <1>1, <1>3, <1>5, <1>6, EmitFrames
<1>9. CountersAhead' /\ SellersAhead' /\ RefundsAhead'
  BY <1>1, <1>3, <1>5, EmitFrames
<1> QED BY <1>3, <1>7, <1>8, <1>9 DEF Ahead

\* Time passes for the slots and for their rows alike.
LEMMA ElapseKeeps ==
    ASSUME IInv, AuctionsInv, Ahead, Queued, Elapse
    PROVE  Ahead' /\ Queued'
<1>1. /\ queue = << >> /\ Tick /\ UNCHANGED <<queue, proofOwner>>
      /\ auctionRow' = [p \in Punks |-> ElapsedRow(auctionRow[p])]
      /\ UNCHANGED <<acquisitionRow, history, trials, vaultedRow, proofRow, refunds,
                     activeSellers, counters>>
  BY DEF Elapse
<1>2. \A k : Waiting(k) = {} /\ Waiting(k)' = {} /\ Waiting(k)' = Waiting(k)
      /\ Waiting(k)' \subseteq Waiting(k)
  BY <1>1, Quiet DEF Waiting
<1>3. UNCHANGED recordsVars /\ UNCHANGED vaultVars /\ RA!Elapse /\ PA!Elapse
  BY <1>1 DEF Tick
<1>4. UNCHANGED <<acquisitions, acquisitionIndexOf, custody, attemptCount, isLocked,
                  proofMeta, collectedMask, lockedPunkCount, proofsMintedCount,
                  received, allowedSellers, pendingRefund>>
  BY <1>3 DEF recordsVars, vaultVars, RA!Elapse, PA!Elapse
<1>5. \A p : PC!TargetOf(p)' = PC!TargetOf(p)
  BY <1>3, TargetsSame
<1>6. sales' = [p \in Punks |-> [sales[p] EXCEPT !.left = IF @ > 0 THEN @ - 1 ELSE 0]]
  BY <1>3 DEF RA!Elapse
<1>7. /\ auctionRow \in [Punks -> AuctionRow \cup {NoRow}]
      /\ \A p \in Punks :
            IF sales[p].phase = "none" THEN auctionRow[p] = NoRow
            ELSE LET r == auctionRow[p]
                     s == sales[p]
                 IN  /\ r # NoRow
                     /\ r.cost = s.cost /\ r.reserve = s.reserve
                     /\ r.left = s.left /\ r.high = s.high /\ r.bidder = s.bidder
                     /\ r.outcome = Outcome(p)
  BY <1>2 DEF Ahead, AuctionAhead
<1>8. ASSUME NEW p \in Punks
      PROVE  /\ auctionRow'[p] \in AuctionRow \cup {NoRow}
             /\ IF sales'[p].phase = "none" THEN auctionRow'[p] = NoRow
                ELSE /\ auctionRow'[p] # NoRow
                     /\ auctionRow'[p].cost = sales'[p].cost
                     /\ auctionRow'[p].reserve = sales'[p].reserve
                     /\ auctionRow'[p].left = sales'[p].left
                     /\ auctionRow'[p].high = sales'[p].high
                     /\ auctionRow'[p].bidder = sales'[p].bidder
                     /\ auctionRow'[p].outcome = Outcome(p)
  <2> DEFINE left == IF sales[p].left > 0 THEN sales[p].left - 1 ELSE 0
  <2>1. sales[p] \in Auctions!Sale /\ left \in Nat
    BY SlotFacts DEF Auctions!Sale
  <2>2. sales'[p] = [sales[p] EXCEPT !.left = left]
    BY <1>6
  <2>3. CASE sales[p].phase = "none"
    BY <1>1, <1>7, <2>1, <2>2, <2>3 DEF ElapsedRow, Auctions!Sale
  <2>4. CASE sales[p].phase # "none"
    <3>1. auctionRow[p] \in AuctionRow /\ auctionRow[p] # NoRow
          /\ auctionRow[p].left = sales[p].left
      BY <1>7, <2>4
    <3>2. auctionRow'[p] = [auctionRow[p] EXCEPT !.left = left]
      BY <1>1, <3>1 DEF ElapsedRow
    <3> HIDE DEF left
    <3>3. /\ auctionRow'[p] \in AuctionRow /\ auctionRow'[p].left = left
          /\ auctionRow'[p].cost = auctionRow[p].cost
          /\ auctionRow'[p].reserve = auctionRow[p].reserve
          /\ auctionRow'[p].high = auctionRow[p].high
          /\ auctionRow'[p].bidder = auctionRow[p].bidder
          /\ auctionRow'[p].outcome = auctionRow[p].outcome
      BY <2>1, <3>1, <3>2 DEF AuctionRow
    <3>4. /\ sales'[p].left = left /\ sales'[p].cost = sales[p].cost
          /\ sales'[p].reserve = sales[p].reserve /\ sales'[p].high = sales[p].high
          /\ sales'[p].bidder = sales[p].bidder /\ sales'[p].phase = sales[p].phase
      BY <2>1, <2>2 DEF Auctions!Sale
    <3> QED BY <1>7, <2>4, <3>3, <3>4, RowAssumption DEF RowAssumption
  <2> QED BY <2>3, <2>4
<1>9. AuctionAhead'
  <2>1. auctionRow' \in [Punks -> AuctionRow \cup {NoRow}]
    BY <1>1, <1>8
  <2>2. \A p : Outcome(p)' = Outcome(p)
    BY <1>4 DEF Outcome
  <2> QED BY <1>2, <1>8, <2>1, <2>2 DEF AuctionAhead
<1>10. LogAhead' /\ RowsAgree' /\ TrialsAhead' /\ VaultedAhead'
  BY <1>1, <1>2, <1>4, <1>5, LogSame, RowsSame, TrialsSame, VaultedSame DEF Ahead
<1>11. ProofsAhead' /\ CountersAhead' /\ SellersAhead' /\ RefundsAhead'
  BY <1>1, <1>2, <1>4, ProofsSame, CountersSame, SellersSame, RefundsSame DEF Ahead
<1>12. Queued'
  BY <1>1 DEF Queued
<1> QED BY <1>9, <1>10, <1>11, <1>12 DEF Ahead
-----------------------------------------------------------------------------
\* The events of a bid: perhaps an extension, perhaps a refund, and the bid.
LEMMA BidEvents ==
    ASSUME NEW p \in Punks, EmitBid(p)
    PROVE  \E x, y, z :
              /\ x.kind = "Extended" /\ x.punk = p /\ x.left = sales'[p].left
              /\ y.kind = "RefundQueued" /\ y.who = sales[p].bidder /\ y.value = sales[p].high
              /\ z.kind = "BidPlaced" /\ z.punk = p /\ z.who = sales'[p].bidder
              /\ z.value = sales'[p].high /\ z.left = sales'[p].left
              /\ Queued'
              /\ \A k : k \notin {"Extended", "RefundQueued", "BidPlaced"} => Waiting(k)' = {}
              /\ Waiting("Extended")' \subseteq {x}
              /\ pendingRefund' = pendingRefund => Waiting("RefundQueued")' = {}
              /\ pendingRefund' # pendingRefund => Waiting("RefundQueued")' = {y}
              /\ Waiting("BidPlaced")' = {z}
<1>1. PICK x : x = [kind |-> "Extended", punk |-> p, left |-> sales'[p].left]
  OBVIOUS
<1>2. PICK y : y = [kind |-> "RefundQueued", who |-> sales[p].bidder,
                    value |-> sales[p].high]
  OBVIOUS
<1>3. PICK z : z = [kind |-> "BidPlaced", punk |-> p, who |-> sales'[p].bidder,
                    value |-> sales'[p].high, left |-> sales'[p].left]
  OBVIOUS
<1>4. PICK q1 : q1 = IF sales[p].left < Window THEN <<x>> ELSE << >>
  OBVIOUS
<1>5. PICK q2 : q2 = IF pendingRefund' # pendingRefund THEN <<y>> ELSE << >>
  OBVIOUS
<1>6. queue' = q1 \o q2 \o <<z>>
  BY <1>1, <1>2, <1>3, <1>4, <1>5, Zenon DEF EmitBid, Emit
<1>7. PICK q3 : q3 = <<z>>
  OBVIOUS
<1>8. x.kind = "Extended" /\ y.kind = "RefundQueued" /\ z.kind = "BidPlaced"
  BY <1>1, <1>2, <1>3
<1> DEFINE E == {x, y, z}
<1>9. q1 \in Seq(E) /\ Range(q1) \subseteq {x} /\ Orderly(q1)
  BY <1>4, NoEvents, OneEvent
<1>10. /\ q2 \in Seq(E) /\ Orderly(q2)
      /\ Range(q2) = IF pendingRefund' # pendingRefund THEN {y} ELSE {}
  BY <1>5, NoEvents, OneEvent
<1>11. q3 \in Seq(E) /\ Range(q3) = {z} /\ Orderly(q3)
  BY <1>7, OneEvent
<1>12. PICK q12 : q12 = q1 \o q2
  OBVIOUS
<1>13. q12 \in Seq(E) /\ Range(q12) = Range(q1) \cup Range(q2) /\ Orderly(q12)
  <2>1. \A d \in Range(q1), e \in Range(q2) :
            d.kind # e.kind /\ ~(d.kind = "CustodyUpdated" /\ e.kind = "AcquisitionRecorded")
    BY <1>8, <1>9, <1>10
  <2> QED BY <1>9, <1>10, <1>12, <2>1, Joined
<1>14. PICK q : q = q12 \o q3
  OBVIOUS
<1>15. q \in Seq(E) /\ Range(q) = Range(q12) \cup {z} /\ Orderly(q)
  <2>1. \A d \in Range(q12), e \in Range(q3) :
            d.kind # e.kind /\ ~(d.kind = "CustodyUpdated" /\ e.kind = "AcquisitionRecorded")
    BY <1>8, <1>9, <1>10, <1>11, <1>13
  <2> QED BY <1>11, <1>13, <1>14, <2>1, Joined
<1>16. queue' = q
  BY <1>6, <1>7, <1>12, <1>14
<1>17. Queued' /\ \A k : Waiting(k)' = {e \in Range(q) : e.kind = k}
  BY <1>15, <1>16, Sent
<1>18. /\ \A k : k \notin {"Extended", "RefundQueued", "BidPlaced"} => Waiting(k)' = {}
       /\ Waiting("Extended")' \subseteq {x}
       /\ pendingRefund' = pendingRefund => Waiting("RefundQueued")' = {}
       /\ pendingRefund' # pendingRefund => Waiting("RefundQueued")' = {y}
       /\ Waiting("BidPlaced")' = {z}
  BY <1>8, <1>9, <1>10, <1>13, <1>15, <1>17
<1>19. /\ x.punk = p /\ x.left = sales'[p].left
       /\ y.who = sales[p].bidder /\ y.value = sales[p].high
       /\ z.punk = p /\ z.who = sales'[p].bidder
       /\ z.value = sales'[p].high /\ z.left = sales'[p].left
  BY <1>1, <1>2, <1>3
<1> QED BY <1>8, <1>17, <1>18, <1>19

\* A bid: the row waits for the bid, and the refund that was queued waits.
LEMMA BidEmits ==
    ASSUME IInv, AuctionsInv, Ahead, NEW p \in Punks, EmitBid(p)
    PROVE  Ahead' /\ Queued'
<1>1. /\ UNCHANGED tableVars /\ queue = << >> /\ proofOwner' = proofOwner /\ PlaceBid(p)
  BY DEF EmitBid, Emit
<1>2. PICK x, y, z :
              /\ x.kind = "Extended" /\ x.punk = p /\ x.left = sales'[p].left
              /\ y.kind = "RefundQueued" /\ y.who = sales[p].bidder /\ y.value = sales[p].high
              /\ z.kind = "BidPlaced" /\ z.punk = p /\ z.who = sales'[p].bidder
              /\ z.value = sales'[p].high /\ z.left = sales'[p].left
              /\ Queued'
              /\ \A k : k \notin {"Extended", "RefundQueued", "BidPlaced"} => Waiting(k)' = {}
              /\ Waiting("Extended")' \subseteq {x}
              /\ pendingRefund' = pendingRefund => Waiting("RefundQueued")' = {}
              /\ pendingRefund' # pendingRefund => Waiting("RefundQueued")' = {y}
              /\ Waiting("BidPlaced")' = {z}
  BY BidEvents
<1>3. /\ \A k : Waiting(k) = {}
      /\ \A k : k \notin {"Extended", "RefundQueued", "BidPlaced"} => Silent(k) /\ Waiting(k)' = {}
  BY <1>1, <1>2, Quiet DEF Silent
<1>4. PICK a \in Accounts, value \in Bids, referrer \in Referrers \cup {NoAccount},
           pushed \in BOOLEAN : RA!PlaceBid(p, a, value, referrer, pushed)
  BY <1>1 DEF PlaceBid
<1>5. UNCHANGED recordsVars /\ UNCHANGED vaultVars /\ UNCHANGED patronVars
  BY <1>1 DEF PlaceBid
<1>6. UNCHANGED <<acquisitions, acquisitionIndexOf, custody, attemptCount, isLocked,
                  proofMeta, collectedMask, lockedPunkCount, proofsMintedCount,
                  received, allowedSellers>>
  BY <1>4, <1>5 DEF recordsVars, vaultVars, patronVars, RA!PlaceBid
<1>7. \A q : PC!TargetOf(q)' = PC!TargetOf(q) /\ Outcome(q)' = Outcome(q)
  BY <1>5, <1>6, TargetsSame DEF Outcome
<1>8. RefundsAhead'
  <2>1. refunds = pendingRefund /\ refunds' = refunds
    BY <1>1, <1>3 DEF Ahead, RefundsAhead, tableVars
  <2>2. \/ pendingRefund' = pendingRefund
        \/ pendingRefund' = [pendingRefund EXCEPT ![sales[p].bidder] = @ + sales[p].high]
    BY <1>4 DEF RA!PlaceBid, RA!Refund
  <2>3. Waiting("RefundWithdrawn")' = {}
    BY <1>3
  <2>4. CASE pendingRefund' = pendingRefund
    BY <1>2, <2>1, <2>3, <2>4 DEF RefundsAhead
  <2>5. CASE pendingRefund' # pendingRefund
    <3>1. pendingRefund' = [refunds' EXCEPT ![y.who] = @ + y.value]
      BY <1>2, <2>1, <2>2, <2>5
    <3> QED BY <1>2, <2>3, <2>5, <3>1 DEF RefundsAhead
  <2> QED BY <2>4, <2>5
<1>9. /\ \A q \in Punks : /\ sales'[q].phase = sales[q].phase
                          /\ sales'[q].cost = sales[q].cost
                          /\ sales'[q].reserve = sales[q].reserve
                          /\ q # p => sales'[q] = sales[q]
      /\ sales[p].phase = "open"
  <2>1. \A q \in Punks : q # p => sales'[q] = sales[q]
    BY <1>4 DEF RA!PlaceBid, IInv, Shapes
  <2> QED BY <1>1, <1>4, <2>1, BidSlots DEF RA!PlaceBid, RA!Live, RA!Open
<1>10. AuctionAhead'
  <2>1. /\ auctionRow \in [Punks -> AuctionRow \cup {NoRow}] /\ auctionRow' = auctionRow
        /\ \A q \in Punks :
              IF sales[q].phase = "none" THEN auctionRow[q] = NoRow
              ELSE LET r == auctionRow[q]
                       s == sales[q]
                   IN  /\ r # NoRow
                       /\ r.cost = s.cost /\ r.reserve = s.reserve
                       /\ r.left = s.left /\ r.high = s.high /\ r.bidder = s.bidder
                       /\ r.outcome = Outcome(q)
    BY <1>1, <1>3 DEF Ahead, AuctionAhead, tableVars
  <2>2. /\ Waiting("ReturnAuctionStarted")' = {} /\ Waiting("ReturnAuctionCleared")' = {}
        /\ Waiting("PunkVaulted")' = {}
    BY <1>3
  <2>3. sales'[p].phase = "open"
    BY <1>9
  <2>4. ASSUME NEW q \in Punks
        PROVE  IF sales'[q].phase = "none" THEN auctionRow'[q] = NoRow
               ELSE /\ auctionRow'[q] # NoRow
                    /\ auctionRow'[q].cost = sales'[q].cost
                    /\ auctionRow'[q].reserve = sales'[q].reserve
                    /\ \/ /\ auctionRow'[q].left = sales'[q].left
                          /\ auctionRow'[q].high = sales'[q].high
                          /\ auctionRow'[q].bidder = sales'[q].bidder
                       \/ q = p
                    /\ auctionRow'[q].outcome = Outcome(q)
    BY <1>9, <2>1
  <2> QED BY <1>2, <1>7, <2>1, <2>2, <2>3, <2>4 DEF AuctionAhead, RA!Open
<1>11. LogAhead' /\ RowsAgree' /\ TrialsAhead' /\ VaultedAhead'
  BY <1>1, <1>3, <1>6, <1>7, EmitFrames
<1>12. ProofsAhead' /\ CountersAhead' /\ SellersAhead'
  BY <1>1, <1>3, <1>6, EmitFrames
<1> QED BY <1>2, <1>8, <1>10, <1>11, <1>12 DEF Ahead
-----------------------------------------------------------------------------
\* Three events of different kinds.
LEMMA ThreeEvents ==
    ASSUME NEW x, NEW y, NEW z,
           x.kind # y.kind, x.kind # z.kind, y.kind # z.kind,
           x.kind # "CustodyUpdated", z.kind # "AcquisitionRecorded",
           queue' = <<x, y, z>>
    PROVE  /\ Queued'
           /\ Waiting(x.kind)' = {x} /\ Waiting(y.kind)' = {y} /\ Waiting(z.kind)' = {z}
           /\ \A k : k \notin {x.kind, y.kind, z.kind} => Waiting(k)' = {}
<1>1. PICK q : q = <<x, y, z>>
  OBVIOUS
<1>2. /\ q \in Seq({x, y, z}) /\ Len(q) = 3 /\ DOMAIN q = 1 .. 3
      /\ q[1] = x /\ q[2] = y /\ q[3] = z
  BY <1>1
<1>3. \A i \in 1 .. Len(q) : i = 1 \/ i = 2 \/ i = 3
  BY <1>2
<1>4. Range(q) = {x, y, z}
  <2>1. 1 \in 1 .. 3 /\ 2 \in 1 .. 3 /\ 3 \in 1 .. 3
    OBVIOUS
  <2> QED BY <1>2, <1>3, <2>1 DEF Range
<1>5. Orderly(q)
  <2>1. ASSUME NEW i \in 1 .. Len(q), NEW j \in 1 .. Len(q), q[i].kind = q[j].kind
        PROVE  i = j
    BY <1>2, <1>3, <2>1
  <2>2. ASSUME NEW i \in 1 .. Len(q), NEW j \in 1 .. Len(q),
               q[i].kind = "AcquisitionRecorded", q[j].kind = "CustodyUpdated"
        PROVE  i < j
    BY <1>2, <1>3, <2>2
  <2> QED BY <2>1, <2>2 DEF Orderly
<1>6. Queued' /\ \A k : Waiting(k)' = {e \in Range(q) : e.kind = k}
  BY <1>1, <1>2, <1>5, Sent
<1> QED BY <1>4, <1>6

\* What an acquisition does to the state that the tables show.
LEMMA AcceptFacts ==
    ASSUME IInv, Core!IInv, NEW p \in Punks, Accept(p)
    PROVE  \E t \in Traits, row \in PC!Acquisition :
              /\ row.punk = p /\ row.target = t /\ row.custody = "InReturnAuction"
              /\ acquisitions \in Seq(PC!Acquisition)
              /\ acquisitions' = Append(acquisitions, row)
              /\ acquisitionIndexOf' = [acquisitionIndexOf EXCEPT ![p] = Len(acquisitions')]
              /\ acquisitionIndexOf'[p] # 0
              /\ custody' = [custody EXCEPT ![p] = "InReturnAuction"]
              /\ custody'[p] = "InReturnAuction"
              /\ attemptCount' = [attemptCount EXCEPT ![t] = @ + 1]
              /\ sales'[p].phase = "open"
              /\ sales'[p].high = 0 /\ sales'[p].bidder = NoAccount
              /\ \A q \in Punks : q # p => sales'[q] = sales[q]
              /\ UNCHANGED <<isLocked, proofMeta, collectedMask, lockedPunkCount,
                             proofsMintedCount, received, allowedSellers, pendingRefund>>
              /\ \A q \in isLocked : PC!TargetOf(q)' = PC!TargetOf(q)
<1>1. PICK t \in Traits, price \in Prices :
         \/ \E expected \in Prices : AcceptBid(p, t, price, expected)
         \/ \E caller \in Accounts : AcceptListing(p, t, price, caller)
  BY DEF Accept
<1>2. PICK seller \in Accounts : seller = punkOwner[p]
  BY <1>1 DEF AcceptBid, AcceptListing
<1>3. PICK a \in Accounts : Acquire(p, t, price, a, seller)
  BY <1>1, <1>2 DEF AcceptBid, AcceptListing
<1>4. allowedSellers' = allowedSellers
  BY <1>1 DEF AcceptBid, AcceptListing, allowlistVars
<1>5. PICK row : row = [punk |-> p, target |-> t, acquirer |-> a, seller |-> seller,
                        price |-> price, custody |-> "InReturnAuction"]
  OBVIOUS
<1>6. /\ row \in PC!Acquisition
      /\ row.punk = p /\ row.target = t /\ row.custody = "InReturnAuction"
  BY <1>5, SameTraits DEF PC!Acquisition, PC!Custody
<1>7. /\ acquisitions' = Append(acquisitions, row)
      /\ acquisitionIndexOf' = [acquisitionIndexOf EXCEPT ![p] = Len(acquisitions')]
      /\ custody' = [custody EXCEPT ![p] = "InReturnAuction"]
      /\ attemptCount' = [attemptCount EXCEPT ![t] = @ + 1]
      /\ collectedMask' = collectedMask
      /\ custody[p] \in {"None", "ReturnedToMarket"}
  BY <1>3, <1>5 DEF Acquire, PC!RecordAcquisition, PC!Acquirable
<1>8. /\ sales'[p].phase = "open"
      /\ sales'[p].high = 0 /\ sales'[p].bidder = NoAccount
      /\ \A q \in Punks : q # p => sales'[q] = sales[q]
      /\ received' = received /\ pendingRefund' = pendingRefund
  BY <1>3 DEF Acquire, RA!StartSale, IInv, Shapes
<1>9. UNCHANGED <<isLocked, proofMeta, lockedPunkCount, proofsMintedCount>>
  BY <1>3 DEF Acquire, vaultVars
<1>10. /\ acquisitions \in Seq(PC!Acquisition) /\ acquisitionIndexOf \in [Punks -> Nat]
       /\ custody \in [Punks -> PC!Custody] /\ isLocked \subseteq Punks
  BY DEF IInv, Shapes
<1>11. Len(acquisitions') = Len(acquisitions) + 1 /\ Len(acquisitions) \in Nat
  BY <1>6, <1>7, <1>10
<1>12. acquisitionIndexOf'[p] # 0 /\ custody'[p] = "InReturnAuction"
  BY <1>7, <1>10, <1>11
<1>13. ASSUME NEW q \in isLocked PROVE PC!TargetOf(q)' = PC!TargetOf(q)
  <2>1. q \in Punks /\ custody[q] = "Vaulted" /\ q # p
    BY <1>7, <1>10 DEF IInv, ContractsAgree
  <2>2. acquisitionIndexOf[q] \in 1 .. Len(acquisitions)
    BY <2>1 DEF Core!IInv, Core!IndexInv
  <2>3. acquisitionIndexOf'[q] = acquisitionIndexOf[q]
    BY <1>7, <1>10, <2>1
  <2>4. acquisitions'[acquisitionIndexOf[q]] = acquisitions[acquisitionIndexOf[q]]
    BY <1>7, <1>10, <2>2
  <2> QED BY <2>3, <2>4 DEF PC!TargetOf, PC!RowOf
<1> QED BY <1>4, <1>6, <1>7, <1>8, <1>9, <1>10, <1>12, <1>13

\* An acquisition: its start, its row and its custody wait.
LEMMA AcceptEmits ==
    ASSUME IInv, Core!IInv, Ahead, NEW p \in Punks, EmitAccept(p)
    PROVE  Ahead' /\ Queued'
<1>1. /\ UNCHANGED tableVars /\ queue = << >> /\ proofOwner' = proofOwner /\ Accept(p)
      /\ queue' = AcquisitionEvents(p)
  BY DEF EmitAccept, Emit
<1>2. PICK t \in Traits, row \in PC!Acquisition :
              /\ row.punk = p /\ row.target = t /\ row.custody = "InReturnAuction"
              /\ acquisitions \in Seq(PC!Acquisition)
              /\ acquisitions' = Append(acquisitions, row)
              /\ acquisitionIndexOf' = [acquisitionIndexOf EXCEPT ![p] = Len(acquisitions')]
              /\ acquisitionIndexOf'[p] # 0
              /\ custody' = [custody EXCEPT ![p] = "InReturnAuction"]
              /\ custody'[p] = "InReturnAuction"
              /\ attemptCount' = [attemptCount EXCEPT ![t] = @ + 1]
              /\ sales'[p].phase = "open"
              /\ sales'[p].high = 0 /\ sales'[p].bidder = NoAccount
              /\ \A q \in Punks : q # p => sales'[q] = sales[q]
              /\ UNCHANGED <<isLocked, proofMeta, collectedMask, lockedPunkCount,
                             proofsMintedCount, received, allowedSellers, pendingRefund>>
              /\ \A q \in isLocked : PC!TargetOf(q)' = PC!TargetOf(q)
  BY <1>1, AcceptFacts
<1>3. PICK n : n = Len(acquisitions)
  OBVIOUS
<1>4. /\ n \in Nat /\ Len(acquisitions') = n + 1 /\ acquisitions' # << >>
      /\ acquisitions'[Len(acquisitions')] = row
      /\ \A i \in 1 .. n : acquisitions'[i] = acquisitions[i]
  BY <1>2, <1>3
<1>5. PICK x : x = [kind |-> "ReturnAuctionStarted", punk |-> p, sale |-> sales'[p]]
  OBVIOUS
<1>6. PICK y : y = [kind |-> "AcquisitionRecorded", punk |-> p, row |-> row]
  OBVIOUS
<1>7. PICK z : z = Custodied(p, "InReturnAuction")
  OBVIOUS
<1>8. /\ x.kind = "ReturnAuctionStarted" /\ x.punk = p /\ x.sale = sales'[p]
      /\ y.kind = "AcquisitionRecorded" /\ y.punk = p /\ y.row = row
      /\ z.kind = "CustodyUpdated" /\ z.punk = p /\ z.outcome = "InReturnAuction"
  BY <1>5, <1>6, <1>7 DEF Custodied
<1>9. queue' = <<x, y, z>>
  BY <1>1, <1>4, <1>5, <1>6, <1>7 DEF AcquisitionEvents
<1>10. /\ Queued'
       /\ Waiting("ReturnAuctionStarted")' = {x} /\ Waiting("AcquisitionRecorded")' = {y}
       /\ Waiting("CustodyUpdated")' = {z}
       /\ \A k : k \notin {"ReturnAuctionStarted", "AcquisitionRecorded", "CustodyUpdated"}
             => Waiting(k)' = {}
  BY <1>8, <1>9, ThreeEvents
<1>11. /\ \A k : Waiting(k) = {}
       /\ \A k : k \notin {"ReturnAuctionStarted", "AcquisitionRecorded", "CustodyUpdated"}
             => Silent(k)
  BY <1>1, <1>10, Quiet DEF Silent
<1>12. UNCHANGED <<acquisitionRow, history, auctionRow, trials, vaultedRow, counters>>
  BY <1>1 DEF tableVars
<1>13. LogAhead'
  <2>1. /\ history \in Seq(HistoryRow) /\ Len(history) = n
        /\ \A i \in 1 .. n :
              LET h == history[i]
                  a == acquisitions[i]
              IN  /\ h.punk = a.punk /\ h.target = a.target /\ h.acquirer = a.acquirer
                  /\ h.seller = a.seller /\ h.price = a.price /\ h.custody = a.custody
    BY <1>3, <1>4, <1>11 DEF Ahead, LogAhead
  <2>2. \A e \in Waiting("AcquisitionRecorded")' :
              /\ e.punk \in Punks /\ acquisitions' # << >>
              /\ e.row = acquisitions'[Len(acquisitions')]
              /\ e.row.punk = e.punk /\ e.row.custody = "InReturnAuction"
    BY <1>2, <1>4, <1>8, <1>10
  <2>3. \A e \in Waiting("CustodyUpdated")' :
              /\ e.punk \in Punks /\ acquisitionIndexOf'[e.punk] # 0
              /\ e.outcome = custody'[e.punk]
    BY <1>2, <1>8, <1>10
  <2>4. history' = history /\ Waiting("AcquisitionRecorded")' # {}
    BY <1>10, <1>12
  <2>5. \A i \in 1 .. Len(history') :
              LET h == history'[i]
                  a == acquisitions'[i]
              IN  /\ h.punk = a.punk /\ h.target = a.target /\ h.acquirer = a.acquirer
                  /\ h.seller = a.seller /\ h.price = a.price /\ h.custody = a.custody
    BY <1>4, <2>1, <2>4
  <2> QED BY <1>4, <2>1, <2>2, <2>3, <2>4, <2>5 DEF LogAhead
<1>14. AuctionAhead'
  <2>1. /\ auctionRow \in [Punks -> AuctionRow \cup {NoRow}] /\ auctionRow' = auctionRow
        /\ \A q \in Punks :
              IF sales[q].phase = "none" THEN auctionRow[q] = NoRow
              ELSE LET r == auctionRow[q]
                       s == sales[q]
                   IN  /\ r # NoRow
                       /\ r.cost = s.cost /\ r.reserve = s.reserve
                       /\ r.left = s.left /\ r.high = s.high /\ r.bidder = s.bidder
                       /\ r.outcome = Outcome(q)
    BY <1>11, <1>12 DEF Ahead, AuctionAhead
  <2>2. /\ Waiting("BidPlaced")' = {} /\ Waiting("Extended")' = {}
        /\ Waiting("ReturnAuctionCleared")' = {} /\ Waiting("PunkVaulted")' = {}
    BY <1>10
  <2>3. RA!Open(p)'
    BY <1>2 DEF RA!Open
  <2>4. \A q \in Punks : q # p => Outcome(q)' = Outcome(q) /\ sales'[q] = sales[q]
    BY <1>2 DEF Outcome, IInv, Shapes
  <2> QED BY <1>2, <1>8, <1>10, <2>1, <2>2, <2>3, <2>4 DEF AuctionAhead
<1>15. TrialsAhead'
  <2>1. trials' = attemptCount
    BY <1>11, <1>12 DEF Ahead, TrialsAhead
  <2>2. attemptCount' = [trials' EXCEPT ![y.row.target] = @ + 1]
    BY <1>2, <1>8, <2>1
  <2> QED BY <1>10, <2>2 DEF TrialsAhead
<1>16. VaultedAhead'
  <2>1. /\ vaultedRow \in [Punks -> Traits \cup {NoTrait, NoRow}]
        /\ \A q \in Punks : IF q \in isLocked THEN vaultedRow[q] = PC!TargetOf(q)
                            ELSE vaultedRow[q] = NoRow
    BY <1>11 DEF Ahead, VaultedAhead
  <2>2. Waiting("PunkVaulted")' = {}
    BY <1>10
  <2> QED BY <1>2, <1>12, <2>1, <2>2 DEF VaultedAhead
<1>17. CountersAhead'
  <2>1. /\ counters \in [{"collected", "acquisitions", "vaulted", "cleared", "proofs",
                          "inflow"} -> Int]
        /\ Cardinality(collectedMask) = counters.collected
        /\ n = counters.acquisitions
        /\ lockedPunkCount = counters.vaulted
        /\ Cardinality(ClearedRows) = counters.cleared
        /\ proofsMintedCount = counters.proofs
        /\ received["adapter"] = counters.inflow
    BY <1>3, <1>11 DEF Ahead, CountersAhead, Outcomes, One
  <2>2. ClearedRows' = ClearedRows
    <3>1. 1 .. n + 1 = (1 .. n) \cup {n + 1}
      BY <1>4
    <3> QED BY <1>2, <1>3, <1>4, <3>1 DEF ClearedRows
  <2>3. Outcomes("Vaulted")' = {} /\ Outcomes("ReturnedToMarket")' = {}
    BY <1>8, <1>10 DEF Outcomes
  <2>4. One(Waiting("AcquisitionRecorded"))' = 1 /\ One(Outcomes("Vaulted"))' = 0
        /\ One(Outcomes("ReturnedToMarket"))' = 0
    BY <1>10, <2>3 DEF One
  <2>5. /\ Waiting("TraitsCollected")' = {} /\ Waiting("ProofMinted")' = {}
        /\ Waiting("PoolReplenished")' = {}
        /\ One(Waiting("TraitsCollected"))' = 0 /\ One(Waiting("ProofMinted"))' = 0
    BY <1>10 DEF One
  <2> QED BY <1>2, <1>4, <1>12, <2>1, <2>2, <2>4, <2>5 DEF CountersAhead
<1>18. RowsAgree' /\ ProofsAhead' /\ SellersAhead' /\ RefundsAhead'
  BY <1>1, <1>2, <1>11, EmitFrames
<1> QED BY <1>10, <1>13, <1>14, <1>15, <1>16, <1>17, <1>18 DEF Ahead
-----------------------------------------------------------------------------
\* The rows of the log are as before, but for the outcome of row i, a row of p.
RowMarked(i, p, outcome) ==
    /\ i \in 1 .. Len(acquisitions) /\ Len(acquisitions) \in Nat
    /\ Len(acquisitions') = Len(acquisitions)
    /\ \A j \in 1 .. Len(acquisitions) :
          LET a == acquisitions[j]
              b == acquisitions'[j]
          IN  /\ b.punk = a.punk /\ b.target = a.target /\ b.acquirer = a.acquirer
              /\ b.seller = a.seller /\ b.price = a.price
              /\ j # i => b.custody = a.custody
              /\ j = i =>
                    a.punk = p /\ a.custody = "InReturnAuction" /\ b.custody = outcome

\* What the end of an auction does to the state that the tables show.
LEMMA SettleFacts ==
    ASSUME IInv, Core!IInv, NEW p \in Punks, RA!Open(p),
           NEW outcome \in {"Vaulted", "ReturnedToMarket"}, PC!MarkCustody(p, outcome),
           NEW i, i = acquisitionIndexOf[p],
           sales' = [sales EXCEPT ![p].phase = "settled"]
    PROVE  /\ custody[p] = "InReturnAuction" /\ p \notin isLocked
           /\ custody' = [custody EXCEPT ![p] = outcome] /\ custody'[p] = outcome
           /\ acquisitionIndexOf' = acquisitionIndexOf
           /\ attemptCount' = attemptCount
           /\ RowMarked(i, p, outcome)
           /\ PC!TargetOf(p)' = PC!TargetOf(p)
           /\ \A q \in isLocked : PC!TargetOf(q)' = PC!TargetOf(q)
           /\ sales'[p].phase = "settled" /\ sales[p].phase = "open"
           /\ \A q \in Punks : /\ q # p => sales'[q] = sales[q]
                               /\ sales'[q].cost = sales[q].cost
                               /\ sales'[q].reserve = sales[q].reserve
                               /\ sales'[q].left = sales[q].left
                               /\ sales'[q].high = sales[q].high
                               /\ sales'[q].bidder = sales[q].bidder
<1>2. /\ custody[p] = "InReturnAuction"
      /\ custody' = [custody EXCEPT ![p] = outcome]
      /\ acquisitions' = [acquisitions EXCEPT ![i].custody = outcome]
      /\ UNCHANGED <<attemptCount, acquisitionIndexOf>>
  BY DEF PC!MarkCustody
<1>3. /\ acquisitions \in Seq(PC!Acquisition) /\ acquisitionIndexOf \in [Punks -> Nat]
      /\ custody \in [Punks -> PC!Custody] /\ sales \in [Punks -> Slot]
      /\ isLocked \subseteq Punks
  BY DEF IInv, Shapes
<1>4. i \in 1 .. Len(acquisitions) /\ acquisitions[i].punk = p
      /\ acquisitions[i].custody = "InReturnAuction"
  BY <1>2 DEF Core!IInv, Core!IndexInv, Core!RowOf
<1>5. acquisitions[i] \in PC!Acquisition /\ DOMAIN acquisitions = 1 .. Len(acquisitions)
      /\ Len(acquisitions) \in Nat
  BY <1>3, <1>4
<1>6. PICK row : row = [acquisitions[i] EXCEPT !.custody = outcome]
  OBVIOUS
<1>7. /\ row \in PC!Acquisition /\ row.custody = outcome
      /\ row.punk = acquisitions[i].punk /\ row.target = acquisitions[i].target
      /\ row.acquirer = acquisitions[i].acquirer /\ row.seller = acquisitions[i].seller
      /\ row.price = acquisitions[i].price
  BY <1>5, <1>6 DEF PC!Acquisition, PC!Custody
<1>8. acquisitions' = [acquisitions EXCEPT ![i] = row]
  BY <1>2, <1>6
<1>9. Len(acquisitions') = Len(acquisitions) /\ acquisitions'[i] = row
      /\ \A j \in 1 .. Len(acquisitions) : j # i => acquisitions'[j] = acquisitions[j]
  BY <1>3, <1>4, <1>7, <1>8, ExceptSeq
<1>10. ASSUME NEW q \in Punks, custody[q] # "None" PROVE PC!TargetOf(q)' = PC!TargetOf(q)
  <2>1. acquisitionIndexOf[q] \in 1 .. Len(acquisitions)
    BY <1>10 DEF Core!IInv, Core!IndexInv
  <2>2. acquisitions'[acquisitionIndexOf[q]].target = acquisitions[acquisitionIndexOf[q]].target
    BY <1>7, <1>9, <2>1
  <2> QED BY <1>2, <2>2 DEF PC!TargetOf, PC!RowOf
<1>11. PC!TargetOf(p)' = PC!TargetOf(p) /\ \A q \in isLocked : PC!TargetOf(q)' = PC!TargetOf(q)
  BY <1>2, <1>3, <1>10 DEF IInv, ContractsAgree
<1>12. p \notin isLocked
  BY <1>2 DEF IInv, ContractsAgree
<1>13. /\ sales'[p].phase = "settled" /\ sales[p].phase = "open"
       /\ \A q \in Punks : /\ q # p => sales'[q] = sales[q]
                           /\ sales'[q].cost = sales[q].cost
                           /\ sales'[q].reserve = sales[q].reserve
                           /\ sales'[q].left = sales[q].left
                           /\ sales'[q].high = sales[q].high
                           /\ sales'[q].bidder = sales[q].bidder
  BY <1>3 DEF Slot, RA!Open
<1>14. ASSUME NEW j \in 1 .. Len(acquisitions)
       PROVE  LET a == acquisitions[j]
                  b == acquisitions'[j]
              IN  /\ b.punk = a.punk /\ b.target = a.target /\ b.acquirer = a.acquirer
                  /\ b.seller = a.seller /\ b.price = a.price
                  /\ j # i => b.custody = a.custody
                  /\ j = i =>
                        a.punk = p /\ a.custody = "InReturnAuction" /\ b.custody = outcome
  <2>1. CASE j = i
    BY <1>4, <1>7, <1>9, <2>1
  <2>2. CASE j # i
    BY <1>9, <2>2
  <2> QED BY <2>1, <2>2
<1>15. custody'[p] = outcome
  BY <1>2, <1>3
<1>16. RowMarked(i, p, outcome)
  BY <1>4, <1>5, <1>9, <1>14 DEF RowMarked
<1> QED BY <1>2, <1>16, <1>11, <1>12, <1>13, <1>15

\* The history waits for the custody of its row.
LEMMA SettleLog ==
    ASSUME LogAhead, NEW p \in Punks, NEW y, NEW i, i = acquisitionIndexOf[p],
           \A k : Waiting(k) = {}, history' = history,
           Waiting("AcquisitionRecorded")' = {}, Waiting("CustodyUpdated")' = {y},
           y.punk = p, y.outcome = custody'[p],
           acquisitionIndexOf' = acquisitionIndexOf,
           NEW outcome, RowMarked(i, p, outcome)
    PROVE  LogAhead'
<1>1. /\ history \in Seq(HistoryRow) /\ Len(acquisitions) = Len(history)
      /\ \A j \in 1 .. Len(history) :
              LET h == history[j]
                  a == acquisitions[j]
              IN  /\ h.punk = a.punk /\ h.target = a.target /\ h.acquirer = a.acquirer
                  /\ h.seller = a.seller /\ h.price = a.price /\ h.custody = a.custody
  BY DEF LogAhead
<1>2. \A e \in Waiting("CustodyUpdated")' :
          e.punk \in Punks /\ acquisitionIndexOf'[e.punk] # 0 /\ e.outcome = custody'[e.punk]
  BY DEF RowMarked
<1>3. ASSUME NEW j \in 1 .. Len(history')
      PROVE  LET h == history'[j]
                 a == acquisitions'[j]
             IN  /\ h.punk = a.punk /\ h.target = a.target /\ h.acquirer = a.acquirer
                 /\ h.seller = a.seller /\ h.price = a.price
                 /\ \/ h.custody = a.custody
                    \/ \E e \in Waiting("CustodyUpdated")' :
                          e.punk = a.punk /\ acquisitionIndexOf'[a.punk] = j
  BY <1>1 DEF RowMarked
<1> QED BY <1>1, <1>2, <1>3 DEF LogAhead, RowMarked

\* The auction row waits for its end.
LEMMA SettleAuction ==
    ASSUME IInv, AuctionAhead, NEW p \in Punks,
           \A k : Waiting(k) = {}, auctionRow' = auctionRow,
           Waiting("ReturnAuctionStarted")' = {}, Waiting("BidPlaced")' = {},
           Waiting("Extended")' = {},
           NEW outcome, custody' = [custody EXCEPT ![p] = outcome],
           NEW z, z.punk = p,
           \/ /\ Waiting("ReturnAuctionCleared")' = {z} /\ Waiting("PunkVaulted")' = {}
              /\ outcome = "ReturnedToMarket"
           \/ /\ Waiting("ReturnAuctionCleared")' = {} /\ Waiting("PunkVaulted")' = {z}
              /\ outcome = "Vaulted",
           sales'[p].phase = "settled", sales[p].phase = "open",
           \A q \in Punks : /\ q # p => sales'[q] = sales[q]
                            /\ sales'[q].cost = sales[q].cost
                            /\ sales'[q].reserve = sales[q].reserve
                            /\ sales'[q].left = sales[q].left
                            /\ sales'[q].high = sales[q].high
                            /\ sales'[q].bidder = sales[q].bidder
    PROVE  AuctionAhead'
<1>1. /\ auctionRow \in [Punks -> AuctionRow \cup {NoRow}]
      /\ \A q \in Punks :
            IF sales[q].phase = "none" THEN auctionRow[q] = NoRow
            ELSE LET r == auctionRow[q]
                     s == sales[q]
                 IN  /\ r # NoRow
                     /\ r.cost = s.cost /\ r.reserve = s.reserve
                     /\ r.left = s.left /\ r.high = s.high /\ r.bidder = s.bidder
                     /\ r.outcome = Outcome(q)
  BY DEF AuctionAhead
<1>2. custody'[p] = outcome /\ \A q \in Punks : q # p => custody'[q] = custody[q]
  BY DEF IInv, Shapes
<1>3. \A q \in Punks : q # p => Outcome(q)' = Outcome(q)
  BY <1>2 DEF Outcome
<1>4. /\ \A e \in Waiting("ReturnAuctionCleared")' \cup Waiting("PunkVaulted")' :
            e.punk \in Punks /\ sales'[e.punk].phase # "none"
      /\ \A e \in Waiting("ReturnAuctionCleared")' : custody'[e.punk] = "ReturnedToMarket"
      /\ \A e \in Waiting("PunkVaulted")' : custody'[e.punk] = "Vaulted"
      /\ \E e \in Waiting("ReturnAuctionCleared")' \cup Waiting("PunkVaulted")' : e.punk = p
  BY <1>2
<1>5. ASSUME NEW q \in Punks
      PROVE  IF sales'[q].phase = "none" THEN auctionRow'[q] = NoRow
             ELSE LET r == auctionRow'[q]
                      s == sales'[q]
                  IN  /\ r # NoRow
                      /\ r.cost = s.cost /\ r.reserve = s.reserve
                      /\ r.left = s.left /\ r.high = s.high /\ r.bidder = s.bidder
                      /\ \/ r.outcome = Outcome(q)'
                         \/ \E e \in Waiting("ReturnAuctionCleared")'
                                       \cup Waiting("PunkVaulted")' : e.punk = q
  <2>1. CASE q = p
    BY <1>1, <1>4, <2>1
  <2>2. CASE q # p
    BY <1>1, <1>3, <2>2
  <2> QED BY <2>1, <2>2
<1> QED BY <1>1, <1>4, <1>5 DEF AuctionAhead
\* The end of an auction adds its row to the cleared ones, or adds none.
LEMMA SettleCounts ==
    ASSUME NEW i, NEW p, NEW outcome, RowMarked(i, p, outcome)
    PROVE  /\ outcome = "ReturnedToMarket" =>
                 Cardinality(ClearedRows') = Cardinality(ClearedRows) + 1
           /\ outcome = "Vaulted" => ClearedRows' = ClearedRows
<1>1. IsFiniteSet(1 .. Len(acquisitions))
  BY FS_Interval DEF RowMarked
<1>2. IsFiniteSet(ClearedRows)
  BY <1>1, FS_Subset DEF ClearedRows
<1>3. i \notin ClearedRows
  BY DEF ClearedRows, RowMarked
<1>4. ASSUME outcome = "ReturnedToMarket" PROVE ClearedRows' = ClearedRows \cup {i}
  BY <1>4 DEF ClearedRows, RowMarked
<1>5. ASSUME outcome = "Vaulted" PROVE ClearedRows' = ClearedRows
  BY <1>5 DEF ClearedRows, RowMarked
<1> QED BY <1>2, <1>3, <1>4, <1>5, FS_AddElement

\* An auction that ends with a winner: the inflow, the custody and the end wait.
LEMMA ClearedEmits ==
    ASSUME IInv, Core!IInv, AuctionsInv, PA!TypeOK, Ahead, NEW p \in Punks,
           EmitSettleCleared(p)
    PROVE  Ahead' /\ Queued'
<1>1. /\ UNCHANGED tableVars /\ queue = << >> /\ proofOwner' = proofOwner
      /\ SettleCleared(p)
  BY DEF EmitSettleCleared, Emit
<1>2. /\ RA!Open(p) /\ PC!MarkCustody(p, "ReturnedToMarket")
      /\ sales' = [sales EXCEPT ![p].phase = "settled"] /\ pendingRefund' = pendingRefund
      /\ UNCHANGED vaultVars /\ UNCHANGED patronVars
  BY <1>1 DEF SettleCleared, RA!SettleCleared, RA!Settleable
<1>3. PICK x : x = [kind |-> "PoolReplenished",
                    value |-> received'["adapter"] - received["adapter"]]
  OBVIOUS
<1>4. PICK y : y = Custodied(p, "ReturnedToMarket")
  OBVIOUS
<1>5. PICK z : z = [kind |-> "ReturnAuctionCleared", punk |-> p]
  OBVIOUS
<1>6. /\ x.kind = "PoolReplenished" /\ x.value = received'["adapter"] - received["adapter"]
      /\ y.kind = "CustodyUpdated" /\ y.punk = p /\ y.outcome = "ReturnedToMarket"
      /\ z.kind = "ReturnAuctionCleared" /\ z.punk = p
  BY <1>3, <1>4, <1>5 DEF Custodied
<1>7. queue' = <<x, y, z>>
  BY <1>3, <1>4, <1>5 DEF EmitSettleCleared, Emit
<1>8. /\ Queued'
      /\ Waiting("PoolReplenished")' = {x} /\ Waiting("CustodyUpdated")' = {y}
      /\ Waiting("ReturnAuctionCleared")' = {z}
      /\ \A k : k \notin {"PoolReplenished", "CustodyUpdated", "ReturnAuctionCleared"}
             => Waiting(k)' = {}
  BY <1>6, <1>7, ThreeEvents
<1>9. /\ \A k : Waiting(k) = {}
      /\ \A k : k \notin {"PoolReplenished", "CustodyUpdated", "ReturnAuctionCleared"}
             => Silent(k)
  BY <1>1, <1>8, Quiet DEF Silent
<1>10. UNCHANGED <<acquisitionRow, history, auctionRow, trials, vaultedRow, counters>>
  BY <1>1 DEF tableVars
<1>11. PICK i : i = acquisitionIndexOf[p]
  OBVIOUS
<1>12. /\ custody' = [custody EXCEPT ![p] = "ReturnedToMarket"]
       /\ custody'[p] = "ReturnedToMarket"
       /\ acquisitionIndexOf' = acquisitionIndexOf
       /\ attemptCount' = attemptCount
       /\ RowMarked(i, p, "ReturnedToMarket")
       /\ \A q \in isLocked : PC!TargetOf(q)' = PC!TargetOf(q)
  BY <1>2, <1>11, SettleFacts
<1>13. /\ sales'[p].phase = "settled" /\ sales[p].phase = "open"
       /\ \A q \in Punks : /\ q # p => sales'[q] = sales[q]
                           /\ sales'[q].cost = sales[q].cost
                           /\ sales'[q].reserve = sales[q].reserve
                           /\ sales'[q].left = sales[q].left
                           /\ sales'[q].high = sales[q].high
                           /\ sales'[q].bidder = sales[q].bidder
  BY <1>2, SettleFacts
<1>14. UNCHANGED <<isLocked, proofMeta, collectedMask, lockedPunkCount, proofsMintedCount,
                   allowedSellers>>
  BY <1>2 DEF vaultVars, patronVars, PC!MarkCustody, PC!Collect
<1>15. LogAhead'
  <2>1. Waiting("AcquisitionRecorded")' = {}
    BY <1>8
  <2> QED BY <1>6, <1>8, <1>9, <1>10, <1>11, <1>12, <2>1, SettleLog DEF Ahead
<1>16. AuctionAhead'
  <2>1. /\ Waiting("ReturnAuctionStarted")' = {} /\ Waiting("BidPlaced")' = {}
        /\ Waiting("Extended")' = {} /\ Waiting("PunkVaulted")' = {}
    BY <1>8
  <2> QED BY <1>6, <1>8, <1>9, <1>10, <1>12, <1>13, <2>1, SettleAuction DEF Ahead
<1>17. CountersAhead'
  <2>1. /\ counters \in [{"collected", "acquisitions", "vaulted", "cleared", "proofs",
                          "inflow"} -> Int]
        /\ Cardinality(collectedMask) = counters.collected
        /\ Len(acquisitions) = counters.acquisitions
        /\ lockedPunkCount = counters.vaulted
        /\ Cardinality(ClearedRows) = counters.cleared
        /\ proofsMintedCount = counters.proofs
        /\ received["adapter"] = counters.inflow
    BY <1>9 DEF Ahead, CountersAhead, Outcomes, One
  <2>2. Cardinality(ClearedRows') = counters.cleared + 1
    BY <1>12, <2>1, SettleCounts
  <2>3. Outcomes("Vaulted")' = {} /\ Outcomes("ReturnedToMarket")' = {y}
    BY <1>6, <1>8 DEF Outcomes
  <2>4. One(Outcomes("Vaulted"))' = 0 /\ One(Outcomes("ReturnedToMarket"))' = 1
    BY <2>3 DEF One
  <2>5. /\ Waiting("TraitsCollected")' = {} /\ Waiting("ProofMinted")' = {}
        /\ One(Waiting("TraitsCollected"))' = 0 /\ One(Waiting("ProofMinted"))' = 0
        /\ One(Waiting("AcquisitionRecorded"))' = 0
    BY <1>8 DEF One
  <2>6. received["adapter"] \in Int /\ received'["adapter"] \in Int
    <3>1. AuctionsInv'
      BY <1>1, AuctionsStep DEF Next, Settle
    <3> QED BY <3>1 DEF AuctionsInv, Auctions!MoneyTypes, Auctions!Sinks
  <2>7. received'["adapter"] = counters'.inflow + x.value /\ x.value \in Int
    BY <1>6, <1>10, <2>1, <2>6
  <2>8. Len(acquisitions') = Len(acquisitions)
    BY <1>12 DEF RowMarked
  <2>9. counters' = counters /\ received["adapter"] = counters.inflow
    BY <1>10, <2>1
  <2>10. /\ Cardinality(collectedMask') = counters'.collected + One(Waiting("TraitsCollected"))'
         /\ Len(acquisitions') = counters'.acquisitions + One(Waiting("AcquisitionRecorded"))'
         /\ lockedPunkCount' = counters'.vaulted + One(Outcomes("Vaulted"))'
         /\ Cardinality(ClearedRows') = counters'.cleared + One(Outcomes("ReturnedToMarket"))'
         /\ proofsMintedCount' = counters'.proofs + One(Waiting("ProofMinted"))'
    BY <1>14, <2>1, <2>2, <2>4, <2>5, <2>8, <2>9
  <2>11. Waiting("PoolReplenished")' = {x}
    BY <1>8
  <2> QED BY <2>1, <2>5, <2>7, <2>9, <2>10, <2>11 DEF CountersAhead
<1>18. RowsAgree' /\ TrialsAhead' /\ VaultedAhead'
  <2>1. Waiting("AcquisitionRecorded")' \subseteq Waiting("AcquisitionRecorded")
    BY <1>8
  <2> QED BY <1>1, <1>9, <1>12, <1>14, <2>1, EmitFrames
<1>19. ProofsAhead' /\ SellersAhead' /\ RefundsAhead'
  BY <1>1, <1>2, <1>9, <1>14, EmitFrames
<1> QED BY <1>8, <1>15, <1>16, <1>17, <1>18, <1>19 DEF Ahead
-----------------------------------------------------------------------------
\* Five events of different kinds, with no acquisition among them.
LEMMA FiveEvents ==
    ASSUME NEW c, NEW d, NEW v, NEW g, NEW m,
           c.kind = "CustodyUpdated", d.kind = "TraitsCollected", v.kind = "PunkVaulted",
           g.kind = "Transfer", m.kind = "ProofMinted",
           queue' = <<c>> \o <<d>> \o <<v>> \o <<g, m>>
    PROVE  /\ Queued'
           /\ Waiting("CustodyUpdated")' = {c} /\ Waiting("TraitsCollected")' = {d}
           /\ Waiting("PunkVaulted")' = {v}
           /\ Waiting("Transfer")' = {g} /\ Waiting("ProofMinted")' = {m}
           /\ \A k : k \notin {"CustodyUpdated", "TraitsCollected", "PunkVaulted",
                               "Transfer", "ProofMinted"} => Waiting(k)' = {}
<1>0. PICK E : E = {c, d, v, g, m}
  OBVIOUS
<1>1. PICK c1, d1, v1, s : c1 = <<c>> /\ d1 = <<d>> /\ v1 = <<v>> /\ s = <<g, m>>
  OBVIOUS
<1>2. /\ c1 \in Seq(E) /\ Range(c1) = {c} /\ Orderly(c1)
      /\ d1 \in Seq(E) /\ Range(d1) = {d} /\ Orderly(d1)
      /\ v1 \in Seq(E) /\ Range(v1) = {v} /\ Orderly(v1)
  BY <1>0, <1>1, OneEvent
<1>3. s \in Seq(E) /\ Range(s) = {g, m} /\ Orderly(s)
  <2>1. /\ s \in Seq(E) /\ Len(s) = 2 /\ DOMAIN s = 1 .. 2 /\ s[1] = g /\ s[2] = m
    BY <1>0, <1>1
  <2>2. \A i \in 1 .. Len(s) : i = 1 \/ i = 2
    BY <2>1
  <2>3. 1 \in 1 .. 2 /\ 2 \in 1 .. 2
    OBVIOUS
  <2>4. Range(s) = {g, m}
    BY <2>1, <2>2, <2>3 DEF Range
  <2>5. Orderly(s)
    BY <2>1, <2>2 DEF Orderly
  <2> QED BY <2>1, <2>4, <2>5
<1>4. PICK q1 : q1 = c1 \o d1
  OBVIOUS
<1>5. PICK q2 : q2 = q1 \o v1
  OBVIOUS
<1>6. PICK q : q = q2 \o s
  OBVIOUS
<1>7. /\ q \in Seq(E) /\ Range(q) = {c, d, v, g, m} /\ Orderly(q)
  <2>1. q1 \in Seq(E) /\ Range(q1) = {c, d} /\ Orderly(q1)
    <3>1. \A x \in Range(c1), y \in Range(d1) :
            x.kind # y.kind /\ ~(x.kind = "CustodyUpdated" /\ y.kind = "AcquisitionRecorded")
      BY <1>2
    <3>2. q1 \in Seq(E) /\ Range(q1) = Range(c1) \cup Range(d1) /\ Orderly(q1)
      BY <1>2, <1>4, <3>1, Joined
    <3> QED BY <1>2, <3>2
  <2>2. q2 \in Seq(E) /\ Range(q2) = {c, d, v} /\ Orderly(q2)
    <3>1. \A x \in Range(q1), y \in Range(v1) :
            x.kind # y.kind /\ ~(x.kind = "CustodyUpdated" /\ y.kind = "AcquisitionRecorded")
      BY <1>2, <2>1
    <3>2. q1 \in Seq(E) /\ Orderly(q1) /\ v1 \in Seq(E) /\ Orderly(v1)
      BY <1>2, <2>1
    <3>3. q2 \in Seq(E) /\ Range(q2) = Range(q1) \cup Range(v1) /\ Orderly(q2)
      BY <1>5, <3>2, <3>1, Joined
    <3> QED BY <1>2, <2>1, <3>3
  <2>3. \A x \in Range(q2), y \in Range(s) :
            x.kind # y.kind /\ ~(x.kind = "CustodyUpdated" /\ y.kind = "AcquisitionRecorded")
    BY <1>3, <2>2
  <2>4. q2 \in Seq(E) /\ Orderly(q2) /\ s \in Seq(E) /\ Orderly(s)
    BY <1>3, <2>2
  <2>5. q \in Seq(E) /\ Range(q) = Range(q2) \cup Range(s) /\ Orderly(q)
    BY <1>6, <2>3, <2>4, Joined
  <2> QED BY <1>3, <2>2, <2>5
<1>8. queue' = q
  BY <1>1, <1>4, <1>5, <1>6
<1>9. Queued' /\ \A k : Waiting(k)' = {e \in Range(q) : e.kind = k}
  BY <1>7, <1>8, Sent
<1> QED BY <1>7, <1>9

\* A settlement without a bid locks the Punk, collects its target and mints the
\* Proof of it.
LEMMA UnsoldFacts ==
    ASSUME IInv, Core!IInv, ProofInv, NEW p \in Punks, SettleUnsold(p)
    PROVE  \E t \in Traits, proof \in PV!Proof :
              /\ t = sales[p].target /\ t = PC!TargetOf(p) /\ t \notin collectedMask
              /\ collectedMask' = collectedMask \cup {t}
              /\ Cardinality(collectedMask') = Cardinality(collectedMask) + 1
              /\ isLocked' = isLocked \cup {p} /\ lockedPunkCount' = lockedPunkCount + 1
              /\ proofMeta[t] = NoProof /\ proofMeta' = [proofMeta EXCEPT ![t] = proof]
              /\ proofMeta'[t] = proof /\ proof # NoProof
              /\ proofsMintedCount' = proofsMintedCount + 1
<1>1. PICK t : t = sales[p].target
  OBVIOUS
<1>2. RA!Open(p) /\ PC!MarkCustody(p, "Vaulted") /\ PV!ReceivePunk(p)
  BY DEF SettleUnsold, RA!SettleUnsold, RA!Settleable
<1>3. custody[p] = "InReturnAuction" /\ t = PC!TargetOf(p)
  BY <1>1, <1>2 DEF IInv, ContractsAgree
<1>4. pendingTraitCount[t] = 1 /\ t \in Carries[p]
  BY <1>3 DEF Core!IInv, Core!ClaimInv, Core!IndexInv, Core!InAuction, Core!TargetOf,
              Core!RowOf, PC!TargetOf, PC!RowOf
<1>5. t \in Traits
  BY <1>4, CoreAssumption DEF PC!DatasetAssumption, PC!Traits, Traits
<1>6. t \notin collectedMask
  BY <1>4, <1>5 DEF Core!IInv, Core!ClaimInv, Core!Traits, Traits
<1>7. collectedMask' = collectedMask \cup {t}
  BY <1>2, <1>3, <1>6 DEF PC!MarkCustody, PC!Collect
<1>8. Cardinality(collectedMask') = Cardinality(collectedMask) + 1
  BY <1>6, <1>7, FiniteCollection, FS_AddElement
<1>9. Cardinality(collectedMask) \in Nat
  BY FiniteCollection, FS_CardinalityType
<1>10. PV!MintProofs(p, t, PC!OriginalSellerOf(p), Cardinality(collectedMask'))
  BY <1>1, <1>6 DEF SettleUnsold
<1>11. PICK proof : proof = [punk |-> p, recipient |-> PC!OriginalSellerOf(p),
                             sequence |-> Cardinality(collectedMask')]
  OBVIOUS
<1>12. /\ PC!OriginalSellerOf(p) \in Accounts
       /\ proofMeta[t] = NoProof /\ proofMeta' = [proofMeta EXCEPT ![t] = proof]
       /\ proofsMintedCount' = proofsMintedCount + 1
  BY <1>10, <1>11, Zenon DEF PV!MintProofs
<1>13. proof \in PV!Proof
  BY <1>8, <1>9, <1>11, <1>12 DEF PV!Proof
<1>14. proofMeta'[t] = proof /\ proof # NoProof
  BY <1>5, <1>12, <1>13, NoProofAssumption DEF ProofInv, PV!TypeOK
<1>15. isLocked' = isLocked \cup {p} /\ lockedPunkCount' = lockedPunkCount + 1
  BY <1>2 DEF PV!ReceivePunk
<1> QED BY <1>1, <1>3, <1>5, <1>6, <1>7, <1>8, <1>12, <1>13, <1>14, <1>15

\* An auction that ends without a bid: the custody, the trait, the end, and the
\* Proof with its owner wait.
LEMMA UnsoldEmits ==
    ASSUME IInv, Core!IInv, AuctionsInv, ProofInv, Ahead, NEW p \in Punks,
           EmitSettleUnsold(p)
    PROVE  Ahead' /\ Queued'
<1>1. UNCHANGED tableVars /\ queue = << >> /\ SettleUnsold(p)
  BY DEF EmitSettleUnsold, Emit
<1>2. /\ RA!Open(p) /\ PC!MarkCustody(p, "Vaulted") /\ RA!Sweep
      /\ sales' = [sales EXCEPT ![p].phase = "settled"] /\ pendingRefund' = pendingRefund
      /\ UNCHANGED patronVars
  BY <1>1 DEF SettleUnsold, RA!SettleUnsold, RA!Settleable
<1>3. PICK t \in Traits, proof \in PV!Proof :
              /\ t = sales[p].target /\ t = PC!TargetOf(p) /\ t \notin collectedMask
              /\ collectedMask' = collectedMask \cup {t}
              /\ Cardinality(collectedMask') = Cardinality(collectedMask) + 1
              /\ isLocked' = isLocked \cup {p} /\ lockedPunkCount' = lockedPunkCount + 1
              /\ proofMeta[t] = NoProof /\ proofMeta' = [proofMeta EXCEPT ![t] = proof]
              /\ proofMeta'[t] = proof /\ proof # NoProof
              /\ proofsMintedCount' = proofsMintedCount + 1
  BY <1>1, UnsoldFacts
<1>4. PICK c : c = Custodied(p, "Vaulted")
  OBVIOUS
<1>5. PICK d : d = [kind |-> "TraitsCollected", count |-> 1]
  OBVIOUS
<1>6. PICK v : v = [kind |-> "PunkVaulted", punk |-> p]
  OBVIOUS
<1>7. PICK g : g = [kind |-> "Transfer", token |-> t, to |-> proof.recipient]
  OBVIOUS
<1>8. PICK m : m = [kind |-> "ProofMinted", token |-> t, proof |-> proof]
  OBVIOUS
<1>9. /\ c.kind = "CustodyUpdated" /\ c.punk = p /\ c.outcome = "Vaulted"
      /\ d.kind = "TraitsCollected" /\ d.count = 1
      /\ v.kind = "PunkVaulted" /\ v.punk = p
      /\ g.kind = "Transfer" /\ g.token = t /\ g.to = proof.recipient
      /\ m.kind = "ProofMinted" /\ m.token = t /\ m.proof = proof
  BY <1>4, <1>5, <1>6, <1>7, <1>8 DEF Custodied
<1>10. queue' = <<c>> \o <<d>> \o <<v>> \o <<g, m>>
  <2>1. MintEvents(t) = <<g, m>>
    BY <1>3, <1>7, <1>8 DEF MintEvents
  <2> QED BY <1>3, <1>4, <1>5, <1>6, <2>1 DEF EmitSettleUnsold, Emit
<1>11. /\ Queued'
       /\ Waiting("CustodyUpdated")' = {c} /\ Waiting("TraitsCollected")' = {d}
       /\ Waiting("PunkVaulted")' = {v}
       /\ Waiting("Transfer")' = {g} /\ Waiting("ProofMinted")' = {m}
       /\ \A k : k \notin {"CustodyUpdated", "TraitsCollected", "PunkVaulted",
                           "Transfer", "ProofMinted"} => Waiting(k)' = {}
  BY <1>9, <1>10, FiveEvents
<1>12. /\ \A k : Waiting(k) = {}
       /\ \A k : k \notin {"CustodyUpdated", "TraitsCollected", "PunkVaulted",
                           "Transfer", "ProofMinted"} => Silent(k)
  BY <1>1, <1>11, Quiet DEF Silent
<1>13. UNCHANGED <<acquisitionRow, history, auctionRow, trials, vaultedRow, proofRow,
                   counters>>
  BY <1>1 DEF tableVars
<1>14. PICK i : i = acquisitionIndexOf[p]
  OBVIOUS
<1>15. /\ p \notin isLocked
       /\ custody' = [custody EXCEPT ![p] = "Vaulted"] /\ custody'[p] = "Vaulted"
       /\ acquisitionIndexOf' = acquisitionIndexOf /\ attemptCount' = attemptCount
       /\ RowMarked(i, p, "Vaulted")
       /\ \A q \in isLocked : PC!TargetOf(q)' = PC!TargetOf(q)
  BY <1>2, <1>14, SettleFacts
<1>16. /\ sales'[p].phase = "settled" /\ sales[p].phase = "open"
       /\ \A q \in Punks : /\ q # p => sales'[q] = sales[q]
                           /\ sales'[q].cost = sales[q].cost
                           /\ sales'[q].reserve = sales[q].reserve
                           /\ sales'[q].left = sales[q].left
                           /\ sales'[q].high = sales[q].high
                           /\ sales'[q].bidder = sales[q].bidder
  BY <1>2, SettleFacts
<1>17. LogAhead'
  <2>1. Waiting("AcquisitionRecorded")' = {}
    BY <1>11
  <2> QED BY <1>9, <1>11, <1>12, <1>13, <1>14, <1>15, <2>1, SettleLog DEF Ahead
<1>18. AuctionAhead'
  <2>1. /\ Waiting("ReturnAuctionStarted")' = {} /\ Waiting("BidPlaced")' = {}
        /\ Waiting("Extended")' = {} /\ Waiting("ReturnAuctionCleared")' = {}
    BY <1>11
  <2> QED BY <1>9, <1>11, <1>12, <1>13, <1>15, <1>16, <2>1, SettleAuction DEF Ahead
<1>19. VaultedAhead'
  <2>1. /\ vaultedRow \in [Punks -> Traits \cup {NoTrait, NoRow}]
        /\ \A q \in Punks : IF q \in isLocked THEN vaultedRow[q] = PC!TargetOf(q)
                            ELSE vaultedRow[q] = NoRow
    BY <1>12 DEF Ahead, VaultedAhead
  <2>2. Waiting("AcquisitionRecorded")' = {}
    BY <1>11
  <2> QED BY <1>3, <1>9, <1>11, <1>13, <1>15, <2>1, <2>2 DEF VaultedAhead
<1>20. ProofsAhead'
  <2>1. /\ proofOwner \in [Traits -> Accounts \cup {NoAccount}]
        /\ proofRow \in [Traits -> ProofRow \cup {NoRow}]
        /\ \A u \in Traits :
              IF proofMeta[u] = NoProof THEN proofRow[u] = NoRow
              ELSE /\ proofRow[u] # NoRow /\ proofRow[u].meta = proofMeta[u]
                   /\ proofRow[u].owner = proofOwner[u]
    BY <1>12 DEF Ahead, ProofsAhead
  <2>2. proof.recipient \in Accounts
    BY DEF PV!Proof
  <2>3. proofOwner' = [proofOwner EXCEPT ![t] = proof.recipient]
    BY <1>3 DEF EmitSettleUnsold
  <2>4. /\ proofOwner' \in [Traits -> Accounts \cup {NoAccount}]
        /\ proofOwner'[t] = proof.recipient
        /\ \A u \in Traits : u # t => proofOwner'[u] = proofOwner[u]
    BY <2>1, <2>2, <2>3
  <2>5. \A u \in Traits : u # t => proofMeta'[u] = proofMeta[u]
    BY <1>3 DEF ProofInv, PV!TypeOK
  <2> QED BY <1>3, <1>9, <1>11, <1>13, <2>1, <2>2, <2>4, <2>5 DEF ProofsAhead
<1>21. CountersAhead'
  <2>1. /\ counters \in [{"collected", "acquisitions", "vaulted", "cleared", "proofs",
                          "inflow"} -> Int]
        /\ Cardinality(collectedMask) = counters.collected
        /\ Len(acquisitions) = counters.acquisitions
        /\ lockedPunkCount = counters.vaulted
        /\ Cardinality(ClearedRows) = counters.cleared
        /\ proofsMintedCount = counters.proofs
        /\ received["adapter"] = counters.inflow
    BY <1>12 DEF Ahead, CountersAhead, Outcomes, One
  <2>2. Cardinality(ClearedRows') = counters.cleared
    BY <1>15, <2>1, SettleCounts
  <2>3. Outcomes("Vaulted")' = {c} /\ Outcomes("ReturnedToMarket")' = {}
    BY <1>9, <1>11 DEF Outcomes
  <2>4. One(Outcomes("Vaulted"))' = 1 /\ One(Outcomes("ReturnedToMarket"))' = 0
    BY <2>3 DEF One
  <2>5. /\ One(Waiting("TraitsCollected"))' = 1 /\ One(Waiting("ProofMinted"))' = 1
        /\ One(Waiting("AcquisitionRecorded"))' = 0
    BY <1>11 DEF One
  <2>6. received'["adapter"] = received["adapter"]
    BY <1>2 DEF RA!Sweep, AuctionsInv, Auctions!MoneyTypes, Auctions!Sinks
  <2>7. Len(acquisitions') = Len(acquisitions)
    BY <1>15 DEF RowMarked
  <2>8. counters' = counters /\ received'["adapter"] = counters'.inflow
    BY <1>13, <2>1, <2>6
  <2>9. /\ Cardinality(collectedMask') = counters'.collected + One(Waiting("TraitsCollected"))'
        /\ Len(acquisitions') = counters'.acquisitions + One(Waiting("AcquisitionRecorded"))'
        /\ lockedPunkCount' = counters'.vaulted + One(Outcomes("Vaulted"))'
        /\ Cardinality(ClearedRows') = counters'.cleared + One(Outcomes("ReturnedToMarket"))'
        /\ proofsMintedCount' = counters'.proofs + One(Waiting("ProofMinted"))'
    BY <1>3, <2>1, <2>2, <2>4, <2>5, <2>7, <2>8
  <2>10. Waiting("PoolReplenished")' = {} /\ \A e \in Waiting("TraitsCollected")' : e.count = 1
    BY <1>9, <1>11
  <2> QED BY <2>1, <2>8, <2>9, <2>10 DEF CountersAhead
<1>22. RowsAgree' /\ TrialsAhead' /\ SellersAhead' /\ RefundsAhead'
  <2>1. allowedSellers' = allowedSellers
    BY <1>2 DEF patronVars
  <2> QED BY <1>1, <1>2, <1>12, <1>15, <2>1, EmitFrames
<1> QED BY <1>11, <1>17, <1>18, <1>19, <1>20, <1>21, <1>22 DEF Ahead
-----------------------------------------------------------------------------
(***************************************************************************)
(* The theorems.                                                            *)
(***************************************************************************)
\* Nothing happens: nothing changes.
LEMMA IdleKeeps ==
    ASSUME Ahead, Queued, UNCHANGED indexedVars
    PROVE  Ahead' /\ Queued'
<1>1. /\ UNCHANGED tableVars /\ queue' = queue /\ proofOwner' = proofOwner
      /\ UNCHANGED recordsVars /\ UNCHANGED auctionVars /\ UNCHANGED vaultVars
      /\ UNCHANGED patronVars
  BY DEF indexedVars, vars
<1>2. \A k : Silent(k) /\ Waiting(k)' \subseteq Waiting(k)
  BY <1>1 DEF Silent, Waiting
<1>3. UNCHANGED <<acquisitions, acquisitionIndexOf, custody, sales, attemptCount, isLocked,
                  proofMeta, collectedMask, lockedPunkCount, proofsMintedCount,
                  received, allowedSellers, pendingRefund>>
  BY <1>1 DEF recordsVars, auctionVars, vaultVars, patronVars
<1>4. \A p : PC!TargetOf(p)' = PC!TargetOf(p)
  BY <1>1, TargetsSame
<1>5. LogAhead' /\ RowsAgree' /\ AuctionAhead' /\ TrialsAhead' /\ VaultedAhead'
  BY <1>1, <1>2, <1>3, <1>4, EmitFrames
<1>6. ProofsAhead' /\ CountersAhead' /\ SellersAhead' /\ RefundsAhead'
  BY <1>1, <1>2, <1>3, EmitFrames
<1>7. Queued'
  BY <1>1 DEF Queued
<1> QED BY <1>5, <1>6, <1>7 DEF Ahead

\* Every step keeps the tables ahead of nothing but the events that wait.
LEMMA AheadNext ==
    ASSUME IInv, Core!IInv, AuctionsInv, PA!TypeOK, ProofInv, Ahead, Queued,
           [IndexedNext]_indexedVars
    PROVE  Ahead' /\ Queued'
<1>1. ASSUME NEW p \in Punks, EmitAccept(p) PROVE Ahead' /\ Queued'
  BY <1>1, AcceptEmits
<1>2. ASSUME NEW p \in Punks, EmitBid(p) PROVE Ahead' /\ Queued'
  BY <1>2, BidEmits
<1>3. ASSUME NEW p \in Punks, EmitSettle(p) PROVE Ahead' /\ Queued'
  <2>1. CASE EmitSettleUnsold(p)
    BY <2>1, UnsoldEmits
  <2>2. CASE EmitSettleCleared(p)
    BY <2>2, ClearedEmits
  <2> QED BY <1>3, <2>1, <2>2 DEF EmitSettle
<1>4. CASE EmitWithdrawal
  BY <1>4, WithdrawalKeeps
<1>5. CASE EmitAllowlist
  BY <1>5, AllowlistKeeps
<1>6. CASE Fund
  BY <1>6, FundKeeps
<1>7. ASSUME NEW t \in Traits, NEW a \in Accounts, TransferProof(t, a)
      PROVE  Ahead' /\ Queued'
  BY <1>7, TransferKeeps
<1>8. CASE Elapse
  BY <1>8, ElapseKeeps
<1>9. CASE Handle
  BY <1>9, HandleKeeps
<1>10. CASE UNCHANGED indexedVars
  BY <1>10, IdleKeeps
<1> QED BY <1>1, <1>2, <1>3, <1>4, <1>5, <1>6, <1>7, <1>8, <1>9, <1>10 DEF IndexedNext

\* At first there is nothing to show, and nothing to handle.
LEMMA AheadInit == IndexedInit => Ahead /\ Queued
<1> SUFFICES ASSUME IndexedInit PROVE Ahead /\ Queued
  OBVIOUS
<1>1. /\ queue = << >> /\ proofOwner = [t \in Traits |-> NoAccount]
      /\ acquisitionRow = [p \in Punks |-> NoRow] /\ history = << >>
      /\ auctionRow = [p \in Punks |-> NoRow] /\ trials = [t \in Traits |-> 0]
      /\ vaultedRow = [p \in Punks |-> NoRow] /\ proofRow = [t \in Traits |-> NoRow]
      /\ refunds = [a \in Accounts |-> 0] /\ activeSellers = {}
      /\ counters = [collected |-> 0, acquisitions |-> 0, vaulted |-> 0, cleared |-> 0,
                     proofs |-> 0, inflow |-> 0]
  BY DEF IndexedInit
<1>2. /\ collectedMask = {} /\ acquisitions = << >> /\ isLocked = {} /\ lockedPunkCount = 0
      /\ attemptCount = [t \in Traits |-> 0]
      /\ proofMeta = [t \in Traits |-> NoProof] /\ proofsMintedCount = 0
      /\ \A p \in Punks : sales[p].phase = "none"
      /\ pendingRefund = [a \in Accounts |-> 0] /\ received["adapter"] = 0
      /\ allowedSellers = {}
  BY SameTraits DEF IndexedInit, Init, PC!Init, RA!Init, PV!Init, PA!Init, RA!EmptySlot,
                    RA!Sinks
<1>3. \A k : Waiting(k) = {}
  BY <1>1, Quiet
<1>4. Queued
  BY <1>1, NoEvents DEF Queued
<1>5. Len(history) = 0 /\ Len(acquisitions) = 0 /\ history \in Seq(HistoryRow)
  BY <1>1, <1>2
<1>6. LogAhead
  BY <1>3, <1>5 DEF LogAhead
<1>7. RowsAgree
  BY <1>1, <1>5 DEF RowsAgree, HistoryOf
<1>8. AuctionAhead
  BY <1>1, <1>2, <1>3 DEF AuctionAhead
<1>9. TrialsAhead /\ VaultedAhead /\ SellersAhead /\ RefundsAhead
  BY <1>1, <1>2, <1>3 DEF TrialsAhead, VaultedAhead, SellersAhead, RefundsAhead
<1>10. ProofsAhead
  BY <1>1, <1>2, <1>3 DEF ProofsAhead
<1>11. CountersAhead
  <2>1. ClearedRows = {}
    BY <1>5 DEF ClearedRows
  <2>2. Cardinality(ClearedRows) = 0 /\ Cardinality(collectedMask) = 0
    BY <1>2, <2>1, FS_EmptySet
  <2> QED BY <1>1, <1>2, <1>3, <1>5, <2>2 DEF CountersAhead, One, Outcomes
<1> QED BY <1>4, <1>6, <1>7, <1>8, <1>9, <1>10, <1>11 DEF Ahead

\* A step that emits events is a transaction of the contracts; a handler, and a
\* Proof that changes hands, leave them alone.
LEMMA StepOfProtocol == [IndexedNext]_indexedVars => [Next]_vars
<1>1. ASSUME NEW p \in Punks, EmitAccept(p) \/ EmitBid(p) \/ EmitSettle(p) PROVE Next
  BY <1>1 DEF EmitAccept, EmitBid, EmitSettle, EmitSettleUnsold, EmitSettleCleared, Next,
              Settle
<1>2. EmitWithdrawal \/ EmitAllowlist \/ Fund \/ Elapse => Next
  BY DEF EmitWithdrawal, EmitAllowlist, Fund, Elapse, Next
<1>3. ASSUME NEW t \in Traits, NEW a \in Accounts, TransferProof(t, a) PROVE UNCHANGED vars
  BY <1>3 DEF TransferProof
<1>4. Handle \/ UNCHANGED indexedVars => UNCHANGED vars
  BY DEF Handle, indexedVars
<1> QED BY <1>1, <1>2, <1>3, <1>4 DEF IndexedNext

\* An indexer leaves the contracts as they are: every behaviour with one is a
\* behaviour of the acquisition cycle, so that what is proved of the cycle holds
\* of what the indexer follows.
THEOREM IndexedIsProtocol == IndexedSpec => Spec
<1>1. IndexedInit => Init
  BY DEF IndexedInit
<1> QED BY <1>1, StepOfProtocol, PTL DEF IndexedSpec, Spec

\* A Punk whose auction has begun is recorded.
StartedIsRecorded == \A p \in Punks : sales[p].phase # "none" => custody[p] # "None"

\* The two calls that start an auction also record the Punk.
LEMMA StartedNext == IInv /\ StartedIsRecorded /\ [Next]_vars => StartedIsRecorded'
<1> SUFFICES ASSUME IInv, StartedIsRecorded, [Next]_vars PROVE StartedIsRecorded'
  OBVIOUS
<1>1. ASSUME NEW p \in Punks, Accept(p) PROVE StartedIsRecorded'
  <2>1. PICK t, cost, acquirer, seller : Acquire(p, t, cost, acquirer, seller)
    BY <1>1 DEF Accept, AcceptBid, AcceptListing
  <2>2. custody' = [custody EXCEPT ![p] = "InReturnAuction"]
    BY <2>1 DEF Acquire, PC!RecordAcquisition
  <2>3. \A q \in Punks : q # p => sales'[q] = sales[q]
    BY <2>1 DEF Acquire, RA!StartSale, IInv, Shapes
  <2> QED BY <2>2, <2>3 DEF StartedIsRecorded, IInv, Shapes
<1>2. ASSUME NEW p \in Punks, PlaceBid(p) PROVE StartedIsRecorded'
  BY <1>2, BidSlots DEF StartedIsRecorded
<1>3. ASSUME NEW p \in Punks, Settle(p) PROVE StartedIsRecorded'
  <2>1. PICK outcome \in {"Vaulted", "ReturnedToMarket"} : PC!MarkCustody(p, outcome)
    BY <1>3 DEF Settle, SettleUnsold, SettleCleared
  <2>2. sales' = [sales EXCEPT ![p].phase = "settled"]
    BY <1>3 DEF Settle, SettleUnsold, SettleCleared, RA!SettleUnsold, RA!SettleCleared
  <2>3. custody' = [custody EXCEPT ![p] = outcome]
    BY <2>1 DEF PC!MarkCustody
  <2> QED BY <2>2, <2>3 DEF StartedIsRecorded, IInv, Shapes
<1>4. CASE Tick
  BY <1>4, TickSlots DEF StartedIsRecorded
<1>5. UNCHANGED <<sales, custody>> => StartedIsRecorded'
  BY DEF StartedIsRecorded
<1>6. CASE WithdrawRefund
  BY <1>5, <1>6 DEF WithdrawRefund, RA!WithdrawRefund, recordsVars
<1>7. CASE FundLiveBid \/ EditAllowlist
  BY <1>5, <1>7 DEF FundLiveBid, EditAllowlist, recordsVars, auctionVars
<1>8. CASE UNCHANGED vars
  BY <1>5, <1>8 DEF vars, recordsVars, auctionVars
<1> QED BY <1>1, <1>2, <1>3, <1>4, <1>6, <1>7, <1>8 DEF Next

\* So every slot in use belongs to a recorded Punk.
LEMMA AlwaysStarted == Spec => []StartedIsRecorded
<1>1. Init => StartedIsRecorded
  BY DEF Init, RA!Init, RA!EmptySlot, StartedIsRecorded
<1> QED BY <1>1, StartedNext, AlwaysIInv, PTL DEF Spec

\* All that is invariant of the contracts and the tables.
Followed ==
    /\ IInv /\ Core!IInv /\ AuctionsInv /\ PA!TypeOK /\ ProofInv /\ StartedIsRecorded
    /\ Ahead /\ Queued

\* It is invariant: Ahead and Queued hold at first, and every step keeps them.
LEMMA AlwaysFollowed == IndexedSpec => []Followed
<1>1. IndexedSpec => [](IInv /\ Core!IInv /\ AuctionsInv /\ PA!TypeOK /\ ProofInv
                        /\ StartedIsRecorded)
  BY IndexedIsProtocol, AlwaysIInv, AlwaysCore, AlwaysAuctions, AlwaysProofInv,
     AlwaysStarted, PTL
<1>2. /\ IInv /\ Core!IInv /\ AuctionsInv /\ PA!TypeOK /\ ProofInv /\ StartedIsRecorded
      /\ (Ahead /\ Queued) /\ [IndexedNext]_indexedVars
      => (Ahead /\ Queued)'
  BY AheadNext
<1>3. IndexedSpec => [](Ahead /\ Queued)
  BY <1>1, <1>2, AheadInit, PTL DEF IndexedSpec
<1>4. /\ IInv /\ Core!IInv /\ AuctionsInv /\ PA!TypeOK /\ ProofInv /\ StartedIsRecorded
      /\ (Ahead /\ Queued)
      => Followed
  BY DEF Followed
<1> QED BY <1>1, <1>3, <1>4, PTL

\* With an empty queue the history is the log, and the latest rows the custody.
LEMMA CaughtUpRows ==
    ASSUME Core!IInv, LogAhead, RowsAgree, queue = << >>
    PROVE  HistoryMirrorsLog /\ LatestRowsMirrorCustody
<1>1. Waiting("AcquisitionRecorded") = {} /\ Waiting("CustodyUpdated") = {}
  BY Quiet
<1>2. /\ Len(history) = Len(acquisitions) /\ DOMAIN acquisitions = 1 .. Len(history)
      /\ Len(history) \in Nat
      /\ \A i \in 1 .. Len(history) :
            LET h == history[i]
                a == acquisitions[i]
            IN  /\ h.punk = a.punk /\ h.target = a.target /\ h.acquirer = a.acquirer
                /\ h.seller = a.seller /\ h.price = a.price /\ h.custody = a.custody
  BY <1>1 DEF LogAhead, Core!IInv, Core!TypeOK
<1>3. ASSUME NEW i \in 1 .. Len(history)
      PROVE  history[i].seq = Cardinality(RowsOf(acquisitions[i].punk, i - 1))
  <2>1. history[i].seq = Cardinality({j \in 1 .. i - 1 : history[j].punk = history[i].punk})
    BY DEF RowsAgree
  <2>2. \A j \in 1 .. i - 1 : j \in 1 .. Len(history)
    BY <1>2
  <2>3. {j \in 1 .. i - 1 : history[j].punk = history[i].punk}
            = RowsOf(acquisitions[i].punk, i - 1)
    BY <1>2, <2>2 DEF RowsOf
  <2> QED BY <2>1, <2>3
<1>4. HistoryMirrorsLog
  BY <1>2, <1>3 DEF HistoryMirrorsLog
<1>5. ASSUME NEW p \in Punks
      PROVE  IF acquisitionIndexOf[p] = 0 THEN acquisitionRow[p] = NoRow
             ELSE LET r == acquisitionRow[p]
                  IN  /\ r.latest = acquisitionIndexOf[p]
                      /\ r.count = Cardinality(RowsOf(p, Len(acquisitions)))
                      /\ r.target = PC!TargetOf(p) /\ r.seller = PC!OriginalSellerOf(p)
                      /\ r.custody = custody[p]
  <2>1. HistoryOf(p) = RowsOf(p, Len(acquisitions))
    BY <1>2 DEF HistoryOf, RowsOf
  <2>2. CASE acquisitionIndexOf[p] = 0
    BY <1>1, <2>2, LatestRow
  <2>3. CASE acquisitionIndexOf[p] # 0
    <3>1. /\ acquisitionIndexOf[p] \in 1 .. Len(history)
          /\ acquisitionRow[p].latest = acquisitionIndexOf[p]
          /\ acquisitionRow[p].count = Cardinality(HistoryOf(p))
          /\ acquisitionRow[p].target = acquisitions[acquisitionIndexOf[p]].target
          /\ acquisitionRow[p].seller = acquisitions[acquisitionIndexOf[p]].seller
          /\ acquisitionRow[p].custody = history[acquisitionIndexOf[p]].custody
      BY <1>1, <2>3, LatestRow
    <3>2. acquisitions[acquisitionIndexOf[p]].custody = custody[p]
      BY <2>3 DEF Core!IInv, Core!IndexInv, Core!RowOf
    <3> QED BY <1>2, <2>1, <2>3, <3>1, <3>2 DEF PC!TargetOf, PC!OriginalSellerOf, PC!RowOf
  <2> QED BY <2>2, <2>3
<1> QED BY <1>4, <1>5 DEF LatestRowsMirrorCustody

\* And what has been collected, locked, minted and counted is in the tables.
LEMMA CaughtUpCollection ==
    ASSUME Followed, queue = << >>
    PROVE  CollectionMirrored /\ CountersMirrored /\ activeSellers = allowedSellers
<1>1. \A k : Waiting(k) = {}
  BY Quiet
<1>2. trials = attemptCount /\ activeSellers = allowedSellers
  BY <1>1 DEF Followed, Ahead, TrialsAhead, SellersAhead
<1>3. ASSUME NEW t \in Traits
      PROVE  IF proofMeta[t] = NoProof THEN proofRow[t] = NoRow
             ELSE proofRow[t] = [meta |-> proofMeta[t], owner |-> proofOwner[t]]
  <2>1. /\ proofRow[t] \in ProofRow \cup {NoRow}
        /\ IF proofMeta[t] = NoProof THEN proofRow[t] = NoRow
           ELSE /\ proofRow[t] # NoRow /\ proofRow[t].meta = proofMeta[t]
                /\ proofRow[t].owner = proofOwner[t]
    BY <1>1 DEF Followed, Ahead, ProofsAhead
  <2> QED BY <2>1 DEF ProofRow
<1>4. ASSUME NEW p \in Punks
      PROVE  IF p \in isLocked THEN firstVaulted[vaultedRow[p]] = p ELSE vaultedRow[p] = NoRow
  <2>1. IF p \in isLocked THEN vaultedRow[p] = PC!TargetOf(p) ELSE vaultedRow[p] = NoRow
    BY <1>1 DEF Followed, Ahead, VaultedAhead
  <2>2. p \in isLocked => custody[p] = "Vaulted"
    BY DEF Followed, IInv, ContractsAgree
  <2>3. custody[p] = "Vaulted" => firstVaulted[PC!TargetOf(p)] = p
    BY DEF Followed, Core!IInv, Core!VaultInv, Core!Vaulted, Core!TargetOf, Core!RowOf,
           PC!TargetOf, PC!RowOf
  <2> QED BY <2>1, <2>2, <2>3
<1>5. CollectionMirrored
  BY <1>2, <1>3, <1>4 DEF CollectionMirrored
<1>6. CountersMirrored
  <2>1. /\ counters \in [{"collected", "acquisitions", "vaulted", "cleared", "proofs",
                          "inflow"} -> Int]
        /\ Cardinality(collectedMask) = counters.collected + 0
        /\ Len(acquisitions) = counters.acquisitions + 0
        /\ lockedPunkCount = counters.vaulted + 0
        /\ Cardinality(ClearedRows) = counters.cleared + 0
        /\ proofsMintedCount = counters.proofs + 0
        /\ received["adapter"] = counters.inflow
    BY <1>1 DEF Followed, Ahead, CountersAhead, Outcomes, One
  <2>2. ClearedRows = {i \in DOMAIN acquisitions :
                          acquisitions[i].custody = "ReturnedToMarket"}
    BY DEF ClearedRows, Followed, IInv, Shapes
  <2> QED BY <2>1, <2>2 DEF CountersMirrored
<1> QED BY <1>2, <1>5, <1>6

\* Whenever the indexer has caught up, its tables about Punks, traits and Proofs
\* say what the contracts say, for any number of acquisitions of a Punk and in
\* whatever order they, the settlements and the transfers of Proofs come
\* (indexer/src/index.ts:165-596).
THEOREM RecordsMirrored == IndexedSpec => []TablesMirrorRecords
<1>1. Followed => TablesMirrorRecords
  BY CaughtUpRows, CaughtUpCollection DEF Followed, Ahead, TablesMirrorRecords
<1> QED BY <1>1, AlwaysFollowed, PTL

\* The same of the auctions and the refunds: a row of a re-opened auction keeps
\* nothing of the one before, and no event overtakes another.
THEOREM AuctionsMirrored == IndexedSpec => []TablesMirrorAuctions
<1>1. ASSUME Followed, queue = << >>, NEW p \in Punks
      PROVE  LET r == auctionRow[p]
                 s == sales[p]
             IN  IF s.phase = "none" THEN r = NoRow
                 ELSE /\ r.cost = s.cost /\ r.reserve = s.reserve /\ r.left = s.left
                      /\ r.high = s.high /\ r.bidder = s.bidder
                      /\ r.outcome = CASE custody[p] = "InReturnAuction" -> "none"
                                       [] custody[p] = "Vaulted" -> "Vaulted"
                                       [] custody[p] = "ReturnedToMarket" -> "Cleared"
  <2>1. \A k : Waiting(k) = {}
    BY <1>1, Quiet
  <2>2. IF sales[p].phase = "none" THEN auctionRow[p] = NoRow
        ELSE LET r == auctionRow[p]
                 s == sales[p]
             IN  /\ r.cost = s.cost /\ r.reserve = s.reserve /\ r.left = s.left
                 /\ r.high = s.high /\ r.bidder = s.bidder /\ r.outcome = Outcome(p)
    BY <1>1, <2>1 DEF Followed, Ahead, AuctionAhead
  <2>3. sales[p].phase # "none" => custody[p] \in PC!Custody \ {"None"}
    BY <1>1 DEF Followed, StartedIsRecorded, IInv, Shapes
  <2>4. sales[p].phase # "none" =>
            Outcome(p) = CASE custody[p] = "InReturnAuction" -> "none"
                           [] custody[p] = "Vaulted" -> "Vaulted"
                           [] custody[p] = "ReturnedToMarket" -> "Cleared"
    BY <2>3 DEF Outcome, PC!Custody
  <2> QED BY <2>2, <2>4
<1>2. ASSUME Followed, queue = << >> PROVE refunds = pendingRefund
  BY <1>2, Quiet DEF Followed, Ahead, RefundsAhead
<1>3. Followed => TablesMirrorAuctions
  BY <1>1, <1>2 DEF TablesMirrorAuctions
<1> QED BY <1>3, AlwaysFollowed, PTL
=============================================================================
