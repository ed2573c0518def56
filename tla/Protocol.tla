------------------------------ MODULE Protocol ------------------------------
(***************************************************************************)
(* The acquisition cycle, composed of its four contracts:                   *)
(*                                                                          *)
(*   Patron buys a Punk, hands it to ReturnAuctionModule, which opens its   *)
(*   auction, and records it in PermanentCollection; the settlement of the  *)
(*   auction either delivers the Punk to the winner or locks it in          *)
(*   PunkVault, collects its target trait and mints the Proof.              *)
(*                                                                          *)
(* A transaction that calls several contracts is the conjunction of their   *)
(* operations: when one of them reverts, the whole transaction does.        *)
(*                                                                          *)
(* Punks are listed on the CryptoPunks market, which is external: at any    *)
(* time the owner of a Punk may have listed it, publicly or to Patron       *)
(* alone, at any of Prices.                                                 *)
(***************************************************************************)
EXTENDS Integers, Sequences, FiniteSets, Functions

CONSTANTS
    Punks, TraitCount, Carries, CarrierCount, SolePunk, SoleTrait,
    Accounts, NoAccount, NoPunk, NoProof, Module, Vault,
    Prices,                 \* listing prices that occur
    Bids,                   \* bid values that occur
    Referrers,              \* referrers that bids may name
    Wallet,                 \* the ETH every account starts with
    Duration, Extension, Window,
    MinBidForListing, FinderFeeFixedCap, AllowlistDelay,
    AllowlistCandidates,    \* sellers the admin considers
    Inflows,                \* amounts the adapter delivers at a time
    MaxLiveBid,             \* bound on the live bid (model checking only)
    MaxAcquisitions         \* bound on the log (model checking only)

Traits == 0 .. TraitCount - 1

VARIABLES
    collectedMask, pendingTraitCount, attemptCount, acquisitions,
    acquisitionIndexOf, custody, firstVaulted,
    sales, pendingRefund, referrerOfHighBid, punkOwner, eth, wallet, received,
    isLocked, lockedPunkCount, proofMeta, proofsMintedCount,
    accountedLiveBidWei, patronEth, allowedSellers, activeIn

PC == INSTANCE PermanentCollection
RA == INSTANCE ReturnAuction WITH Costs <- Prices, MaxAttempts <- MaxAcquisitions
PV == INSTANCE PunkVault
PA == INSTANCE Patron

recordsVars == <<collectedMask, pendingTraitCount, attemptCount, acquisitions,
                 acquisitionIndexOf, custody, firstVaulted>>
auctionVars == <<sales, pendingRefund, referrerOfHighBid, punkOwner, eth, wallet, received>>
vaultVars == <<isLocked, lockedPunkCount, proofMeta, proofsMintedCount>>
allowlistVars == <<allowedSellers, activeIn>>
patronVars == <<accountedLiveBidWei, patronEth, allowedSellers, activeIn>>

vars == <<recordsVars, auctionVars, vaultVars, patronVars>>

\* What the records core and the auctions assume of the dataset and of time.
ASSUME CoreAssumption == PC!DatasetAssumption /\ PC!SoleCarrierAssumption
ASSUME AuctionAssumption == RA!AuctionAssumption
ASSUME FiniteAssumption == IsFiniteSet(Punks) /\ IsFiniteSet(Accounts)

ASSUME ProtocolAssumption ==
    /\ Prices \subseteq Nat
    /\ Inflows \subseteq Nat
    /\ MinBidForListing \in Nat /\ FinderFeeFixedCap \in Nat /\ AllowlistDelay \in Nat
    /\ AllowlistCandidates \subseteq Accounts
    /\ Referrers \subseteq Accounts
    /\ Bids \subseteq Nat
    /\ Duration \in Nat /\ Extension \in Nat /\ Window \in Nat

ASSUME AddressAssumption ==
    /\ {NoAccount, Module, Vault} \cap Accounts = {}
    /\ Module # Vault /\ Module # NoAccount /\ Vault # NoAccount

\* The Proof that is not minted is none of the Proofs.
ASSUME NoProofAssumption == NoProof \notin PV!Proof

TypeOK == PC!TypeOK /\ RA!TypeOK /\ PV!TypeOK /\ PA!TypeOK

Init == PC!Init /\ RA!Init /\ PV!Init /\ PA!Init

-----------------------------------------------------------------------------
\* Patron's early mirror of the checks of the records core.
ValidateTarget(p, t) ==
    /\ t \in Carries[p]
    /\ t \notin collectedMask
    /\ p = SolePunk /\ SoleTrait \notin collectedMask => t = SoleTrait
    /\ pendingTraitCount[t] = 0
    /\ PC!IsCanonicalTarget(p, t)

CheckCustody(p) == custody[p] \notin {"InReturnAuction", "Vaulted"}

\* Mutant: the acquisition is recorded first, and its reserve counts it twice.
Acquire_RecordsFirst(p, t, cost, acquirer, seller) ==
    /\ punkOwner' = [punkOwner EXCEPT ![p] = Module]
    /\ PC!RecordAcquisition(p, t, acquirer, seller, cost)
    /\ RA!StartSale(p, cost, t, attemptCount[t] + 1)
    /\ UNCHANGED vaultVars

\* The tail both entry points share: buy, hand over, open the auction, record.
\* The auction is opened first, so its reserve sees the attempts before this one.
Acquire(p, t, cost, acquirer, seller) ==
    /\ punkOwner' = [punkOwner EXCEPT ![p] = Module]
    /\ RA!StartSale(p, cost, t, attemptCount[t])
    /\ PC!RecordAcquisition(p, t, acquirer, seller, cost)
    /\ UNCHANGED vaultVars

\* acceptBid: the owner has listed the Punk to Patron alone, at price.  Anyone
\* may call; the owner is paid and is both acquirer and original seller.
AcceptBid(p, t, price, expected) ==
    LET seller == punkOwner[p]
    IN  /\ seller \in Accounts
        /\ PA!BidChecks(price, expected)
        /\ ValidateTarget(p, t)
        /\ CheckCustody(p)
        /\ PA!PayOut(price)
        /\ Acquire(p, t, price, seller, seller)
        /\ wallet' = [wallet EXCEPT ![seller] = @ + price]
        /\ UNCHANGED allowlistVars

\* acceptListing: an allowed seller has listed the Punk publicly at price.  The
\* caller is the acquirer and earns the finder fee.
AcceptListing(p, t, price, caller) ==
    LET seller == punkOwner[p]
    IN  /\ seller \in Accounts
        /\ PA!ListingChecks(price, seller)
        /\ ValidateTarget(p, t)
        /\ CheckCustody(p)
        /\ PA!PayOut(price + PA!FinderFee)
        /\ Acquire(p, t, price, caller, seller)
        /\ wallet' = [[wallet EXCEPT ![seller] = @ + price]
                              EXCEPT ![caller] = @ + PA!FinderFee]
        /\ UNCHANGED allowlistVars

PlaceBid(p) ==
    /\ \E a \in Accounts, value \in Bids, referrer \in Referrers \cup {NoAccount},
          pushed \in BOOLEAN : RA!PlaceBid(p, a, value, referrer, pushed)
    /\ UNCHANGED <<recordsVars, vaultVars, patronVars>>

WithdrawRefund ==
    /\ \E a \in Accounts : RA!WithdrawRefund(a)
    /\ UNCHANGED <<recordsVars, vaultVars, patronVars>>

\* The vault branch of settle mints the Proof of a trait that this settlement
\* collects, to the seller recorded at acquisition; a failed mint reverts it.
SettleUnsold(p) ==
    LET t == sales[p].target
    IN  /\ RA!SettleUnsold(p)
        /\ punkOwner'[p] = Vault /\ PV!ReceivePunk(p)
        /\ PC!MarkCustody(p, "Vaulted")
        /\ IF t \notin collectedMask
           THEN PV!MintProofs(p, t, PC!OriginalSellerOf(p), Cardinality(collectedMask'))
           ELSE PV!NoMint
        /\ UNCHANGED patronVars

\* Mutants: a failing markCustody is swallowed; the custody is marked here, and
\* the claim on the target is not given back.
SettleCleared_Swallowed(p) ==
    /\ \E accepted \in BOOLEAN : RA!SettleCleared(p, accepted)
    /\ UNCHANGED <<recordsVars, vaultVars, patronVars>>
SettleCleared_KeepsClaim(p) ==
    /\ \E accepted \in BOOLEAN : RA!SettleCleared(p, accepted)
    /\ custody' = [custody EXCEPT ![p] = "ReturnedToMarket"]
    /\ UNCHANGED <<collectedMask, pendingTraitCount, attemptCount, acquisitions,
                   acquisitionIndexOf, firstVaulted, vaultVars, patronVars>>

SettleCleared(p) ==
    /\ \E accepted \in BOOLEAN : RA!SettleCleared(p, accepted)
    /\ PC!MarkCustody(p, "ReturnedToMarket")
    /\ UNCHANGED <<vaultVars, patronVars>>

Settle(p) == SettleUnsold(p) \/ SettleCleared(p)

\* The adapter's metered inflow into the live bid.
FundLiveBid ==
    /\ \E value \in Inflows :
          /\ accountedLiveBidWei + value <= MaxLiveBid
          /\ PA!Receive(value)
    /\ UNCHANGED <<recordsVars, auctionVars, vaultVars, allowlistVars>>

EditAllowlist ==
    /\ \E a \in AllowlistCandidates : PA!AddAllowedSeller(a) \/ PA!RemoveAllowedSeller(a)
    /\ UNCHANGED <<recordsVars, auctionVars, vaultVars>>

Tick ==
    /\ (\E p \in Punks : sales[p].left > 0) \/ (\E a \in Accounts : activeIn[a] > 0)
    /\ RA!Elapse
    /\ PA!Elapse
    /\ UNCHANGED <<recordsVars, vaultVars>>

Accept(p) ==
    /\ Len(acquisitions) < MaxAcquisitions
    /\ \E t \in Traits, price \in Prices :
          \/ \E expected \in Prices : AcceptBid(p, t, price, expected)
          \/ \E caller \in Accounts : AcceptListing(p, t, price, caller)

Next ==
    \/ \E p \in Punks : Accept(p) \/ PlaceBid(p) \/ Settle(p)
    \/ WithdrawRefund
    \/ FundLiveBid
    \/ EditAllowlist
    \/ Tick

Spec == Init /\ [][Next]_vars

\* Time passes, and somebody settles an auction that is over: settle is open to
\* everyone and pays off for the winner, or for the recipient of the Proof.
FairSpec == Spec /\ WF_vars(Tick) /\ \A p \in Punks : WF_vars(Settle(p))

-----------------------------------------------------------------------------
(***************************************************************************)
(* Properties.                                                              *)
(***************************************************************************)
\* The four contracts agree about every Punk: it is in auction for the records
\* core exactly when its sale is open, the module owns it, and sale and log
\* name the same target and cost; it is vaulted exactly when the vault owns it
\* and has locked it.
ContractsAgree ==
    \A p \in Punks :
        /\ custody[p] = "InReturnAuction" <=> RA!Open(p)
        /\ RA!Open(p) <=> punkOwner[p] = Module
        /\ RA!Open(p) => /\ sales[p].target = PC!TargetOf(p)
                         /\ sales[p].cost = PC!RowOf(p).price
        /\ custody[p] = "Vaulted" <=> punkOwner[p] = Vault
        /\ custody[p] = "Vaulted" <=> p \in isLocked

\* A trait is collected exactly when its Proof exists, and the Proof names the
\* Punk that was locked for it and the seller who gave it up, not the finder.
\* Proofs are numbered 1, 2, 3, ... as the traits are collected.
ProofPerCollectedTrait ==
    /\ \A t \in Traits :
          IF t \in collectedMask
          THEN LET p == firstVaulted[t]
               IN  /\ proofMeta[t] # NoProof
                   /\ proofMeta[t].punk = p /\ p \in isLocked
                   /\ proofMeta[t].recipient = PC!RowOf(p).seller
          ELSE proofMeta[t] = NoProof
    /\ proofsMintedCount = Cardinality(collectedMask)
    /\ lockedPunkCount = proofsMintedCount
    /\ {proofMeta[t].sequence : t \in collectedMask} = 1 .. proofsMintedCount

\* An open auction asks for the premium of all the attempts at its target made
\* so far, this one included: cost * (100 + attempts) / 100, rounded up.
ReserveCountsAttempts ==
    \A p \in Punks : RA!Open(p) =>
        /\ 100 * sales[p].reserve >= sales[p].cost * (100 + attemptCount[sales[p].target])
        /\ 100 * (sales[p].reserve - 1) < sales[p].cost * (100 + attemptCount[sales[p].target])

\* The composed system drives the records core as its specification says.
RecordsCore == PC!Spec

\* Every acquisition reaches a terminal settlement (MISSION_PROPERTIES.md R6),
\* and so its target is never pending for ever.
EveryAcquisitionSettles ==
    \A p \in Punks : custody[p] = "InReturnAuction" ~> custody[p] # "InReturnAuction"
=============================================================================
