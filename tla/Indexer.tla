------------------------------ MODULE Indexer ------------------------------
(***************************************************************************)
(* The indexer (indexer/src/index.ts) behind the acquisition cycle.  Every  *)
(* transaction of Protocol appends its events, in the order the contracts   *)
(* emit them, to a queue; the indexer handles them one by one.  A handler   *)
(* reads the event and its own tables, never the chain, so what it writes   *)
(* depends on the order of the events and on the rows of earlier ones.      *)
(*                                                                          *)
(* Events that only add a row to an activity table which nothing reads back *)
(* (BidAccepted, ListingAccepted, TraitsPending, the bid and transfer logs) *)
(* are left out.  Refund rows are kept as what they add up to.  The Title   *)
(* auction's tables are in TitleIndexer.  The next transaction is made, and  *)
(* time passes, when the queue is empty: an indexer that lags further behind *)
(* handles the same events in the same order, and writes the same rows.      *)
(***************************************************************************)
EXTENDS Protocol

CONSTANTS
    NoRow,      \* stands for a row that is not there
    NoTrait     \* a target not known yet, -1 in the code

VARIABLES
    queue,          \* events not handled yet
    proofOwner,     \* the owners of the minted Proofs (ERC-721)
    acquisitionRow, \* table acquisition: the latest one of each Punk
    history,        \* table acquisitionHistory
    auctionRow,     \* table returnAuction
    trials,         \* table traitTrial
    vaultedRow,     \* table vaultedPunk: the trait it was locked for
    proofRow,       \* table proof
    refunds,        \* table refund: Queued minus Withdrawn
    activeSellers,  \* table allowlistEntry
    counters        \* table protocolCounter

\* The rows of the tables.
HistoryRow == [punk : Punks, seq : Nat, target : Traits, acquirer : Accounts,
               seller : Accounts, price : Prices, custody : PC!Custody]
AcquisitionRow == [target : Traits, acquirer : Accounts, seller : Accounts, price : Prices,
                   custody : PC!Custody, count : Nat, latest : Nat]
AuctionRow == [target : Traits \cup {NoTrait}, cost : Nat, reserve : Nat, left : Nat,
               high : Nat, bidder : Accounts \cup {NoAccount}, extensions : Nat,
               outcome : {"none", "Cleared", "Vaulted"}]
ProofRow == [meta : PV!Proof, owner : Accounts]

\* A row that is not there is none of the rows.
ASSUME RowAssumption == NoRow \notin AcquisitionRow \cup AuctionRow \cup ProofRow

tableVars == <<acquisitionRow, history, auctionRow, trials, vaultedRow, proofRow,
               refunds, activeSellers, counters>>
indexedVars == <<vars, queue, proofOwner, tableVars>>

IndexedInit ==
    /\ Init
    /\ queue = << >>
    /\ proofOwner = [t \in Traits |-> NoAccount]
    /\ acquisitionRow = [p \in Punks |-> NoRow]
    /\ history = << >>
    /\ auctionRow = [p \in Punks |-> NoRow]
    /\ trials = [t \in Traits |-> 0]
    /\ vaultedRow = [p \in Punks |-> NoRow]
    /\ proofRow = [t \in Traits |-> NoRow]
    /\ refunds = [a \in Accounts |-> 0]
    /\ activeSellers = {}
    /\ counters = [collected |-> 0, acquisitions |-> 0, vaulted |-> 0, cleared |-> 0,
                   proofs |-> 0, inflow |-> 0]

-----------------------------------------------------------------------------
(***************************************************************************)
(* The transactions, with the events they emit.                             *)
(***************************************************************************)
Emit(events) ==
    /\ queue = << >>
    /\ queue' = events
    /\ UNCHANGED tableVars

Custodied(p, outcome) == [kind |-> "CustodyUpdated", punk |-> p, outcome |-> outcome]

\* startSale comes before recordAcquisition.
AcquisitionEvents(p) ==
    <<[kind |-> "ReturnAuctionStarted", punk |-> p, sale |-> sales'[p]],
      [kind |-> "AcquisitionRecorded", punk |-> p, row |-> acquisitions'[Len(acquisitions')]],
      Custodied(p, "InReturnAuction")>>

EmitAccept(p) ==
    /\ Accept(p)
    /\ Emit(AcquisitionEvents(p))
    /\ UNCHANGED proofOwner

\* Whether the refund of the bidder before had to be queued shows in the events.
EmitBid(p) ==
    /\ PlaceBid(p)
    /\ Emit((IF sales[p].left < Window
             THEN <<[kind |-> "Extended", punk |-> p, left |-> sales'[p].left]>> ELSE << >>)
            \o (IF pendingRefund' # pendingRefund
                THEN <<[kind |-> "RefundQueued", who |-> sales[p].bidder,
                        value |-> sales[p].high]>> ELSE << >>)
            \o <<[kind |-> "BidPlaced", punk |-> p, who |-> sales'[p].bidder,
                  value |-> sales'[p].high, left |-> sales'[p].left]>>)
    /\ UNCHANGED proofOwner

\* The mint emits its Transfer before ProofMinted.
MintEvents(t) ==
    IF proofMeta'[t] = proofMeta[t] THEN << >>
    ELSE <<[kind |-> "Transfer", token |-> t, to |-> proofMeta'[t].recipient],
           [kind |-> "ProofMinted", token |-> t, proof |-> proofMeta'[t]]>>

EmitSettleUnsold(p) ==
    LET t == sales[p].target
    IN  /\ SettleUnsold(p)
        /\ Emit(<<Custodied(p, "Vaulted")>>
                \o (IF t \in collectedMask THEN << >>
                    ELSE <<[kind |-> "TraitsCollected", count |-> 1]>>)
                \o <<[kind |-> "PunkVaulted", punk |-> p]>>
                \o MintEvents(t))
        /\ proofOwner' = IF proofMeta'[t] = proofMeta[t] THEN proofOwner
                         ELSE [proofOwner EXCEPT ![t] = proofMeta'[t].recipient]

EmitSettleCleared(p) ==
    /\ SettleCleared(p)
    /\ Emit(<<[kind |-> "PoolReplenished",
               value |-> received'["adapter"] - received["adapter"]],
              Custodied(p, "ReturnedToMarket"),
              [kind |-> "ReturnAuctionCleared", punk |-> p]>>)
    /\ UNCHANGED proofOwner

EmitSettle(p) == EmitSettleUnsold(p) \/ EmitSettleCleared(p)

EmitWithdrawal ==
    /\ WithdrawRefund
    /\ LET a == CHOOSE b \in Accounts : pendingRefund'[b] # pendingRefund[b]
       IN  Emit(<<[kind |-> "RefundWithdrawn", who |-> a, value |-> pendingRefund[a]]>>)
    /\ UNCHANGED proofOwner

EmitAllowlist ==
    /\ EditAllowlist
    /\ Emit(<<[kind |-> "AllowedSellers", added |-> allowedSellers' \ allowedSellers,
               removed |-> allowedSellers \ allowedSellers']>>)
    /\ UNCHANGED proofOwner

\* The owner of a Proof gives it away.
TransferProof(t, to) ==
    /\ proofOwner[t] # NoAccount /\ to # proofOwner[t]
    /\ proofOwner' = [proofOwner EXCEPT ![t] = to]
    /\ Emit(<<[kind |-> "Transfer", token |-> t, to |-> to]>>)
    /\ UNCHANGED vars

Fund ==
    /\ queue = << >>
    /\ FundLiveBid
    /\ UNCHANGED <<queue, proofOwner, tableVars>>

ElapsedRow(row) ==
    IF row = NoRow THEN NoRow ELSE [row EXCEPT !.left = IF @ > 0 THEN @ - 1 ELSE 0]

Elapse ==
    /\ queue = << >>
    /\ Tick
    /\ auctionRow' = [p \in Punks |-> ElapsedRow(auctionRow[p])]
    /\ UNCHANGED <<queue, proofOwner, acquisitionRow, history, trials, vaultedRow,
                   proofRow, refunds, activeSellers, counters>>

-----------------------------------------------------------------------------
(***************************************************************************)
(* The handlers.                                                            *)
(***************************************************************************)
\* Mutant: the row of a re-acquired Punk keeps pointing to its first history row.
UpsertAcquisition_OldLatest(row, r, index) ==
    IF row = NoRow THEN [r EXCEPT !.latest = index, !.count = 1]
    ELSE [r EXCEPT !.latest = row.latest, !.count = row.count + 1]

\* Latest wins: the row is overwritten, its count and its history index move on.
UpsertAcquisition(row, r, index) ==
    [r EXCEPT !.latest = index, !.count = IF row = NoRow THEN 1 ELSE row.count + 1]

PreviousCount(row) == IF row = NoRow THEN 0 ELSE row.count

\* The auction row was made before the target was known, and is patched; but
\* only where it says NoTrait.
PatchTarget(p, t) ==
    auctionRow' =
        IF auctionRow[p] # NoRow /\ auctionRow[p].target = NoTrait
        THEN [auctionRow EXCEPT ![p].target = t] ELSE auctionRow

OnAcquisitionRecorded(e) ==
    /\ e.kind = "AcquisitionRecorded"
    /\ LET p == e.punk
           a == e.row
           r == [target |-> a.target, acquirer |-> a.acquirer, seller |-> a.seller,
                 price |-> a.price, custody |-> "InReturnAuction", count |-> 0, latest |-> 0]
       IN  /\ history' = Append(history,
                [punk |-> p, seq |-> PreviousCount(acquisitionRow[p]),
                 target |-> a.target, acquirer |-> a.acquirer, seller |-> a.seller,
                 price |-> a.price, custody |-> "InReturnAuction"])
           /\ acquisitionRow' = [acquisitionRow EXCEPT
                ![p] = UpsertAcquisition(acquisitionRow[p], r, Len(history'))]
           /\ PatchTarget(p, a.target)
           /\ trials' = [trials EXCEPT ![a.target] = @ + 1]
    /\ counters' = [counters EXCEPT !.acquisitions = @ + 1]
    /\ UNCHANGED <<vaultedRow, proofRow, refunds, activeSellers>>

\* The acquisition row and the history row it points to get the outcome.
OnCustodyUpdated(e) ==
    /\ e.kind = "CustodyUpdated"
    /\ acquisitionRow' = [acquisitionRow EXCEPT ![e.punk].custody = e.outcome]
    /\ history' = [history EXCEPT ![acquisitionRow[e.punk].latest].custody = e.outcome]
    /\ counters' = CASE e.outcome = "Vaulted" -> [counters EXCEPT !.vaulted = @ + 1]
                     [] e.outcome = "ReturnedToMarket" -> [counters EXCEPT !.cleared = @ + 1]
                     [] OTHER -> counters
    /\ UNCHANGED <<auctionRow, trials, vaultedRow, proofRow, refunds, activeSellers>>

OnTraitsCollected(e) ==
    /\ e.kind = "TraitsCollected"
    /\ counters' = [counters EXCEPT !.collected = @ + e.count]
    /\ UNCHANGED <<acquisitionRow, history, auctionRow, trials, vaultedRow, proofRow,
                   refunds, activeSellers>>

\* Mutant: the row of an earlier auction keeps its bid.
StartData_KeepsBid(p, sale, target) ==
    [target |-> target, cost |-> sale.cost, reserve |-> sale.reserve, left |-> sale.left,
     high |-> IF auctionRow[p] = NoRow THEN 0 ELSE auctionRow[p].high,
     bidder |-> IF auctionRow[p] = NoRow THEN NoAccount ELSE auctionRow[p].bidder,
     extensions |-> 0, outcome |-> "none"]

StartData(p, sale, target) ==
    [target |-> target, cost |-> sale.cost, reserve |-> sale.reserve, left |-> sale.left,
     high |-> 0, bidder |-> NoAccount, extensions |-> 0, outcome |-> "none"]

\* The target is taken from the acquisition row: none on the first auction of a
\* Punk, and on a later one the one before.
OnReturnAuctionStarted(e) ==
    /\ e.kind = "ReturnAuctionStarted"
    /\ LET known == acquisitionRow[e.punk]
           target == IF known = NoRow THEN NoTrait ELSE known.target
       IN  auctionRow' = [auctionRow EXCEPT ![e.punk] = StartData(e.punk, e.sale, target)]
    /\ UNCHANGED <<acquisitionRow, history, trials, vaultedRow, proofRow, refunds,
                   activeSellers, counters>>

OnBidPlaced(e) ==
    /\ e.kind = "BidPlaced"
    /\ LET extended == e.left > auctionRow[e.punk].left
       IN  auctionRow' = [auctionRow EXCEPT
                ![e.punk].high = e.value, ![e.punk].bidder = e.who, ![e.punk].left = e.left,
                ![e.punk].extensions = IF extended THEN @ + 1 ELSE @]
    /\ UNCHANGED <<acquisitionRow, history, trials, vaultedRow, proofRow, refunds,
                   activeSellers, counters>>

OnReturnAuctionExtended(e) ==
    /\ e.kind = "Extended"
    /\ auctionRow' = [auctionRow EXCEPT ![e.punk].left = e.left]
    /\ UNCHANGED <<acquisitionRow, history, trials, vaultedRow, proofRow, refunds,
                   activeSellers, counters>>

OnReturnAuctionCleared(e) ==
    /\ e.kind = "ReturnAuctionCleared"
    /\ auctionRow' = [auctionRow EXCEPT ![e.punk].outcome = "Cleared"]
    /\ UNCHANGED <<acquisitionRow, history, trials, vaultedRow, proofRow, refunds,
                   activeSellers, counters>>

OnPunkVaulted(e) ==
    /\ e.kind = "PunkVaulted"
    /\ auctionRow' = [auctionRow EXCEPT ![e.punk].outcome = "Vaulted"]
    /\ vaultedRow' = [vaultedRow EXCEPT ![e.punk] =
            IF acquisitionRow[e.punk] = NoRow THEN NoTrait ELSE acquisitionRow[e.punk].target]
    /\ UNCHANGED <<acquisitionRow, history, trials, proofRow, refunds, activeSellers,
                   counters>>

OnRefund(e) ==
    /\ e.kind \in {"RefundQueued", "RefundWithdrawn"}
    /\ refunds' = [refunds EXCEPT
            ![e.who] = IF e.kind = "RefundQueued" THEN @ + e.value ELSE @ - e.value]
    /\ UNCHANGED <<acquisitionRow, history, auctionRow, trials, vaultedRow, proofRow,
                   activeSellers, counters>>

OnProofMinted(e) ==
    /\ e.kind = "ProofMinted"
    /\ proofRow' = [proofRow EXCEPT ![e.token] = [meta |-> e.proof, owner |-> e.proof.recipient]]
    /\ counters' = [counters EXCEPT !.proofs = @ + 1]
    /\ UNCHANGED <<acquisitionRow, history, auctionRow, trials, vaultedRow, refunds,
                   activeSellers>>

\* A Transfer that comes before the row is there (the mint) is passed over.
OnTransfer(e) ==
    /\ e.kind = "Transfer"
    /\ proofRow' = IF proofRow[e.token] = NoRow THEN proofRow
                   ELSE [proofRow EXCEPT ![e.token].owner = e.to]
    /\ UNCHANGED <<acquisitionRow, history, auctionRow, trials, vaultedRow, refunds,
                   activeSellers, counters>>

OnPoolReplenished(e) ==
    /\ e.kind = "PoolReplenished"
    /\ counters' = [counters EXCEPT !.inflow = @ + e.value]
    /\ UNCHANGED <<acquisitionRow, history, auctionRow, trials, vaultedRow, proofRow,
                   refunds, activeSellers>>

OnAllowedSellers(e) ==
    /\ e.kind = "AllowedSellers"
    /\ activeSellers' = (activeSellers \cup e.added) \ e.removed
    /\ UNCHANGED <<acquisitionRow, history, auctionRow, trials, vaultedRow, proofRow,
                   refunds, counters>>

Handle ==
    /\ queue # << >>
    /\ queue' = Tail(queue)
    /\ LET e == Head(queue)
       IN  \/ OnAcquisitionRecorded(e) \/ OnCustodyUpdated(e) \/ OnTraitsCollected(e)
           \/ OnReturnAuctionStarted(e) \/ OnBidPlaced(e) \/ OnReturnAuctionExtended(e)
           \/ OnReturnAuctionCleared(e) \/ OnPunkVaulted(e) \/ OnRefund(e)
           \/ OnProofMinted(e) \/ OnTransfer(e) \/ OnPoolReplenished(e)
           \/ OnAllowedSellers(e)
    /\ UNCHANGED <<vars, proofOwner>>

IndexedNext ==
    \/ \E p \in Punks : EmitAccept(p) \/ EmitBid(p) \/ EmitSettle(p)
    \/ EmitWithdrawal \/ EmitAllowlist \/ Fund
    \/ \E t \in Traits, a \in Accounts : TransferProof(t, a)
    \/ Elapse
    \/ Handle

\* As FairSpec of Protocol, with an indexer that handles what it is sent.  Time
\* and settlers do not wait for the indexer; as the model makes them wait for
\* the queue to be empty, their fairness is strong.
IndexedSpec ==
    /\ IndexedInit /\ [][IndexedNext]_indexedVars
    /\ SF_indexedVars(Elapse) /\ WF_indexedVars(Handle)
    /\ \A p \in Punks : SF_indexedVars(EmitSettle(p))

-----------------------------------------------------------------------------
(***************************************************************************)
(* Properties.                                                              *)
(***************************************************************************)
RowsOf(p, n) == {i \in 1 .. n : acquisitions[i].punk = p}

\* The history table is the log of the records core, row by row, each with its
\* number among the acquisitions of its Punk.
HistoryMirrorsLog ==
    /\ Len(history) = Len(acquisitions)
    /\ \A i \in DOMAIN acquisitions :
          LET h == history[i]
              a == acquisitions[i]
          IN  /\ h.punk = a.punk /\ h.target = a.target /\ h.acquirer = a.acquirer
              /\ h.seller = a.seller /\ h.price = a.price /\ h.custody = a.custody
              /\ h.seq = Cardinality(RowsOf(a.punk, i - 1))

LatestRowsMirrorCustody ==
    \A p \in Punks :
        IF acquisitionIndexOf[p] = 0 THEN acquisitionRow[p] = NoRow
        ELSE LET r == acquisitionRow[p]
             IN  /\ r.latest = acquisitionIndexOf[p]
                 /\ r.count = Cardinality(RowsOf(p, Len(acquisitions)))
                 /\ r.target = PC!TargetOf(p) /\ r.seller = PC!OriginalSellerOf(p)
                 /\ r.custody = custody[p]

CollectionMirrored ==
    /\ trials = attemptCount
    /\ \A t \in Traits :
          IF proofMeta[t] = NoProof THEN proofRow[t] = NoRow
          ELSE proofRow[t] = [meta |-> proofMeta[t], owner |-> proofOwner[t]]
    /\ \A p \in Punks :
          IF p \in isLocked THEN firstVaulted[vaultedRow[p]] = p ELSE vaultedRow[p] = NoRow

CountersMirrored ==
    /\ counters.collected = Cardinality(collectedMask)
    /\ counters.acquisitions = Len(acquisitions)
    /\ counters.vaulted = lockedPunkCount
    /\ counters.cleared = Cardinality({i \in DOMAIN acquisitions :
                                        acquisitions[i].custody = "ReturnedToMarket"})
    /\ counters.proofs = proofsMintedCount
    /\ counters.inflow = received["adapter"]

\* Whenever the indexer has caught up, its tables about Punks, traits and Proofs
\* say what the contracts say, re-acquired Punks and traded Proofs included.
TablesMirrorRecords ==
    queue = << >> =>
        /\ HistoryMirrorsLog /\ LatestRowsMirrorCustody
        /\ CollectionMirrored /\ CountersMirrored
        /\ activeSellers = allowedSellers

\* The same of the auctions: clock, bid and outcome of every slot, and the
\* refunds the module owes.  (The target is AuctionRowsNameTarget, below, and
\* the extension count is never raised.)
TablesMirrorAuctions ==
    queue = << >> =>
        /\ refunds = pendingRefund
        /\ \A p \in Punks :
              LET r == auctionRow[p]
                  s == sales[p]
              IN  IF s.phase = "none" THEN r = NoRow
                  ELSE /\ r.cost = s.cost /\ r.reserve = s.reserve /\ r.left = s.left
                       /\ r.high = s.high /\ r.bidder = s.bidder
                       /\ r.outcome = CASE custody[p] = "InReturnAuction" -> "none"
                                        [] custody[p] = "Vaulted" -> "Vaulted"
                                        [] custody[p] = "ReturnedToMarket" -> "Cleared"

\* The row of a running auction names its target: "the returnAuction row was
\* created before we knew the target. Patch it." (indexer/src/index.ts:342-343).
\* Not so in the code when the Punk is re-acquired for another trait.
AuctionRowsNameTarget ==
    queue = << >> =>
        \A p \in Punks : RA!Open(p) => auctionRow[p].target = sales[p].target
=============================================================================
