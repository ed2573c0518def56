---------------------------- MODULE TitleIndexer ----------------------------
(***************************************************************************)
(* The Title auction and the indexer's tables about it                      *)
(* (indexer/src/index.ts).  Every transaction appends its events, in the    *)
(* order the contract emits them, to a queue that the indexer consumes one  *)
(* by one; each handler reads and writes only the tables.                   *)
(*                                                                          *)
(* The rows of an append-only table are kept as what they add up to.  Time  *)
(* passes when the queue is empty: handlers read no clock, so a lagging     *)
(* indexer writes the same rows.                                            *)
(***************************************************************************)
EXTENDS TitleAuction, Sequences

CONSTANTS
    MaxQueue,       \* events the indexer may lag behind (model checking only)
    MaxRestarts     \* restarts counted, both by restarts and by the row
                    \* (model checking only)

VARIABLES
    queue,          \* events not handled yet
    restarts,       \* restarts so far: history, for the properties
    titleState,     \* the row titleAuctionState, or NoRow
    refundTable,    \* Queued minus Withdrawn rows of titleAuctionRefund
    proceedsTable   \* the same of titleAuctionProceeds

tableVars == <<titleState, refundTable, proceedsTable>>
indexedVars == <<vars, queue, restarts, tableVars>>

NoRow == [kickedOff |-> FALSE, settled |-> FALSE, left |-> 0, high |-> 0,
          bidder |-> NoAccount, winner |-> NoAccount, restartCount |-> 0,
          extensions |-> 0]

IndexedInit ==
    /\ Init
    /\ queue = << >>
    /\ restarts = 0
    /\ titleState = NoRow
    /\ refundTable = [a \in Accounts |-> 0]
    /\ proceedsTable = [a \in Accounts |-> 0]

OneMore(n) == IF n < MaxRestarts THEN n + 1 ELSE n

-----------------------------------------------------------------------------
(***************************************************************************)
(* The transactions, with the events they emit.                             *)
(***************************************************************************)
Event(kind, who, value, ends) ==
    [kind |-> kind, who |-> who, value |-> value, left |-> ends]

Emit(events) ==
    /\ Len(queue) + Len(events) <= MaxQueue
    /\ queue' = queue \o events
    /\ UNCHANGED tableVars

RestartEvents ==
    <<Event("SettledNoBidder", NoAccount, 0, 0), Event("Kickoff", NoAccount, 0, left')>>

\* A late bid emits Extended, a refused refund RefundQueued, both before Bid.
BidEvents(a, value, pushed) ==
    (IF Late THEN <<Event("Extended", NoAccount, 0, left')>> ELSE << >>)
    \o (IF highBidder # NoAccount /\ ~pushed
        THEN <<Event("RefundQueued", highBidder, highBidWei, 0)>> ELSE << >>)
    \o <<Event("Bid", a, value, left')>>

Quiet ==
    /\ CollectEnough \/ MintTitle
    /\ UNCHANGED <<queue, restarts, tableVars>>

EmitKickoff ==
    /\ Kickoff
    /\ Emit(<<Event("Kickoff", NoAccount, 0, left')>>)
    /\ UNCHANGED restarts

EmitBid ==
    /\ \E a \in Accounts, value \in Bids, pushed \in BOOLEAN :
          Bid(a, value, pushed) /\ Emit(BidEvents(a, value, pushed))
    /\ UNCHANGED restarts

EmitSettle ==
    \/ /\ Restart
       /\ Emit(RestartEvents)
       /\ restarts' = OneMore(restarts)
    \/ /\ Award
       /\ Emit(<<Event("ProceedsQueued", PayoutRecipient, highBidWei, 0),
                 Event("Settled", highBidder, highBidWei, 0)>>)
       /\ UNCHANGED restarts

EmitWithdrawal ==
    /\ \E a \in Accounts :
          \/ /\ WithdrawRefund(a)
             /\ Emit(<<Event("RefundWithdrawn", a, pendingRefund[a], 0)>>)
          \/ /\ WithdrawProceeds(a)
             /\ Emit(<<Event("ProceedsWithdrawn", a, pendingProceeds[a], 0)>>)
    /\ UNCHANGED restarts

Elapse ==
    /\ queue = << >>
    /\ Tick
    /\ titleState' = [titleState EXCEPT !.left = IF @ > 0 THEN @ - 1 ELSE 0]
    /\ UNCHANGED <<queue, restarts, refundTable, proceedsTable>>

-----------------------------------------------------------------------------
(***************************************************************************)
(* The handlers.                                                            *)
(***************************************************************************)
\* The first one inserts the row, a later one restarts the round.
OnKickoff(e) ==
    /\ e.kind = "Kickoff"
    /\ titleState' =
            [titleState EXCEPT
                !.kickedOff = TRUE, !.settled = FALSE, !.left = e.left, !.high = 0,
                !.bidder = NoAccount, !.extensions = 0,
                !.restartCount = IF titleState = NoRow THEN 0 ELSE OneMore(@)]
    /\ UNCHANGED <<refundTable, proceedsTable>>

\* The deadline of the row tells whether the bid has extended it.  (It never
\* does: Extended comes first and has moved it.)
OnBid(e) ==
    /\ e.kind = "Bid"
    /\ titleState' =
            [titleState EXCEPT
                !.high = e.value, !.bidder = e.who, !.left = e.left,
                !.extensions = IF e.left > titleState.left THEN @ + 1 ELSE @]
    /\ UNCHANGED <<refundTable, proceedsTable>>

OnExtended(e) ==
    /\ e.kind = "Extended"
    /\ titleState' = [titleState EXCEPT !.left = e.left]
    /\ UNCHANGED <<refundTable, proceedsTable>>

OnSettled(e) ==
    /\ e.kind = "Settled"
    /\ titleState' = [titleState EXCEPT !.settled = TRUE, !.winner = e.who]
    /\ UNCHANGED <<refundTable, proceedsTable>>

OnSettledNoBidder(e) ==
    /\ e.kind = "SettledNoBidder"
    /\ titleState' = [titleState EXCEPT !.high = 0, !.bidder = NoAccount]
    /\ UNCHANGED <<refundTable, proceedsTable>>

\* Mutant: withdrawals are not recorded.
OnRefund_QueuedOnly(e) ==
    /\ e.kind \in {"RefundQueued", "RefundWithdrawn"}
    /\ refundTable' = IF e.kind = "RefundQueued"
                      THEN [refundTable EXCEPT ![e.who] = @ + e.value] ELSE refundTable
    /\ UNCHANGED <<titleState, proceedsTable>>

OnRefund(e) ==
    /\ e.kind \in {"RefundQueued", "RefundWithdrawn"}
    /\ refundTable' = [refundTable EXCEPT
            ![e.who] = IF e.kind = "RefundQueued" THEN @ + e.value ELSE @ - e.value]
    /\ UNCHANGED <<titleState, proceedsTable>>

OnProceeds(e) ==
    /\ e.kind \in {"ProceedsQueued", "ProceedsWithdrawn"}
    /\ proceedsTable' = [proceedsTable EXCEPT
            ![e.who] = IF e.kind = "ProceedsQueued" THEN @ + e.value ELSE @ - e.value]
    /\ UNCHANGED <<titleState, refundTable>>

Handle ==
    /\ queue # << >>
    /\ queue' = Tail(queue)
    /\ LET e == Head(queue)
       IN  \/ OnKickoff(e) \/ OnBid(e) \/ OnExtended(e)
           \/ OnSettled(e) \/ OnSettledNoBidder(e)
           \/ OnRefund(e) \/ OnProceeds(e)
    /\ UNCHANGED <<vars, restarts>>

IndexedNext ==
    \/ Quiet \/ EmitKickoff \/ EmitBid \/ EmitSettle \/ EmitWithdrawal
    \/ Elapse
    \/ Handle

\* Time passes, the indexer handles what it is sent, and somebody settles an
\* auction that is over: settle is open to everyone.
IndexedSpec ==
    /\ IndexedInit /\ [][IndexedNext]_indexedVars
    /\ WF_indexedVars(Elapse) /\ WF_indexedVars(Handle) /\ WF_indexedVars(EmitSettle)

-----------------------------------------------------------------------------
(***************************************************************************)
(* Properties.                                                              *)
(***************************************************************************)
\* An auction whose time is over never stays so: without a bid it takes bids
\* again, with one the Title changes hands (PunkVaultTitleAuction.sol:268-273).
NeverStranded == kickedOff /\ left = 0 ~> left > 0 \/ titleOwner \in Accounts

\* Late bids cannot keep the first bidder waiting for ever.
BidEndsInAward == highBidder # NoAccount ~> settled

\* Whenever the indexer has caught up, its row shows the auction as it is, its
\* round included, and the refunds and proceeds it lists as outstanding are
\* those the contract owes.
TablesMirrorTitle ==
    queue = << >> =>
        /\ titleState.kickedOff = kickedOff /\ titleState.settled = settled
        /\ titleState.left = left
        /\ titleState.high = highBidWei /\ titleState.bidder = highBidder
        /\ titleState.winner = (IF settled THEN titleOwner ELSE NoAccount)
        /\ titleState.restartCount = restarts
        /\ refundTable = pendingRefund /\ proceedsTable = pendingProceeds
=============================================================================
