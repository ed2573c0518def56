---------------------------- MODULE AcceptBidFlow ----------------------------
(***************************************************************************)
(* The seller's side of acceptBid: the React component                     *)
(* app/components/AcceptBidFlow.tsx, one browser session of one wallet,    *)
(* against the CryptoPunks market and Patron.                              *)
(*                                                                         *)
(* The seller picks a Punk, lists it to Patron at the live bid, accepts    *)
(* the bid and claims the ETH from the market.  Everything is              *)
(* asynchronous: lookups answer late, or for a Punk that is no longer      *)
(* selected; the wallet is asked and may decline; transactions are mined,  *)
(* reverted, or their receipts are not found; and acceptBid is             *)
(* permissionless, so anybody may finalize a listed Punk at any moment.    *)
(*                                                                         *)
(* The chain part abstracts the market and Patron to what this flow reads: *)
(* the offers, the live bid, custody, and the seller's market balance.     *)
(* Amounts are small integers.  The consent checkbox, the target trait     *)
(* (its shift is a revert) and all wording are left out; a lookup answers  *)
(* with what the chain holds when the answer arrives.                      *)
(***************************************************************************)
EXTENDS Integers, FiniteSets

CONSTANTS
    Punks,          \* the wallet's Punks
    Returned,       \* those that an earlier return auction gave back
    Null,
    PageBid,        \* live bid when the page is loaded
    MaxBid,         \* bound: the live bid stops growing there
    MinAcceptBid,   \* MIN_ACCEPT_BID_WEI
    Sessions,       \* where a session may start: atomic, may the wallet batch
                    \* calls; offer, the listings an earlier session left
    MaxSteps        \* bound: selections made plus transactions sent

ASSUME FlowAssumption ==
    /\ PageBid \in Nat /\ Null \notin Nat /\ Null \notin Punks
    /\ Sessions \subseteq [atomic : BOOLEAN, offer : [Punks -> Nat]]

VARIABLES
    bid, offer, custody, proceeds, paid,                \* the chain
    pool, receipts, sent,                               \* transactions
    reviewed, offered,                                  \* history: prices confirmed,
                                                        \* Punks ever on offer
    atomic, prompt,                                     \* the wallet
    selected, elig, tx, review, committed,              \* the component
    done, pendingClaim, preflight, inflight, reads,
    picks, chosen                                       \* selections: how many, which

market == <<bid, offer, custody, proceeds, paid>>
txs == <<pool, receipts, sent>>
chain == <<market, txs>>
wallet == <<atomic, prompt>>
selections == <<picks, chosen>>
ui == <<selected, elig, tx, review, committed,
        done, pendingClaim, preflight, inflight, reads, selections>>
vars == <<chain, reviewed, offered, wallet, ui>>

Ops == {"list", "accept", "batch", "cancel", "claim"}

Idle == [kind |-> "idle", hash |-> 0]
Status(kind, hash) == [kind |-> kind, hash |-> hash]
InFlight(op) == tx[op].kind \in {"wallet", "confirming"}
Free(op) == tx[op].kind = "idle"

-----------------------------------------------------------------------------
(* The chain.                                                              *)

Owned(p) == custody[p] # "InReturnAuction"

\* What Patron.acceptBid requires of an offer, given the caller's cap.
Acceptable(p, o, cap) == Owned(p) /\ o[p] \in 1..bid /\ o[p] <= cap

\* The tail of acceptBid: buy at the listed price, hold for the auction.
Acquire(p, o) ==
    /\ custody' = [custody EXCEPT ![p] = "InReturnAuction"]
    /\ offer' = [o EXCEPT ![p] = 0]
    /\ bid' = bid - o[p]
    /\ proceeds' = proceeds + o[p]
    /\ paid' = paid \cup {<<p, o[p]>>}

Listing(t) == [offer EXCEPT ![t.punk] = t.price]

Executes(t) ==
    CASE t.op = "list" ->
            /\ Owned(t.punk)
            /\ offer' = Listing(t)
            /\ UNCHANGED <<bid, custody, proceeds, paid>>
      [] t.op = "cancel" ->
            /\ Owned(t.punk)
            /\ offer' = [offer EXCEPT ![t.punk] = 0]
            /\ UNCHANGED <<bid, custody, proceeds, paid>>
      [] t.op = "accept" ->
            Acceptable(t.punk, offer, t.price) /\ Acquire(t.punk, offer)
      [] t.op = "batch" ->
            Acceptable(t.punk, Listing(t), t.price) /\ Acquire(t.punk, Listing(t))
      [] t.op = "claim" ->
            proceeds' = 0 /\ UNCHANGED <<bid, offer, custody, paid>>

\* A transaction succeeds, or reverts for a reason of its own (gas, a target
\* that shifted).  A bundle executed as two transactions may list and then
\* fail to accept: the wallet reports a failure.  Of the receipts only those
\* that a watcher waits for are kept.
Mine(t) ==
    /\ t \in pool /\ pool' = pool \ {t}
    /\ \E ok \in BOOLEAN :
          /\ \/ ok /\ Executes(t)
             \/ ~ok /\ UNCHANGED market
             \/ /\ ~ok /\ t.op = "batch" /\ Owned(t.punk)
                /\ offer' = Listing(t)
                /\ UNCHANGED <<bid, custody, proceeds, paid>>
          /\ receipts' = IF tx[t.op] = Status("confirming", t.hash)
                         THEN receipts \cup {<<t.hash, ok>>} ELSE receipts
    /\ offered' = offered \cup {p \in Punks : offer'[p] > 0}
                           \cup (IF t.op = "batch" /\ paid' # paid THEN {t.punk} ELSE {})
    /\ UNCHANGED <<sent, reviewed, wallet, ui>>

Trade ==
    /\ bid < MaxBid /\ bid' = bid + 1
    /\ UNCHANGED <<offer, custody, proceeds, paid, txs, reviewed, offered, wallet, ui>>

\* A keeper accepts a listed Punk, capping at the listed price.
OtherFinalizes(p) ==
    /\ Acceptable(p, offer, offer[p]) /\ Acquire(p, offer)
    /\ UNCHANGED <<txs, reviewed, offered, wallet, ui>>

-----------------------------------------------------------------------------
(* What the component derives from its state.                              *)

\* getPunkEligibility
Eligibility(p) == [punk |-> p, listed |-> offer[p] \in 1..bid]

\* Mutant: a vanished offer taken for an acquisition
AlreadyRecorded_NotListed(p) == offer[p] = 0

AlreadyRecorded(p) == custody[p] # "None"

ListingConfirmed == tx["list"].kind = "success" \/ (elig # Null /\ elig.listed)

\* Mutant: the page-load bid instead of the price frozen in the review
ExpectedListing_PageLoad == PageBid

ExpectedListing == IF committed = Null THEN PageBid ELSE committed
UseAtomic == atomic /\ elig # Null /\ ~elig.listed
AcceptNeedsReview == elig # Null /\ elig.listed /\ tx["list"].kind # "success"
ClaimReady == pendingClaim \notin {Null, 0} \/ tx["claim"].kind = "success"

\* The stages on screen.
PickerShown == ~done /\ bid >= MinAcceptBid
ConfirmStage == /\ tx["claim"].kind # "success"
                /\ elig # Null /\ selected # Null

\* Mutant: the button waits for neither the listing nor its simulation
AcceptEnabled_AtOnce == elig # Null

AcceptEnabled == preflight = "ready"

\* Mutant: the poll runs only for a listing made in this session
PollEnabled_OwnListing == /\ ~done /\ tx["list"].kind = "success" /\ selected # Null
                          /\ ~InFlight("accept") /\ ~InFlight("batch")

PollEnabled == /\ ~done /\ ListingConfirmed /\ selected # Null
               /\ ~InFlight("accept") /\ ~InFlight("batch")

\* The simulation is armed by its dependencies, and again when one changes.
PreflightArmed == ~done /\ elig # Null /\ ListingConfirmed
PreflightDeps == <<done, elig, committed, ListingConfirmed, selected>>
PreflightEffect ==
    preflight' = IF PreflightDeps' = PreflightDeps THEN preflight
                 ELSE IF PreflightArmed' THEN "checking" ELSE "idle"

\* done becomes d; when it flips, the market balance is read, once.
SetDone(d, flying) ==
    /\ done' = d
    /\ inflight' = IF d /\ ~done THEN flying \cup {<<"pending", Null>>} ELSE flying

\* detectExternalFinalize is called: for the Punk that is selected now, if any.
\* How many calls about it are in flight is left open; the one of acceptBid's
\* submitter, <<"sign", p>>, is kept apart because nothing cancels it.
Asks(call, p) == inflight \cup (IF p = Null THEN {} ELSE {<<call, p>>})

\* Who waits for an answer about p: the preflight, and the watchers of acceptBid
\* and of the bundle.  A new selection cancels them, but not their calls.
Waiters(p) ==
    {c \in {"preflight", "accept", "batch"} :
        /\ selected = p
        /\ IF c = "preflight" THEN preflight = "looking"
                             ELSE tx[c] = Status("confirming", 0)}

-----------------------------------------------------------------------------
(* Selecting a Punk.                                                       *)

FreshSelection ==
    /\ elig' = Null
    /\ tx' = [op \in Ops |-> Idle]
    /\ review' = Null /\ committed' = Null /\ pendingClaim' = Null

selectPunk(p) ==
    /\ PickerShown /\ picks + sent < MaxSteps
    /\ picks' = picks + 1 /\ chosen' = chosen \cup {p}
    /\ selected' = p
    /\ FreshSelection
    /\ inflight' = inflight \cup {<<"select", p>>}
    /\ UNCHANGED <<chain, reviewed, offered, wallet, done, reads>>
    /\ PreflightEffect

\* The answer is applied whichever Punk is selected by then.
SelectAnswered(p) ==
    /\ <<"select", p>> \in inflight
    /\ inflight' = inflight \ {<<"select", p>>}
    /\ elig' \in {elig, Eligibility(p)}
    /\ UNCHANGED <<chain, reviewed, offered, wallet, selected, tx, review, committed,
                   done, pendingClaim, reads, selections>>
    /\ PreflightEffect

\* "Start over" waits for the wallet, "Change Punk" does not.
resetSelection ==
    /\ ConfirmStage
    /\ selected' = Null
    /\ FreshSelection
    /\ UNCHANGED <<chain, reviewed, offered, wallet, done, inflight, reads, selections>>
    /\ PreflightEffect

RefreshAnswered(p) ==
    /\ <<"refresh", p>> \in inflight
    /\ inflight' = inflight \ {<<"refresh", p>>}
    /\ elig' \in {elig, Eligibility(p)}
    /\ UNCHANGED <<chain, reviewed, offered, wallet, selected, tx, review,
                   committed, done, pendingClaim, reads, selections>>
    /\ PreflightEffect

-----------------------------------------------------------------------------
(* Preflight and the external-finalize poll.                               *)

\* acceptBid is simulated at the reviewed cap; when every attempt fails the
\* custody is looked up before an error is shown.
Simulated ==
    /\ preflight = "checking"
    /\ \/ /\ Acceptable(elig.punk, offer, ExpectedListing)
          /\ preflight' = "ready" /\ UNCHANGED inflight
       \/ /\ preflight' = IF selected = Null THEN "error" ELSE "looking"
          /\ inflight' = Asks("custody", selected)
    /\ UNCHANGED <<chain, reviewed, offered, wallet, selected, elig, tx, review,
                   committed, done, pendingClaim, reads, selections>>

RetryPreflight ==
    /\ ConfirmStage /\ ~UseAtomic /\ preflight = "error"
    /\ preflight' = "checking"
    /\ UNCHANGED <<chain, reviewed, offered, wallet, selected, elig, tx, review,
                   committed, done, pendingClaim, inflight, reads, selections>>

\* A turn of the poll, or the tab regains focus.
PollAsks ==
    /\ PollEnabled
    /\ inflight' = Asks("custody", selected)
    /\ UNCHANGED <<chain, reviewed, offered, wallet, selected, elig, tx, review,
                   committed, done, pendingClaim, preflight, reads, selections>>

\* The Punk that a call was made for is recorded: done, whichever is selected by
\* now, and whether or not somebody still waits.
Detected(p) ==
    /\ AlreadyRecorded(p)
    /\ \E call \in {"custody", "sign"} \X {p} :
          /\ call \in inflight
          /\ \E flying \in {inflight, inflight \ {call}} : SetDone(TRUE, flying)
    /\ UNCHANGED <<chain, reviewed, offered, wallet, selected, elig, tx, review,
                   committed, pendingClaim, reads, selections>>
    /\ PreflightEffect

\* The Punk is not recorded, or the lookup failed: those who wait show their
\* errors, all of them when the last call is answered.
Missed(p) ==
    /\ <<"custody", p>> \in inflight
    /\ \E served \in SUBSET Waiters(p) :
          /\ \/ UNCHANGED inflight
             \/ served = Waiters(p) /\ inflight' = inflight \ {<<"custody", p>>}
          /\ preflight' = IF "preflight" \in served THEN "error" ELSE preflight
          /\ tx' = [op \in Ops |-> IF op \in served THEN Idle ELSE tx[op]]
    /\ UNCHANGED <<chain, reviewed, offered, wallet, selected, elig, review,
                   committed, done, pendingClaim, reads, selections>>

\* The submitter shows its error whatever became of the selection.
SignMissed(p) ==
    /\ <<"sign", p>> \in inflight
    /\ inflight' \in {inflight, inflight \ {<<"sign", p>>}}
    /\ tx' = [tx EXCEPT !["accept"] = Idle]
    /\ UNCHANGED <<chain, reviewed, offered, wallet, selected, elig, review, committed,
                   done, pendingClaim, preflight, reads, selections>>

-----------------------------------------------------------------------------
(* The review modal.                                                       *)

openReview(action) ==
    /\ ConfirmStage /\ review = Null
    /\ \/ action = "batch" /\ UseAtomic /\ Free("batch")
       \/ action = "list" /\ ~UseAtomic /\ ~elig.listed /\ Free("list")
       \/ action = "accept" /\ ~UseAtomic /\ AcceptEnabled /\ AcceptNeedsReview
                            /\ Free("accept")
    /\ review' = [action |-> action, phase |-> "loading"]
    /\ reads' = reads \cup {<<action, elig.punk>>}
    /\ UNCHANGED <<chain, reviewed, offered, wallet, selected, elig, tx,
                   committed, done, pendingClaim, preflight, inflight, selections>>

\* The read of an earlier opening fills the modal that is open now.
ReviewRead(r) ==
    /\ r \in reads /\ reads' = reads \ {r}
    /\ LET price == IF r[1] = "accept" THEN offer[r[2]] ELSE bid
           shown(phase) == IF review = Null THEN Null
                           ELSE [review EXCEPT !.phase = phase]
       IN \/ /\ committed' = price
             /\ review' = IF review # Null /\ review.phase = "error" THEN review
                          ELSE shown(IF bid < price THEN "short" ELSE "ready")
          \/ review' = shown("error") /\ UNCHANGED committed
    /\ UNCHANGED <<chain, reviewed, offered, wallet, selected, elig, tx, done,
                   pendingClaim, inflight, selections>>
    /\ PreflightEffect

\* The committed price outlives the modal.
closeReview ==
    /\ review # Null /\ review' = Null
    /\ UNCHANGED <<chain, reviewed, offered, wallet, selected, elig, tx,
                   committed, done, pendingClaim, preflight, inflight, reads, selections>>

\* A submitter: the wallet is asked to sign, for the Punk of the eligibility.
Submit(op) ==
    /\ elig # Null /\ prompt = Null
    /\ prompt' = [op |-> op, punk |-> elig.punk, price |-> ExpectedListing,
                  selected |-> selected]
    /\ tx' = [tx EXCEPT ![op] = Status("wallet", 0)]
    /\ UNCHANGED <<chain, offered, atomic, selected, elig, committed, done,
                   pendingClaim, inflight, reads, selections>>
    /\ PreflightEffect

confirmReview ==
    /\ review # Null /\ review.phase = "ready"
    /\ review.action = "accept" => AcceptEnabled
    /\ review' = Null
    /\ Submit(review.action)
    /\ reviewed' = IF review.action = "accept" THEN reviewed
                   ELSE reviewed \cup {<<elig.punk, committed>>}

\* A Punk listed in this session was reviewed when it was listed.
submitAcceptTx ==
    /\ ConfirmStage /\ ~UseAtomic /\ Free("accept")
    /\ AcceptEnabled /\ ~AcceptNeedsReview
    /\ Submit("accept")
    /\ UNCHANGED <<reviewed, review>>

submitCancelTx ==
    /\ ConfirmStage /\ ~done /\ ListingConfirmed /\ Free("cancel")
    /\ Submit("cancel")
    /\ UNCHANGED <<reviewed, review>>

submitClaimTx ==
    /\ ConfirmStage /\ ClaimReady /\ Free("claim")
    /\ Submit("claim")
    /\ UNCHANGED <<reviewed, review>>

-----------------------------------------------------------------------------
(* The wallet's answer, and the receipts.                                  *)

\* Set whichever Punk is selected by now.
Approve ==
    /\ prompt # Null /\ picks + sent < MaxSteps
    /\ sent' = sent + 1
    /\ pool' = pool \cup {[hash |-> sent', op |-> prompt.op, punk |-> prompt.punk,
                           price |-> prompt.price]}
    /\ tx' = [tx EXCEPT ![prompt.op] = Status("confirming", sent')]
    /\ prompt' = Null
    /\ UNCHANGED <<market, receipts, reviewed, offered, atomic, selected, elig, review,
                   committed, done, pendingClaim, inflight, reads, selections>>
    /\ PreflightEffect

\* Declined; or refused by the wallet's own estimate, and then acceptBid's
\* submitter first looks whether the Punk it was called for is recorded.
Refuse ==
    /\ prompt # Null /\ prompt' = Null
    /\ \/ /\ tx' = [tx EXCEPT ![prompt.op] = Idle]
          /\ UNCHANGED inflight
       \/ /\ prompt.op = "accept" /\ prompt.selected # Null
          /\ inflight' = Asks("sign", prompt.selected) /\ UNCHANGED tx
    /\ UNCHANGED <<chain, reviewed, offered, atomic, selected, elig, review,
                   committed, done, pendingClaim, reads, selections>>
    /\ PreflightEffect

\* The watcher of a hash gets its receipt.
Receipt(op) ==
    LET h == tx[op].hash IN
    /\ <<h, TRUE>> \in receipts
    /\ receipts' = receipts \ {<<h, TRUE>>}
    /\ tx' = IF op = "cancel"
             THEN [tx EXCEPT !["cancel"] = Status("success", 0), !["list"] = Idle]
             ELSE [tx EXCEPT ![op] = Status("success", 0)]
    /\ SetDone(done \/ op \in {"accept", "batch"},
               IF op = "cancel" /\ selected # Null
               THEN inflight \cup {<<"refresh", selected>>} ELSE inflight)
    /\ pendingClaim' = IF op = "claim" THEN 0 ELSE pendingClaim
    /\ UNCHANGED <<market, pool, sent, reviewed, offered, wallet, selected, elig, review,
                   committed, reads, selections>>
    /\ PreflightEffect

\* It reverted, or no receipt was found in time; for an accept the custody is
\* looked up first, of the Punk that is selected now.
NoReceipt(op) ==
    LET h == tx[op].hash
        looks == op \in {"accept", "batch"} /\ selected # Null
    IN
    /\ h # 0 /\ <<h, TRUE>> \notin receipts
    /\ receipts' = receipts \ {<<h, FALSE>>}
    /\ tx' = [tx EXCEPT ![op] = IF looks THEN Status("confirming", 0) ELSE Idle]
    /\ inflight' = IF looks THEN Asks("custody", selected) ELSE inflight
    /\ UNCHANGED <<market, pool, sent, reviewed, offered, wallet, selected, elig, review,
                   committed, done, pendingClaim, reads, selections>>
    /\ PreflightEffect

\* refreshPendingClaim: a failed read is not repeated.
ClaimRead ==
    /\ <<"pending", Null>> \in inflight
    /\ inflight' = inflight \ {<<"pending", Null>>}
    /\ pendingClaim' \in {pendingClaim, proceeds}
    /\ UNCHANGED <<chain, reviewed, offered, wallet, selected, elig, tx, review,
                   committed, done, preflight, reads, selections>>

-----------------------------------------------------------------------------

Init ==
    /\ bid = PageBid
    /\ \E s \in Sessions : atomic = s.atomic /\ offer = s.offer
    /\ custody = [p \in Punks |-> IF p \in Returned THEN "ReturnedToMarket" ELSE "None"]
    /\ proceeds = 0 /\ paid = {}
    /\ pool = {} /\ receipts = {} /\ sent = 0
    /\ offered = {p \in Punks : offer[p] > 0}
    /\ reviewed = {<<p, offer[p]>> : p \in {q \in Punks : offer[q] > 0}}
    /\ prompt = Null
    /\ selected = Null /\ elig = Null
    /\ tx = [op \in Ops |-> Idle]
    /\ review = Null /\ committed = Null
    /\ done = FALSE /\ pendingClaim = Null /\ preflight = "idle"
    /\ inflight = {} /\ reads = {} /\ picks = 0 /\ chosen = {}

AnswerPrompt == Approve \/ Refuse
Watch(op) == Receipt(op) \/ NoReceipt(op)
Answered(p) == Detected(p) \/ Missed(p) \/ SignMissed(p)

Next ==
    \/ Trade
    \/ \E p \in Punks : \/ OtherFinalizes(p) \/ selectPunk(p)
                        \/ SelectAnswered(p) \/ RefreshAnswered(p)
    \/ \E t \in pool : Mine(t)
    \/ resetSelection
    \/ Simulated \/ RetryPreflight \/ PollAsks
    \/ \E p \in Punks : Answered(p)
    \/ \E action \in {"list", "batch", "accept"} : openReview(action)
    \/ \E r \in reads : ReviewRead(r)
    \/ closeReview \/ confirmReview
    \/ submitAcceptTx \/ submitCancelTx \/ submitClaimTx
    \/ AnswerPrompt
    \/ \E op \in Ops : Watch(op)
    \/ ClaimRead

Spec == Init /\ [][Next]_vars

\* The wallet is answered, transactions are mined, watchers return, a submitter or
\* a watcher that waits for a lookup gets its answer, and the poll runs on; its
\* lookups may fail, but not for ever.
AnswerWaiting == \E p \in Punks : Answered(p) /\ <<done, tx>>' # <<done, tx>>

Fairness ==
    /\ WF_vars(AnswerPrompt)
    /\ WF_vars(\E t \in pool : Mine(t))
    /\ WF_vars(\E op \in Ops : Watch(op))
    /\ WF_vars(AnswerWaiting)
    /\ SF_vars(PollAsks)
    /\ SF_vars(\E p \in Punks : Detected(p))

FairSpec == Spec /\ Fairness

-----------------------------------------------------------------------------
(* Properties.                                                             *)

\* "What the seller reads is what they sign" (AcceptBidFlow.tsx:198-199): a Punk
\* is only ever sold, by whoever finalizes, for a price that its own review
\* showed when it was listed, however many reads, selections and prompts
\* overlapped in between.
PaidWhatWasReviewed == paid \subseteq reviewed

HasSold(p) == \E sale \in paid : sale[1] = p

\* The flow says that a Punk is accepted and its ETH is waiting only when the
\* market has bought a Punk that the seller selected in this session: the one on
\* screen, if there was but one.  A sale of his that he never looked at, a lookup
\* answered late or a receipt of an earlier selection does not make it say so.
DoneMeansSold == done => \E p \in chosen : HasSold(p)

\* The least that the screen then says of the Punk it shows, "acceptBid landed -
\* the Punk is in its return auction" (AcceptBidFlow.tsx:1200): something was
\* sold, or at least that Punk has been acquired before.  It does not hold: a
\* Punk that was given back passes for sold, and the answer about an earlier
\* selection is applied to the present one.
ReportsRealSale ==
    done /\ ConfirmStage /\ elig.punk = selected
        => paid # {} \/ AlreadyRecorded(selected)

\* The preflight closes the gap between a listing and its accept (the comment
\* at AcceptBidFlow.tsx:650-657): the wallet is never asked to accept a Punk
\* that has not been on offer, however listings, prompts and late answers of
\* another selection got mixed up.
NoPrematureAccept ==
    prompt # Null /\ prompt.op = "accept" => prompt.punk \in offered

\* A keeper or bot may accept first: while the Punk stays selected and its
\* listing confirmed, the flow finds out and moves on to the claim, whatever
\* prompts, reverts and lost receipts come in between.
FinalizeIsNoticed ==
    \A p \in Punks :
        (selected = p /\ ListingConfirmed /\ custody[p] = "InReturnAuction")
        ~> (done \/ selected # p \/ ~ListingConfirmed)

=============================================================================
