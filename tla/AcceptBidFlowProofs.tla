------------------------ MODULE AcceptBidFlowProofs ------------------------
(***************************************************************************)
(* The seller's flow, for any wallet, listings and bids: the price paid is  *)
(* the price reviewed, done means sold, and nothing is accepted that was    *)
(* not listed.  Each is inductive with what carries it from the click to    *)
(* the chain: through the modal, the prompt, the pool and the receipts.     *)
(***************************************************************************)
EXTENDS AcceptBidFlow, TLAPS

Actions == {"list", "batch", "accept"}
Reviews == [action : Actions, phase : {"loading", "ready", "short", "error"}]
Prompts == [op : Ops, punk : Punks, price : Nat, selected : Punks \cup {Null}]
Transactions == [hash : Nat, op : Ops, punk : Punks, price : Nat]
Statuses == [kind : {"idle", "wallet", "confirming", "success"}, hash : Nat]

ChainShapes ==
    /\ bid \in Nat /\ offer \in [Punks -> Nat]
    /\ custody \in [Punks -> {"None", "InReturnAuction", "ReturnedToMarket"}]
    /\ pool \subseteq Transactions /\ receipts \subseteq Nat \X BOOLEAN /\ sent \in Nat

PageShapes ==
    /\ prompt \in Prompts \cup {Null}
    /\ selected \in Punks \cup {Null}
    /\ elig \in [punk : Punks, listed : BOOLEAN] \cup {Null}
    /\ tx \in [Ops -> Statuses]
    /\ review \in Reviews \cup {Null} /\ committed \in Nat \cup {Null}
    /\ reads \subseteq Actions \X Punks

Shapes == ChainShapes /\ PageShapes

\* Every price on its way to the market was shown by a review of its Punk: in
\* the modal when it is ready, in the prompt, in the pool, in the offers.
Carried ==
    /\ review # Null /\ review.phase = "ready" => committed # Null
    /\ prompt # Null /\ prompt.op \in {"list", "batch"}
          => <<prompt.punk, prompt.price>> \in reviewed
    /\ \A t \in pool : t.op \in {"list", "batch"} => <<t.punk, t.price>> \in reviewed
    /\ \A p \in Punks : offer[p] > 0 => <<p, offer[p]>> \in reviewed

\* A Punk whose accept is simulated, ready or asked for has been on offer.
Simulations ==
    /\ \A p \in Punks : offer[p] > 0 => p \in offered
    /\ preflight \in {"checking", "looking", "ready", "error"} => elig # Null
    /\ preflight = "ready" => elig.punk \in offered

ChosenSold == \E p \in chosen : HasSold(p)
Calls == {"select", "refresh", "custody", "sign"}

\* A hash belongs to one transaction, and the receipt of a successful accept
\* to one that paid for a Punk of the session.
Hashes ==
    /\ \A t \in pool : t.hash \in 1 .. sent
    /\ \A r \in receipts : r[1] \in 1 .. sent
    /\ \A op \in Ops : tx[op].hash <= sent
    /\ \A op1, op2 \in Ops : tx[op1].hash = tx[op2].hash /\ tx[op1].hash # 0 => op1 = op2
    /\ \A op \in {"accept", "batch"} : <<tx[op].hash, TRUE>> \in receipts => ChosenSold

\* A Punk that a lookup finds recorded was sold.
Recorded == \A p \in Punks : AlreadyRecorded(p) => HasSold(p)

\* Whatever the page asks for, shows, signs or sends was selected once.
Picked ==
    /\ selected # Null => selected \in chosen
    /\ elig # Null => elig.punk \in chosen
    /\ prompt # Null => prompt.punk \in chosen
    /\ prompt # Null /\ prompt.selected # Null => prompt.selected \in chosen
    /\ \A t \in pool : t.punk \in chosen
    /\ \A c \in Calls, p \in Punks : <<c, p>> \in inflight => p \in chosen

IInv == Shapes /\ Carried /\ PaidWhatWasReviewed
Accepting == Shapes /\ Simulations /\ NoPrematureAccept
Selling == Shapes /\ Picked /\ Hashes /\ Recorded /\ DoneMeansSold

-----------------------------------------------------------------------------
(***************************************************************************)
(* What the market does, in cases: a listing, a listing taken back, a sale  *)
(* from offers o, or nothing that this flow's prices depend on.             *)
(***************************************************************************)
Listed(t) ==
    /\ t.op \in {"list", "batch"} /\ offer' = Listing(t)
    /\ UNCHANGED <<bid, custody, paid>>

TakenBack(t) ==
    /\ offer' = [offer EXCEPT ![t.punk] = 0]
    /\ UNCHANGED <<bid, custody, paid>>

Sold(p, o) == o[p] \in 1 .. bid /\ Acquire(p, o)

LEMMA MineCases ==
    ASSUME ChainShapes, NEW t \in pool, Mine(t)
    PROVE  \/ Listed(t) \/ TakenBack(t)
           \/ t.op \in {"accept", "batch"} /\ Sold(t.punk, offer)
           \/ t.op = "batch" /\ Sold(t.punk, Listing(t))
           \/ UNCHANGED <<bid, offer, custody, paid>>
<1>1. ASSUME Executes(t)
      PROVE  \/ Listed(t) \/ TakenBack(t)
             \/ t.op \in {"accept", "batch"} /\ Sold(t.punk, offer)
             \/ t.op = "batch" /\ Sold(t.punk, Listing(t))
             \/ UNCHANGED <<bid, offer, custody, paid>>
  <2>1. t.op = "list" => Listed(t)
    BY <1>1 DEF Executes, Listed
  <2>2. t.op = "cancel" => TakenBack(t)
    BY <1>1 DEF Executes, TakenBack
  <2>3. t.op = "accept" => Sold(t.punk, offer)
    BY <1>1 DEF Executes, Sold, Acceptable
  <2>4. t.op = "batch" => Sold(t.punk, Listing(t))
    BY <1>1 DEF Executes, Sold, Acceptable
  <2>5. t.op = "claim" => UNCHANGED <<bid, offer, custody, paid>>
    BY <1>1 DEF Executes
  <2>6. t.op \in {"list", "accept", "batch", "cancel", "claim"}
    BY DEF ChainShapes, Transactions, Ops
  <2> QED BY <2>1, <2>2, <2>3, <2>4, <2>5, <2>6
<1> QED BY <1>1 DEF Mine, Listed, market

LEMMA ListingType ==
    ASSUME ChainShapes, NEW t \in pool
    PROVE  /\ t \in Transactions /\ t.punk \in Punks /\ t.price \in Nat
           /\ Listing(t) \in [Punks -> Nat] /\ Listing(t)[t.punk] = t.price
           /\ \A p \in Punks : p # t.punk => Listing(t)[p] = offer[p]
BY DEF ChainShapes, Transactions, Listing

LEMMA SoldTypes ==
    ASSUME ChainShapes, NEW p \in Punks, NEW o \in [Punks -> Nat], Sold(p, o)
    PROVE  /\ bid' \in Nat /\ offer' \in [Punks -> Nat]
           /\ custody' \in [Punks -> {"None", "InReturnAuction", "ReturnedToMarket"}]
           /\ offer'[p] = 0 /\ \A q \in Punks : q # p => offer'[q] = o[q]
           /\ paid' = paid \cup {<<p, o[p]>>} /\ paid' # {}
           /\ o[p] > 0
<1>1. bid' \in Nat
  BY DEF Sold, Acquire, ChainShapes
<1>2. /\ custody' = [custody EXCEPT ![p] = "InReturnAuction"]
      /\ offer' = [o EXCEPT ![p] = 0]
      /\ paid' = paid \cup {<<p, o[p]>>} /\ o[p] > 0
  BY DEF Sold, Acquire, ChainShapes
<1>3. offer' \in [Punks -> Nat] /\ offer'[p] = 0 /\ \A q \in Punks : q # p => offer'[q] = o[q]
  BY <1>2
<1>4. custody' \in [Punks -> {"None", "InReturnAuction", "ReturnedToMarket"}]
  BY <1>2 DEF ChainShapes
<1>5. paid' # {}
  BY <1>2
<1> QED BY <1>1, <1>2, <1>3, <1>4, <1>5

\* The market's own steps keep its types.
LEMMA MarketTypes ==
    ASSUME Shapes,
           \/ Trade \/ \E p \in Punks : OtherFinalizes(p)
           \/ \E t \in pool : Mine(t)
    PROVE  Shapes'
<1>1. PageShapes' /\ sent' = sent
  BY DEF Shapes, PageShapes, Trade, OtherFinalizes, Mine, txs, wallet, ui
<1>2. CASE Trade
  BY <1>1, <1>2 DEF Shapes, ChainShapes, Trade, txs
<1>3. ASSUME NEW p \in Punks, OtherFinalizes(p) PROVE ChainShapes'
  <2>1. Sold(p, offer) /\ UNCHANGED txs
    BY <1>3 DEF OtherFinalizes, Acceptable, Sold
  <2>2. ChainShapes
    BY DEF Shapes
  <2>3. offer \in [Punks -> Nat]
    BY <2>2 DEF ChainShapes
  <2> QED BY <2>1, <2>2, <2>3, SoldTypes DEF ChainShapes, txs
<1>4. ASSUME NEW t \in pool, Mine(t) PROVE ChainShapes'
  <2>1. ChainShapes
    BY DEF Shapes
  <2>2. /\ offer \in [Punks -> Nat] /\ t.punk \in Punks /\ Listing(t) \in [Punks -> Nat]
    BY <2>1, ListingType DEF ChainShapes
  <2>3. bid' \in Nat /\ offer' \in [Punks -> Nat]
        /\ custody' \in [Punks -> {"None", "InReturnAuction", "ReturnedToMarket"}]
    <3>1. CASE Sold(t.punk, offer) \/ Sold(t.punk, Listing(t))
      BY <2>1, <2>2, <3>1, SoldTypes
    <3>2. CASE Listed(t) \/ TakenBack(t) \/ UNCHANGED <<bid, offer, custody, paid>>
      BY <2>1, <2>2, <3>2 DEF ChainShapes, Listed, TakenBack
    <3> QED BY <1>4, <2>1, <3>1, <3>2, MineCases
  <2>4. pool' \subseteq Transactions /\ receipts' \subseteq Nat \X BOOLEAN
    <3>1. t.hash \in Nat
      BY <2>1 DEF ChainShapes, Transactions
    <3> QED BY <1>4, <2>1, <3>1 DEF Mine, ChainShapes
  <2> QED BY <1>1, <2>1, <2>3, <2>4 DEF ChainShapes
<1> QED BY <1>1, <1>2, <1>3, <1>4 DEF Shapes

\* The page's steps keep its types.
LEMMA ReviewTypes ==
    ASSUME NEW r \in Reviews, NEW phase \in {"loading", "ready", "short", "error"}
    PROVE  [r EXCEPT !.phase = phase] \in Reviews
BY DEF Reviews

LEMMA SelectionTypes ==
    ASSUME Shapes,
           \/ \E p \in Punks : selectPunk(p) \/ SelectAnswered(p) \/ RefreshAnswered(p)
           \/ resetSelection
    PROVE  Shapes'
<1>1. ChainShapes'
  BY DEF Shapes, ChainShapes, selectPunk, SelectAnswered, RefreshAnswered, resetSelection,
         chain, market, txs
<1>2. Idle \in Statuses /\ [op \in Ops |-> Idle] \in [Ops -> Statuses]
  BY DEF Idle, Statuses
<1>3. FreshSelection /\ selected' \in Punks \cup {Null} /\ UNCHANGED <<wallet, reads>>
        => PageShapes'
  BY <1>2 DEF Shapes, PageShapes, FreshSelection, wallet
<1>4. ASSUME NEW p \in Punks PROVE Eligibility(p) \in [punk : Punks, listed : BOOLEAN]
  BY <1>4 DEF Eligibility
<1>5. ASSUME NEW p \in Punks, SelectAnswered(p) \/ RefreshAnswered(p) PROVE PageShapes'
  <2>1. elig' \in {elig, Eligibility(p)}
        /\ UNCHANGED <<prompt, selected, tx, review, committed, reads>>
    BY <1>5 DEF SelectAnswered, RefreshAnswered, wallet
  <2> QED BY <1>4, <2>1 DEF Shapes, PageShapes
<1>6. ASSUME NEW p \in Punks, selectPunk(p) PROVE PageShapes'
  BY <1>3, <1>6 DEF selectPunk
<1>7. ASSUME resetSelection PROVE PageShapes'
  BY <1>3, <1>7 DEF resetSelection
<1> QED BY <1>1, <1>5, <1>6, <1>7 DEF Shapes

LEMMA ReviewingTypes ==
    ASSUME Shapes,
           \/ \E action \in Actions : openReview(action)
           \/ \E r \in reads : ReviewRead(r)
           \/ closeReview
    PROVE  Shapes'
<1>1. ChainShapes'
  BY DEF Shapes, ChainShapes, openReview, ReviewRead, closeReview, chain, market, txs
<1>2. ASSUME NEW action \in Actions, openReview(action) PROVE PageShapes'
  <2>1. elig # Null /\ UNCHANGED <<prompt, selected, elig, tx, committed>>
    BY <1>2 DEF openReview, ConfirmStage, wallet
  <2>2. review' \in Reviews
    BY <1>2 DEF openReview, Reviews
  <2>3. reads' \subseteq Actions \X Punks
    BY <1>2, <2>1 DEF openReview, Shapes, PageShapes
  <2> QED BY <2>1, <2>2, <2>3 DEF Shapes, PageShapes
<1>3. ASSUME NEW r \in reads, ReviewRead(r) PROVE PageShapes'
  <2>1. UNCHANGED <<prompt, selected, elig, tx>> /\ reads' \subseteq reads
    BY <1>3 DEF ReviewRead, wallet
  <2>2. offer[r[2]] \in Nat /\ bid \in Nat
    BY DEF Shapes, ChainShapes, PageShapes
  <2>3. committed' \in Nat \cup {Null}
    BY <1>3, <2>2 DEF ReviewRead, Shapes, PageShapes
  <2>4. review' \in {Null, review} \/ \E phase \in {"short", "ready", "error"} :
            review # Null /\ review' = [review EXCEPT !.phase = phase]
    BY <1>3 DEF ReviewRead
  <2>5. review' \in Reviews \cup {Null}
    BY <2>4, ReviewTypes DEF Shapes, PageShapes
  <2> QED BY <2>1, <2>3, <2>5 DEF Shapes, PageShapes
<1>4. CASE closeReview
  BY <1>1, <1>4 DEF Shapes, PageShapes, closeReview, wallet
<1>5. ASSUME \E r \in reads : ReviewRead(r) PROVE PageShapes'
  BY <1>3, <1>5
<1>6. ASSUME \E action \in Actions : openReview(action) PROVE PageShapes'
  BY <1>2, <1>6
<1> QED BY <1>1, <1>4, <1>5, <1>6 DEF Shapes

LEMMA StatusTypes ==
    ASSUME PageShapes, NEW op \in Ops, NEW h \in Nat,
           NEW k \in {"idle", "wallet", "confirming", "success"}
    PROVE  [tx EXCEPT ![op] = Status(k, h)] \in [Ops -> Statuses]
BY DEF PageShapes, Status, Statuses

LEMMA SubmitTypes ==
    ASSUME Shapes, confirmReview \/ submitAcceptTx \/ submitCancelTx \/ submitClaimTx
    PROVE  Shapes'
<1>1. ChainShapes'
  BY DEF Shapes, ChainShapes, confirmReview, submitAcceptTx, submitCancelTx, submitClaimTx,
         Submit, chain, market, txs
<1>2. ExpectedListing \in Nat
  BY FlowAssumption DEF FlowAssumption, ExpectedListing, Shapes, PageShapes
<1>3. ASSUME NEW op \in Ops, Submit(op), review' \in {review, Null} PROVE PageShapes'
  <2>1. prompt' \in Prompts
    BY <1>2, <1>3 DEF Submit, Prompts, Shapes, PageShapes
  <2>2. tx' \in [Ops -> Statuses]
    BY <1>3, StatusTypes DEF Submit, Shapes
  <2>3. UNCHANGED <<selected, elig, committed, reads>>
    BY <1>3 DEF Submit
  <2> QED BY <1>3, <2>1, <2>2, <2>3 DEF Shapes, PageShapes
<1>4. /\ Actions \subseteq Ops /\ "accept" \in Ops /\ "cancel" \in Ops /\ "claim" \in Ops
      /\ review # Null => review.action \in Actions
  BY DEF Actions, Ops, Shapes, PageShapes, Reviews
<1>5. PageShapes'
  BY <1>3, <1>4 DEF confirmReview, submitAcceptTx, submitCancelTx, submitClaimTx
<1> QED BY <1>1, <1>5 DEF Shapes

LEMMA AnswerTypes ==
    ASSUME Shapes, AnswerPrompt \/ \E op \in Ops : Watch(op)
    PROVE  Shapes'
<1>1. ASSUME Approve PROVE Shapes'
  <2>1. prompt \in Prompts /\ sent' \in Nat
    BY <1>1 DEF Approve, Shapes, PageShapes, ChainShapes
  <2>2. pool' \subseteq Transactions
    BY <1>1, <2>1 DEF Approve, Shapes, ChainShapes, Prompts, Transactions
  <2>3. tx' \in [Ops -> Statuses]
    BY <1>1, <2>1, StatusTypes DEF Approve, Prompts, Shapes
  <2>4. prompt' = Null /\ UNCHANGED <<market, receipts, selected, elig, review, committed, reads>>
    BY <1>1 DEF Approve
  <2> QED BY <2>1, <2>2, <2>3, <2>4 DEF Shapes, ChainShapes, PageShapes, market
<1>2. Idle = Status("idle", 0)
  BY DEF Idle, Status
<1>3. ASSUME Refuse PROVE Shapes'
  <2>1. prompt \in Prompts /\ prompt.op \in Ops
    BY <1>3 DEF Refuse, Shapes, PageShapes, Prompts
  <2>2. tx' \in [Ops -> Statuses]
    <3>1. tx' = tx \/ tx' = [tx EXCEPT ![prompt.op] = Status("idle", 0)]
      BY <1>2, <1>3 DEF Refuse
    <3> QED BY <2>1, <3>1, StatusTypes DEF Shapes, PageShapes
  <2>3. prompt' = Null /\ UNCHANGED <<chain, selected, elig, review, committed, reads>>
    BY <1>3 DEF Refuse
  <2> QED BY <2>2, <2>3 DEF Shapes, ChainShapes, PageShapes, chain, market, txs
<1>4. ASSUME NEW op \in Ops, Receipt(op) PROVE Shapes'
  <2>1. tx' \in [Ops -> Statuses]
    <3>1. CASE op = "cancel"
      <4>1. [tx EXCEPT !["cancel"] = Status("success", 0)] \in [Ops -> Statuses]
        BY <3>1, StatusTypes DEF Shapes
      <4>2. Idle \in Statuses
        BY DEF Idle, Statuses
      <4>3. tx' = [[tx EXCEPT !["cancel"] = Status("success", 0)] EXCEPT !["list"] = Idle]
        BY <1>4, <3>1 DEF Receipt
      <4> QED BY <4>1, <4>2, <4>3
    <3>2. CASE op # "cancel"
      BY <1>4, <3>2, StatusTypes DEF Receipt, Shapes
    <3> QED BY <3>1, <3>2
  <2>2. /\ receipts' \subseteq receipts
        /\ UNCHANGED <<market, pool, sent, wallet, selected, elig, review, committed, reads>>
    BY <1>4 DEF Receipt
  <2> QED BY <2>1, <2>2 DEF Shapes, ChainShapes, PageShapes, market, wallet
<1>5. ASSUME NEW op \in Ops, NoReceipt(op) PROVE Shapes'
  <2>1. tx' \in [Ops -> Statuses]
    <3>1. \/ tx' = [tx EXCEPT ![op] = Status("confirming", 0)]
          \/ tx' = [tx EXCEPT ![op] = Status("idle", 0)]
      BY <1>2, <1>5 DEF NoReceipt
    <3> QED BY <3>1, StatusTypes DEF Shapes
  <2>2. /\ receipts' \subseteq receipts
        /\ UNCHANGED <<market, pool, sent, wallet, selected, elig, review, committed, reads>>
    BY <1>5 DEF NoReceipt
  <2> QED BY <2>1, <2>2 DEF Shapes, ChainShapes, PageShapes, market, wallet
<1> QED BY <1>1, <1>3, <1>4, <1>5 DEF AnswerPrompt, Watch

LEMMA LookupTypes ==
    ASSUME Shapes, NEW p \in Punks, Answered(p)
    PROVE  Shapes'
<1>1. /\ UNCHANGED <<chain, wallet, selected, elig, review, committed, reads>>
      /\ tx \in [Ops -> Statuses] /\ Idle \in Statuses
  BY DEF Answered, Detected, Missed, SignMissed, Shapes, PageShapes, Idle, Statuses
<1>2. tx' \in [Ops -> Statuses]
  <2>1. CASE Detected(p)
    BY <1>1, <2>1 DEF Detected
  <2>2. ASSUME Missed(p) PROVE tx' \in [Ops -> Statuses]
    <3>1. PICK served : tx' = [op \in Ops |-> IF op \in served THEN Idle ELSE tx[op]]
      BY <2>2 DEF Missed
    <3> QED BY <1>1, <3>1
  <2>3. CASE SignMissed(p)
    BY <1>1, <2>3 DEF SignMissed
  <2> QED BY <2>1, <2>2, <2>3 DEF Answered
<1> QED BY <1>1, <1>2 DEF Shapes, ChainShapes, PageShapes, chain, market, txs, wallet

LEMMA Types == Spec => []Shapes
<1>1. Init => Shapes
  <2> SUFFICES ASSUME Init PROVE Shapes
    OBVIOUS
  <2>1. offer \in [Punks -> Nat] /\ bid \in Nat
    BY FlowAssumption DEF FlowAssumption, Init
  <2>2. tx \in [Ops -> Statuses]
    BY DEF Init, Idle, Statuses
  <2> QED BY <2>1, <2>2 DEF Init, Shapes, ChainShapes, PageShapes
<1>2. Shapes /\ [Next]_vars => Shapes'
  <2> SUFFICES ASSUME Shapes, [Next]_vars PROVE Shapes'
    OBVIOUS
  <2>1. CASE Simulated \/ RetryPreflight \/ PollAsks \/ ClaimRead \/ UNCHANGED vars
    BY <2>1 DEF Simulated, RetryPreflight, PollAsks, ClaimRead, vars, chain, market, txs,
                wallet, ui, Shapes, ChainShapes, PageShapes
  <2> QED BY <2>1, MarketTypes, SelectionTypes, ReviewingTypes, SubmitTypes, AnswerTypes,
          LookupTypes DEF Next, Actions
<1> QED BY <1>1, <1>2, PTL DEF Spec

-----------------------------------------------------------------------------
(***************************************************************************)
(* The price paid is the price reviewed.                                    *)
(***************************************************************************)
\* A step of the page that adds no prompt and no transaction.
Unasked ==
    /\ UNCHANGED <<offer, paid, pool>> /\ reviewed' = reviewed
    /\ prompt' \in {prompt, Null}
    /\ review' # Null /\ review'.phase = "ready" => committed' # Null

LEMMA UnaskedKeeps ==
    ASSUME IInv, Unasked
    PROVE  Carried' /\ PaidWhatWasReviewed'
BY DEF IInv, Unasked, Carried, PaidWhatWasReviewed

\* Whatever offers the Punk is sold from, if their prices were reviewed.
LEMMA SoldReviewed ==
    ASSUME IInv, NEW p \in Punks, NEW o \in [Punks -> Nat], Sold(p, o),
           \A q \in Punks : o[q] > 0 => <<q, o[q]>> \in reviewed,
           pool' \subseteq pool, UNCHANGED <<reviewed, prompt, review, committed>>
    PROVE  Carried' /\ PaidWhatWasReviewed'
<1>1. /\ offer'[p] = 0 /\ \A q \in Punks : q # p => offer'[q] = o[q]
      /\ paid' = paid \cup {<<p, o[p]>>} /\ o[p] > 0
  BY SoldTypes DEF IInv, Shapes
<1>2. PaidWhatWasReviewed'
  BY <1>1 DEF IInv, PaidWhatWasReviewed
<1>3. Carried'
  BY <1>1 DEF IInv, Carried
<1> QED BY <1>2, <1>3

LEMMA MarketReviewed ==
    ASSUME IInv,
           \/ Trade \/ \E p \in Punks : OtherFinalizes(p)
           \/ \E t \in pool : Mine(t)
    PROVE  Carried' /\ PaidWhatWasReviewed'
<1>1. /\ UNCHANGED <<reviewed, prompt, review, committed>> /\ pool' \subseteq pool
      /\ offer \in [Punks -> Nat] /\ ChainShapes
  BY DEF Trade, OtherFinalizes, Mine, txs, wallet, ui, IInv, Shapes, ChainShapes
<1>2. CASE Trade
  BY <1>1, <1>2 DEF Trade, IInv, Carried, PaidWhatWasReviewed
<1>3. ASSUME NEW p \in Punks, OtherFinalizes(p) PROVE Carried' /\ PaidWhatWasReviewed'
  <2>1. Sold(p, offer)
    BY <1>3 DEF OtherFinalizes, Acceptable, Sold
  <2>2. \A q \in Punks : offer[q] > 0 => <<q, offer[q]>> \in reviewed
    BY DEF IInv, Carried
  <2> QED BY <1>1, <2>1, <2>2, SoldReviewed
<1>4. ASSUME NEW t \in pool, Mine(t) PROVE Carried' /\ PaidWhatWasReviewed'
  <2>1. /\ t.punk \in Punks /\ t.price \in Nat
        /\ Listing(t) \in [Punks -> Nat] /\ Listing(t)[t.punk] = t.price
        /\ \A p \in Punks : p # t.punk => Listing(t)[p] = offer[p]
    BY <1>1, ListingType
  <2>2. \A q \in Punks : offer[q] > 0 => <<q, offer[q]>> \in reviewed
    BY DEF IInv, Carried
  <2>3. t.op \in {"list", "batch"} =>
            \A q \in Punks : Listing(t)[q] > 0 => <<q, Listing(t)[q]>> \in reviewed
    BY <2>1, <2>2 DEF IInv, Carried
  <2>4. CASE Sold(t.punk, offer)
    BY <1>1, <2>1, <2>2, <2>4, SoldReviewed
  <2>5. CASE t.op = "batch" /\ Sold(t.punk, Listing(t))
    BY <1>1, <2>1, <2>3, <2>5, SoldReviewed
  <2>6. CASE Listed(t) \/ TakenBack(t) \/ UNCHANGED <<bid, offer, custody, paid>>
    <3>1. \A q \in Punks : offer'[q] > 0 => <<q, offer'[q]>> \in reviewed
      BY <1>1, <2>1, <2>2, <2>3, <2>6 DEF Listed, TakenBack
    <3>2. paid' = paid
      BY <2>6 DEF Listed, TakenBack
    <3> QED BY <1>1, <3>1, <3>2 DEF IInv, Carried, PaidWhatWasReviewed
  <2> QED BY <1>1, <1>4, <2>4, <2>5, <2>6, MineCases
<1> QED BY <1>2, <1>3, <1>4

\* The modal is ready only with the price it read.
LEMMA ReviewingUnasked ==
    ASSUME IInv,
           \/ \E action \in Actions : openReview(action)
           \/ \E r \in reads : ReviewRead(r)
           \/ closeReview
    PROVE  Unasked
<1>1. UNCHANGED <<offer, paid, pool, reviewed, prompt>>
  BY DEF openReview, ReviewRead, closeReview, chain, market, txs, wallet
<1>2. ASSUME NEW action \in Actions, openReview(action) PROVE Unasked
  BY <1>1, <1>2 DEF openReview, Unasked
<1>3. ASSUME NEW r \in reads, ReviewRead(r) PROVE Unasked
  <2>1. offer[r[2]] \in Nat /\ bid \in Nat
    BY DEF IInv, Shapes, ChainShapes, PageShapes
  <2>2. CASE review' = IF review = Null THEN Null ELSE [review EXCEPT !.phase = "error"]
    <3>1. review' # Null => review'.phase = "error"
      BY <2>2 DEF IInv, Shapes, PageShapes, Reviews
    <3> QED BY <1>1, <3>1 DEF Unasked
  <2>3. CASE committed' \in {offer[r[2]], bid}
    <3>1. committed' # Null
      BY <2>1, <2>3, FlowAssumption DEF FlowAssumption
    <3> QED BY <1>1, <3>1 DEF Unasked
  <2> QED BY <1>3, <2>2, <2>3 DEF ReviewRead
<1>4. CASE closeReview
  BY <1>1, <1>4 DEF closeReview, Unasked
<1>5. ASSUME \E r \in reads : ReviewRead(r) PROVE Unasked
  BY <1>3, <1>5
<1>6. ASSUME \E action \in Actions : openReview(action) PROVE Unasked
  BY <1>2, <1>6
<1> QED BY <1>4, <1>5, <1>6

\* The other steps of the page, of the wallet's refusals and of the watchers.
LEMMA PageUnasked ==
    ASSUME IInv,
           \/ \E p \in Punks : selectPunk(p) \/ SelectAnswered(p) \/ RefreshAnswered(p)
           \/ resetSelection \/ Simulated \/ RetryPreflight \/ PollAsks \/ ClaimRead
           \/ Refuse \/ \E op \in Ops : Watch(op)
           \/ \E p \in Punks : Answered(p)
           \/ UNCHANGED vars
    PROVE  Unasked
<1>1. /\ UNCHANGED <<offer, paid, pool, reviewed>> /\ prompt' \in {prompt, Null}
      /\ review' = Null \/ UNCHANGED <<review, committed>>
  BY DEF selectPunk, SelectAnswered, RefreshAnswered, resetSelection, FreshSelection, Simulated,
         RetryPreflight, PollAsks, ClaimRead, Refuse, Watch, Receipt, NoReceipt,
         Answered, Detected, Missed, SignMissed, chain, market, txs, wallet, ui, vars
<1> QED BY <1>1 DEF Unasked, IInv, Carried

\* What the wallet is asked to list was confirmed in a modal that was ready.
LEMMA SubmitReviewed ==
    ASSUME IInv, confirmReview \/ submitAcceptTx \/ submitCancelTx \/ submitClaimTx
    PROVE  Carried' /\ PaidWhatWasReviewed'
<1>1. /\ UNCHANGED <<offer, paid, pool, committed>> /\ reviewed \subseteq reviewed'
      /\ review' \in {review, Null}
  BY DEF confirmReview, submitAcceptTx, submitCancelTx, submitClaimTx, Submit,
         chain, market, txs
<1>2. prompt'.op \in {"list", "batch"} => <<prompt'.punk, prompt'.price>> \in reviewed'
  <2>1. CASE confirmReview
    <3>1. committed # Null /\ ExpectedListing = committed
      BY <2>1 DEF confirmReview, IInv, Carried, ExpectedListing
    <3>2. /\ prompt'.op = review.action /\ prompt'.punk = elig.punk
          /\ prompt'.price = committed
      BY <2>1, <3>1 DEF confirmReview, Submit
    <3>3. review.action # "accept" => <<elig.punk, committed>> \in reviewed'
      BY <2>1 DEF confirmReview
    <3> QED BY <3>2, <3>3
  <2>2. CASE submitAcceptTx \/ submitCancelTx \/ submitClaimTx
    BY <2>2 DEF submitAcceptTx, submitCancelTx, submitClaimTx, Submit
  <2> QED BY <2>1, <2>2
<1> QED BY <1>1, <1>2 DEF IInv, Carried, PaidWhatWasReviewed

LEMMA ApproveReviewed ==
    ASSUME IInv, Approve
    PROVE  Carried' /\ PaidWhatWasReviewed'
<1> DEFINE t == [hash |-> sent', op |-> prompt.op, punk |-> prompt.punk,
                 price |-> prompt.price]
<1>1. /\ prompt # Null /\ prompt' = Null /\ pool' = pool \cup {t}
      /\ UNCHANGED <<offer, paid, reviewed, review, committed>>
  BY DEF Approve, market
<1>2. t.op \in {"list", "batch"} => <<t.punk, t.price>> \in reviewed
  BY <1>1 DEF IInv, Carried
<1> HIDE DEF t
<1> QED BY <1>1, <1>2 DEF IInv, Carried, PaidWhatWasReviewed

\* Whoever finalizes, and however reads, selections and prompts overlap, a Punk
\* is sold for a price that its own review showed (AcceptBidFlow.tsx:198-199).
THEOREM ReviewedPrice == Spec => []PaidWhatWasReviewed
<1>1. Init => Carried /\ PaidWhatWasReviewed
  BY DEF Init, Carried, PaidWhatWasReviewed
<1>2. IInv /\ [Next]_vars => Carried' /\ PaidWhatWasReviewed'
  BY MarketReviewed, UnaskedKeeps, ReviewingUnasked, PageUnasked, SubmitReviewed,
     ApproveReviewed DEF Next, AnswerPrompt, Actions
<1> QED BY <1>1, <1>2, Types, PTL DEF Spec, IInv

-----------------------------------------------------------------------------
(***************************************************************************)
(* Nothing is accepted that was not listed.                                 *)
(***************************************************************************)
LEMMA MarketOffered ==
    ASSUME Accepting,
           \/ Trade \/ \E p \in Punks : OtherFinalizes(p)
           \/ \E t \in pool : Mine(t)
    PROVE  Simulations' /\ NoPrematureAccept'
<1>1. UNCHANGED <<prompt, preflight, elig>>
  BY DEF Trade, OtherFinalizes, Mine, wallet, ui
<1>2. offered \subseteq offered' /\ \A p \in Punks : offer'[p] > 0 => p \in offered'
  <2>1. CASE Trade
    BY <2>1 DEF Trade, Accepting, Simulations
  <2>2. ASSUME NEW p \in Punks, OtherFinalizes(p)
        PROVE  offered' = offered /\ \A q \in Punks : offer'[q] > 0 => q \in offered'
    <3>1. Sold(p, offer) /\ offered' = offered
      BY <2>2 DEF OtherFinalizes, Acceptable, Sold
    <3>2. offer \in [Punks -> Nat] /\ ChainShapes
      BY DEF Accepting, Shapes, ChainShapes
    <3>3. offer'[p] = 0 /\ \A q \in Punks : q # p => offer'[q] = offer[q]
      BY <3>1, <3>2, SoldTypes
    <3> QED BY <3>1, <3>3 DEF Accepting, Simulations
  <2>3. ASSUME NEW t \in pool, Mine(t)
        PROVE  offered \subseteq offered' /\ \A p \in Punks : offer'[p] > 0 => p \in offered'
    BY <2>3 DEF Mine
  <2> QED BY <2>1, <2>2, <2>3
<1> QED BY <1>1, <1>2 DEF Accepting, Simulations, NoPrematureAccept

\* The preflight is ready for the Punk of the eligibility it was armed with.
LEMMA PreflightKeeps ==
    ASSUME Accepting, PreflightEffect, UNCHANGED <<offer, offered>>
    PROVE  Simulations'
<1>1. CASE PreflightDeps' = PreflightDeps
  <2>1. elig' = elig /\ preflight' = preflight
    BY <1>1 DEF PreflightDeps, PreflightEffect
  <2> QED BY <2>1 DEF Accepting, Simulations
<1>2. CASE PreflightDeps' # PreflightDeps
  <2>1. preflight' = IF PreflightArmed' THEN "checking" ELSE "idle"
    BY <1>2 DEF PreflightEffect
  <2>2. PreflightArmed' => elig' # Null
    BY DEF PreflightArmed
  <2> QED BY <2>1, <2>2 DEF Accepting, Simulations
<1> QED BY <1>1, <1>2

\* A simulation that succeeds finds the Punk on offer.
LEMMA PreflightSteps ==
    ASSUME Accepting,
           \/ Simulated \/ RetryPreflight \/ PollAsks \/ ClaimRead \/ closeReview
           \/ \E p \in Punks : Missed(p) \/ SignMissed(p)
           \/ \E action \in Actions : openReview(action)
           \/ UNCHANGED vars
    PROVE  Simulations' /\ NoPrematureAccept'
<1>1. UNCHANGED <<offer, offered, prompt, elig>>
  BY DEF Simulated, RetryPreflight, PollAsks, Missed, SignMissed, ClaimRead, closeReview,
         openReview, vars, ui, chain, market, wallet
<1>2. \/ preflight' \in {preflight, "idle"}
      \/ preflight' \in {"checking", "looking", "error"} /\ elig # Null
      \/ preflight' = "ready" /\ elig # Null /\ elig.punk \in offered
  <2>1. CASE Simulated
    <3>1. elig # Null /\ elig.punk \in Punks
      BY <2>1 DEF Simulated, Accepting, Simulations, Shapes, PageShapes
    <3>2. Acceptable(elig.punk, offer, ExpectedListing) => elig.punk \in offered
      BY <3>1 DEF Acceptable, Accepting, Simulations, Shapes, ChainShapes
    <3> QED BY <2>1, <3>1, <3>2 DEF Simulated
  <2>2. CASE RetryPreflight
    BY <2>2 DEF RetryPreflight, ConfirmStage
  <2>3. ASSUME NEW p \in Punks, Missed(p)
        PROVE  preflight' = preflight \/ (preflight' = "error" /\ elig # Null)
    BY <2>3 DEF Missed, Waiters, Accepting, Simulations
  <2>4. \/ preflight' = preflight \/ Simulated \/ RetryPreflight
        \/ \E p \in Punks : Missed(p)
    BY DEF PollAsks, SignMissed, ClaimRead, closeReview, openReview, vars, ui
  <2> QED BY <2>1, <2>2, <2>3, <2>4
<1> QED BY <1>1, <1>2 DEF Accepting, Simulations, NoPrematureAccept

LEMMA PageOffered ==
    ASSUME Accepting,
           \/ \E p \in Punks : selectPunk(p) \/ SelectAnswered(p) \/ RefreshAnswered(p)
           \/ resetSelection \/ \E p \in Punks : Detected(p)
           \/ \E r \in reads : ReviewRead(r)
           \/ AnswerPrompt \/ \E op \in Ops : Watch(op)
    PROVE  Simulations' /\ NoPrematureAccept'
<1>1. /\ UNCHANGED <<offer, offered>> /\ prompt' \in {prompt, Null} /\ PreflightEffect
  BY DEF selectPunk, SelectAnswered, RefreshAnswered, resetSelection, Detected, ReviewRead,
         AnswerPrompt, Approve, Refuse, Watch, Receipt, NoReceipt, chain, market, wallet
<1>2. Simulations'
  BY <1>1, PreflightKeeps
<1>3. NoPrematureAccept'
  BY <1>1 DEF Accepting, NoPrematureAccept
<1> QED BY <1>2, <1>3

\* The button that asks the wallet to accept is active only when ready.
LEMMA SubmitOffered ==
    ASSUME Accepting, confirmReview \/ submitAcceptTx \/ submitCancelTx \/ submitClaimTx
    PROVE  Simulations' /\ NoPrematureAccept'
<1>1. /\ UNCHANGED <<offer, offered>> /\ PreflightEffect /\ prompt'.punk = elig.punk
      /\ prompt'.op = "accept" => AcceptEnabled
  <2>1. CASE confirmReview
    BY <2>1 DEF confirmReview, Submit, chain, market
  <2>2. CASE submitAcceptTx \/ submitCancelTx \/ submitClaimTx
    BY <2>2 DEF submitAcceptTx, submitCancelTx, submitClaimTx, Submit, chain, market
  <2> QED BY <2>1, <2>2
<1>2. Simulations'
  BY <1>1, PreflightKeeps
<1>3. NoPrematureAccept'
  BY <1>1 DEF AcceptEnabled, Accepting, Simulations, NoPrematureAccept
<1> QED BY <1>2, <1>3

\* The wallet is never asked to accept a Punk that has not been on offer: the
\* preflight is ready only for the Punk that the seller would sign for
\* (AcceptBidFlow.tsx:650-657).
THEOREM ListedFirst == Spec => []NoPrematureAccept
<1>1. Init => Simulations /\ NoPrematureAccept
  BY DEF Init, Simulations, NoPrematureAccept
<1>2. Accepting /\ [Next]_vars => Simulations' /\ NoPrematureAccept'
  BY MarketOffered, PreflightSteps, PageOffered, SubmitOffered DEF Next, Answered, Actions
<1> QED BY <1>1, <1>2, Types, PTL DEF Spec, Accepting

-----------------------------------------------------------------------------
(***************************************************************************)
(* Done means sold, for a wallet whose Punks no earlier auction gave back.  *)
(***************************************************************************)
LEMMA Grows ==
    ASSUME paid \subseteq paid', chosen \subseteq chosen'
    PROVE  /\ ChosenSold => ChosenSold'
           /\ \A p : HasSold(p) => HasSold(p)'
BY DEF ChosenSold, HasSold

\* A step puts nothing on screen, into the wallet, the pool or a lookup that was
\* not selected.
PicksOnly ==
    /\ chosen \subseteq chosen'
    /\ selected' \in {selected, Null} \cup chosen'
    /\ elig' \in {elig, Null} \/ elig'.punk \in chosen'
    /\ \/ prompt' \in {prompt, Null}
       \/ prompt'.punk \in chosen' /\ prompt'.selected \in chosen' \cup {Null}
    /\ \A t \in pool' : t \in pool \/ t.punk \in chosen'
    /\ \A c \in Calls, p \in Punks :
          <<c, p>> \in inflight' => <<c, p>> \in inflight \/ p \in chosen'

LEMMA PicksKeeps ==
    ASSUME Picked, PicksOnly
    PROVE  Picked'
<1>1. selected' # Null => selected' \in chosen'
  BY DEF Picked, PicksOnly
<1>2. elig' # Null => elig'.punk \in chosen'
  BY DEF Picked, PicksOnly
<1>3. /\ prompt' # Null => prompt'.punk \in chosen'
      /\ prompt' # Null /\ prompt'.selected # Null => prompt'.selected \in chosen'
  BY DEF Picked, PicksOnly
<1>4. \A t \in pool' : t.punk \in chosen'
  BY DEF Picked, PicksOnly
<1>5. \A c \in Calls, p \in Punks : <<c, p>> \in inflight' => p \in chosen'
  BY DEF Picked, PicksOnly
<1> QED BY <1>1, <1>2, <1>3, <1>4, <1>5 DEF Picked

LEMMA AsksPicks ==
    ASSUME Picked, NEW call, NEW p, p # Null => p \in chosen
    PROVE  \A c \in Calls, q \in Punks :
               <<c, q>> \in Asks(call, p) => <<c, q>> \in inflight \/ q \in chosen
BY DEF Asks

LEMMA SetDonePicks ==
    ASSUME NEW d, NEW flying, SetDone(d, flying)
    PROVE  \A c \in Calls, q \in Punks : <<c, q>> \in inflight' => <<c, q>> \in flying
BY DEF SetDone, Calls

LEMMA SelectionPicks ==
    ASSUME Picked,
           \/ \E p \in Punks : selectPunk(p) \/ SelectAnswered(p) \/ RefreshAnswered(p)
           \/ resetSelection
    PROVE  PicksOnly
<1>1. UNCHANGED <<prompt, pool>>
  BY DEF selectPunk, SelectAnswered, RefreshAnswered, resetSelection, chain, txs, wallet
<1>2. ASSUME NEW p \in Punks, selectPunk(p) PROVE PicksOnly
  <2>1. /\ chosen' = chosen \cup {p} /\ selected' = p /\ elig' = Null
        /\ inflight' = inflight \cup {<<"select", p>>}
    BY <1>2 DEF selectPunk, FreshSelection
  <2> QED BY <1>1, <2>1 DEF PicksOnly
<1>3. ASSUME NEW p \in Punks, SelectAnswered(p) \/ RefreshAnswered(p) PROVE PicksOnly
  <2>1. /\ UNCHANGED <<chosen, selected>> /\ elig' \in {elig, Eligibility(p)}
        /\ inflight' \subseteq inflight
        /\ \E c \in Calls : <<c, p>> \in inflight
    BY <1>3 DEF SelectAnswered, RefreshAnswered, selections, Calls
  <2>2. p \in chosen /\ Eligibility(p).punk = p
    BY <2>1 DEF Picked, Eligibility
  <2> QED BY <1>1, <2>1, <2>2 DEF PicksOnly
<1>4. ASSUME resetSelection PROVE PicksOnly
  BY <1>1, <1>4 DEF resetSelection, FreshSelection, selections, PicksOnly
<1> QED BY <1>2, <1>3, <1>4

\* The steps that look a Punk's custody up.
LEMMA AskingPicks ==
    ASSUME Picked, Simulated \/ PollAsks \/ Refuse \/ \E op \in Ops : NoReceipt(op)
    PROVE  PicksOnly
<1>1. /\ UNCHANGED <<chosen, selected, elig, pool>> /\ prompt' \in {prompt, Null}
  BY DEF Simulated, PollAsks, Refuse, NoReceipt, chain, txs, wallet, selections
<1>2. \/ inflight' = inflight \/ inflight' = Asks("custody", selected)
      \/ prompt # Null /\ inflight' = Asks("sign", prompt.selected)
  BY DEF Simulated, PollAsks, Refuse, NoReceipt
<1>3. \A c \in Calls, q \in Punks : <<c, q>> \in inflight' => <<c, q>> \in inflight \/ q \in chosen
  <2>1. CASE inflight' = inflight
    BY <2>1
  <2>2. CASE inflight' = Asks("custody", selected)
    <3>1. selected # Null => selected \in chosen
      BY DEF Picked
    <3> QED BY <2>2, <3>1, AsksPicks
  <2>3. CASE prompt # Null /\ inflight' = Asks("sign", prompt.selected)
    <3>1. prompt.selected # Null => prompt.selected \in chosen
      BY <2>3 DEF Picked
    <3> QED BY <2>3, <3>1, AsksPicks
  <2> QED BY <1>2, <2>1, <2>2, <2>3
<1> QED BY <1>1, <1>3 DEF PicksOnly

\* The steps after which done may hold, or that take an answer.
LEMMA AnsweredPicks ==
    ASSUME Picked,
           \/ \E p \in Punks : Answered(p)
           \/ \E op \in Ops : Receipt(op)
           \/ ClaimRead
    PROVE  PicksOnly
<1>1. UNCHANGED <<chosen, selected, elig, pool, prompt>>
  BY DEF Answered, Detected, Missed, SignMissed, Receipt, ClaimRead, chain, txs, wallet,
         selections
<1>2. ASSUME NEW p \in Punks, Detected(p) PROVE PicksOnly
  <2>1. PICK call \in {"custody", "sign"} \X {p} :
            \E flying \in {inflight, inflight \ {call}} : SetDone(TRUE, flying)
    BY <1>2 DEF Detected
  <2>2. PICK flying \in {inflight, inflight \ {call}} : SetDone(TRUE, flying)
    BY <2>1
  <2> QED BY <1>1, <2>2, SetDonePicks DEF PicksOnly
<1>3. ASSUME NEW p \in Punks, Missed(p) \/ SignMissed(p) PROVE PicksOnly
  BY <1>1, <1>3 DEF Missed, SignMissed, PicksOnly
<1>4. ASSUME NEW op \in Ops, Receipt(op) PROVE PicksOnly
  <2>1. PICK flying :
            /\ SetDone(done \/ op \in {"accept", "batch"}, flying)
            /\ \/ flying = inflight
               \/ selected # Null /\ flying = inflight \cup {<<"refresh", selected>>}
    BY <1>4 DEF Receipt
  <2>2. \A c \in Calls, q \in Punks : <<c, q>> \in inflight' => <<c, q>> \in flying
    BY <2>1, SetDonePicks
  <2> QED BY <1>1, <2>1, <2>2 DEF Picked, PicksOnly
<1>5. CASE ClaimRead
  BY <1>1, <1>5 DEF ClaimRead, PicksOnly
<1> QED BY <1>2, <1>3, <1>4, <1>5 DEF Answered

\* The steps that ask the wallet or send what it signed, and those that touch
\* nothing of this.
LEMMA SubmitPicks ==
    ASSUME Picked, confirmReview \/ submitAcceptTx \/ submitCancelTx \/ submitClaimTx
    PROVE  PicksOnly
<1>1. UNCHANGED <<chosen, selected, elig, pool, inflight>> /\ elig # Null
  BY DEF confirmReview, submitAcceptTx, submitCancelTx, submitClaimTx, Submit, chain, txs,
         selections
<1>2. prompt'.punk = elig.punk /\ prompt'.selected = selected
  BY DEF confirmReview, submitAcceptTx, submitCancelTx, submitClaimTx, Submit
<1> QED BY <1>1, <1>2 DEF Picked, PicksOnly

LEMMA ApprovePicks ==
    ASSUME Picked, Approve
    PROVE  PicksOnly
<1>1. /\ UNCHANGED <<chosen, selected, elig, inflight>> /\ prompt' = Null
      /\ prompt.punk \in chosen
      /\ \A t \in pool' : t \in pool \/ t.punk = prompt.punk
  BY DEF Approve, selections, Picked
<1> QED BY <1>1 DEF PicksOnly

LEMMA OtherPicks ==
    ASSUME Picked,
           \/ Trade \/ \E p \in Punks : OtherFinalizes(p)
           \/ \E t \in pool : Mine(t)
           \/ RetryPreflight
           \/ \E action \in Actions : openReview(action)
           \/ \E r \in reads : ReviewRead(r)
           \/ closeReview
           \/ UNCHANGED vars
    PROVE  PicksOnly
<1>1. UNCHANGED <<chosen, selected, elig, prompt, inflight>> /\ pool' \subseteq pool
  BY DEF Trade, OtherFinalizes, Mine, RetryPreflight, openReview, ReviewRead, closeReview,
         chain, market, txs, wallet, ui, selections, vars
<1> QED BY <1>1 DEF PicksOnly

LEMMA NextPicks ==
    ASSUME Picked, [Next]_vars
    PROVE  PicksOnly
<1>1. CASE \/ \E p \in Punks : selectPunk(p) \/ SelectAnswered(p) \/ RefreshAnswered(p)
           \/ resetSelection
  BY <1>1, SelectionPicks
<1>2. CASE Simulated \/ PollAsks \/ Refuse \/ \E op \in Ops : NoReceipt(op)
  BY <1>2, AskingPicks
<1>3. CASE \/ \E p \in Punks : Answered(p)
           \/ \E op \in Ops : Receipt(op)
           \/ ClaimRead
  BY <1>3, AnsweredPicks
<1>4. CASE confirmReview \/ submitAcceptTx \/ submitCancelTx \/ submitClaimTx
  BY <1>4, SubmitPicks
<1>5. CASE Approve
  BY <1>5, ApprovePicks
<1> QED BY <1>1, <1>2, <1>3, <1>4, <1>5, OtherPicks DEF Next, AnswerPrompt, Watch, Actions

LEMMA PaidIsSold ==
    ASSUME NEW p, NEW price, <<p, price>> \in paid'
    PROVE  HasSold(p)'
<1>1. <<p, price>>[1] = p
  OBVIOUS
<1> QED BY <1>1 DEF HasSold

\* A sale is recorded for the Punk that it pays for.
LEMMA SaleIsRecorded ==
    ASSUME ChainShapes, NEW p \in Punks, NEW o \in [Punks -> Nat], Sold(p, o)
    PROVE  /\ paid \subseteq paid' /\ HasSold(p)'
           /\ \A q \in Punks : q # p => custody'[q] = custody[q]
<1>1. /\ paid' = paid \cup {<<p, o[p]>>}
      /\ custody' = [custody EXCEPT ![p] = "InReturnAuction"]
  BY DEF Sold, Acquire
<1>2. HasSold(p)'
  BY <1>1, PaidIsSold
<1> QED BY <1>1, <1>2 DEF ChainShapes

\* Only a sale changes custody.
LEMMA MarketSells ==
    ASSUME Selling,
           \/ Trade \/ \E p \in Punks : OtherFinalizes(p)
           \/ \E t \in pool : Mine(t)
    PROVE  /\ paid \subseteq paid'
           /\ \A q \in Punks : custody'[q] = custody[q] \/ HasSold(q)'
<1>1. ChainShapes /\ offer \in [Punks -> Nat]
  BY DEF Selling, Shapes, ChainShapes
<1>2. ASSUME NEW p \in Punks, NEW o \in [Punks -> Nat], Sold(p, o)
      PROVE  /\ paid \subseteq paid'
             /\ \A q \in Punks : custody'[q] = custody[q] \/ HasSold(q)'
  BY <1>1, <1>2, SaleIsRecorded
<1>3. CASE Trade
  BY <1>3 DEF Trade
<1>4. ASSUME NEW p \in Punks, OtherFinalizes(p)
      PROVE  /\ paid \subseteq paid'
             /\ \A q \in Punks : custody'[q] = custody[q] \/ HasSold(q)'
  <2>1. Sold(p, offer)
    BY <1>4 DEF OtherFinalizes, Acceptable, Sold
  <2> QED BY <1>1, <1>2, <2>1
<1>5. ASSUME NEW t \in pool, Mine(t)
      PROVE  /\ paid \subseteq paid'
             /\ \A q \in Punks : custody'[q] = custody[q] \/ HasSold(q)'
  <2>1. t.punk \in Punks /\ Listing(t) \in [Punks -> Nat]
    BY <1>1, ListingType
  <2>2. CASE Sold(t.punk, offer) \/ Sold(t.punk, Listing(t))
    BY <1>1, <1>2, <2>1, <2>2
  <2>3. CASE Listed(t) \/ TakenBack(t) \/ UNCHANGED <<bid, offer, custody, paid>>
    BY <2>3 DEF Listed, TakenBack
  <2> QED BY <1>1, <1>5, <2>2, <2>3, MineCases
<1> QED BY <1>3, <1>4, <1>5

\* An accept that succeeds has paid for a Punk of the session.
LEMMA AcceptPays ==
    ASSUME Selling, NEW t \in pool, t.op \in {"accept", "batch"}, Executes(t),
           chosen' = chosen
    PROVE  ChosenSold'
<1>1. t.punk \in chosen
  BY DEF Selling, Picked
<1>2. PICK o : paid' = paid \cup {<<t.punk, o[t.punk]>>}
  BY DEF Executes, Acquire
<1>3. HasSold(t.punk)'
  BY <1>2, PaidIsSold
<1> QED BY <1>1, <1>3 DEF ChosenSold

\* A receipt that arrives is the receipt of the transaction mined.
LEMMA MarketSold ==
    ASSUME Selling,
           \/ Trade \/ \E p \in Punks : OtherFinalizes(p)
           \/ \E t \in pool : Mine(t)
    PROVE  Hashes' /\ Recorded' /\ DoneMeansSold'
<1>1. UNCHANGED <<done, tx, sent, chosen>>
  BY DEF Trade, OtherFinalizes, Mine, txs, ui, selections
<1>2. paid \subseteq paid' /\ \A q \in Punks : custody'[q] = custody[q] \/ HasSold(q)'
  BY MarketSells
<1>3. (ChosenSold => ChosenSold') /\ \A p : HasSold(p) => HasSold(p)'
  BY <1>1, <1>2, Grows
<1>4. Recorded'
  BY <1>2, <1>3 DEF Selling, Recorded, AlreadyRecorded
<1>5. DoneMeansSold'
  BY <1>1, <1>3 DEF Selling, DoneMeansSold, ChosenSold
<1>6. CASE UNCHANGED <<pool, receipts>>
  BY <1>1, <1>3, <1>4, <1>5, <1>6 DEF Selling, Hashes
<1>7. ASSUME NEW t \in pool, Mine(t) PROVE Hashes'
  <2>1. /\ pool' \subseteq pool /\ t.hash \in 1 .. sent
        /\ \A r \in receipts' : r \in receipts \/ r[1] = t.hash
    BY <1>7 DEF Mine, Selling, Hashes
  <2>2. ASSUME NEW op \in {"accept", "batch"}, <<tx[op].hash, TRUE>> \in receipts'
        PROVE  ChosenSold'
    <3>1. CASE <<tx[op].hash, TRUE>> \in receipts
      BY <1>3, <3>1 DEF Selling, Hashes
    <3>2. CASE <<tx[op].hash, TRUE>> \notin receipts
      <4>1. /\ tx[t.op] = Status("confirming", t.hash) /\ tx[op].hash = t.hash /\ Executes(t)
        <5>1. PICK ok \in BOOLEAN :
                  /\ ok => Executes(t)
                  /\ receipts' = IF tx[t.op] = Status("confirming", t.hash)
                                 THEN receipts \cup {<<t.hash, ok>>} ELSE receipts
          BY <1>7 DEF Mine
        <5>2. /\ tx[t.op] = Status("confirming", t.hash)
              /\ <<tx[op].hash, TRUE>> = <<t.hash, ok>>
          BY <2>2, <3>2, <5>1
        <5>3. tx[op].hash = t.hash /\ ok = TRUE
          BY <5>2
        <5> QED BY <5>1, <5>2, <5>3
      <4>2. t.op \in Ops /\ op \in Ops /\ t.hash # 0
        BY <2>1 DEF Selling, Shapes, ChainShapes, Transactions, Ops
      <4>3. tx[t.op].hash = tx[op].hash /\ tx[op].hash # 0
        BY <4>1, <4>2 DEF Status
      <4>4. t.op = op
        BY <4>2, <4>3 DEF Selling, Hashes
      <4> QED BY <1>1, <4>1, <4>4, AcceptPays
    <3> QED BY <3>1, <3>2
  <2> QED BY <1>1, <2>1, <2>2 DEF Selling, Hashes
<1> QED BY <1>4, <1>5, <1>6, <1>7 DEF Trade, OtherFinalizes, txs

\* What the page does to its statuses: at most one gets the newest hash, the
\* others keep theirs or lose it; and done follows a receipt or a lookup.
Forgets ==
    /\ UNCHANGED <<paid, custody, sent>> /\ chosen \subseteq chosen'
    /\ pool' \subseteq pool /\ receipts' \subseteq receipts
    /\ \A op \in Ops : tx'[op].hash \in {tx[op].hash, 0}

LEMMA ForgetsKeeps ==
    ASSUME Selling, Forgets, done' => done \/ ChosenSold
    PROVE  Hashes' /\ Recorded' /\ DoneMeansSold'
<1>1. (ChosenSold => ChosenSold') /\ \A p : HasSold(p) => HasSold(p)'
  BY Grows DEF Forgets
<1>2. Recorded'
  BY <1>1 DEF Forgets, Selling, Recorded, AlreadyRecorded
<1>3. DoneMeansSold'
  BY <1>1 DEF Selling, DoneMeansSold, ChosenSold
<1>4. \A op \in {"accept", "batch"} : <<tx'[op].hash, TRUE>> \in receipts' => ChosenSold'
  <2> SUFFICES ASSUME NEW op \in {"accept", "batch"}, <<tx'[op].hash, TRUE>> \in receipts'
               PROVE  ChosenSold
    BY <1>1
  <2>1. <<tx'[op].hash, TRUE>> \in receipts /\ op \in Ops
    BY DEF Forgets, Ops
  <2>2. tx'[op].hash # 0
    <3>1. <<tx'[op].hash, TRUE>>[1] \in 1 .. sent
      BY <2>1 DEF Selling, Hashes
    <3> QED BY <3>1
  <2>3. tx'[op].hash = tx[op].hash
    BY <2>1, <2>2 DEF Forgets
  <2> QED BY <2>1, <2>3 DEF Selling, Hashes
<1>5. \A op \in Ops : tx'[op].hash <= sent'
  <2>1. sent \in Nat
    BY DEF Selling, Shapes, ChainShapes
  <2> QED BY <2>1 DEF Forgets, Selling, Hashes
<1>6. \A op1, op2 \in Ops : tx'[op1].hash = tx'[op2].hash /\ tx'[op1].hash # 0 => op1 = op2
  BY DEF Forgets, Selling, Hashes
<1>7. (\A t \in pool' : t.hash \in 1 .. sent') /\ (\A r \in receipts' : r[1] \in 1 .. sent')
  BY DEF Forgets, Selling, Hashes
<1>8. Hashes'
  BY <1>4, <1>5, <1>6, <1>7 DEF Hashes
<1> QED BY <1>2, <1>3, <1>8

\* A lookup that finds its Punk recorded is right.
LEMMA LookupIsRight ==
    ASSUME Selling, NEW p \in Punks, Detected(p)
    PROVE  ChosenSold
<1>1. \E c \in Calls : <<c, p>> \in inflight
  BY DEF Detected, Calls
<1>2. p \in chosen
  BY <1>1 DEF Selling, Picked
<1>3. HasSold(p)
  BY DEF Detected, Selling, Recorded
<1> QED BY <1>2, <1>3 DEF ChosenSold

LEMMA PageForgets ==
    ASSUME Selling,
           \/ \E p \in Punks : selectPunk(p) \/ SelectAnswered(p) \/ RefreshAnswered(p)
           \/ resetSelection \/ Simulated \/ RetryPreflight \/ PollAsks \/ ClaimRead
           \/ \E action \in Actions : openReview(action)
           \/ \E r \in reads : ReviewRead(r)
           \/ closeReview
           \/ UNCHANGED vars
    PROVE  Hashes' /\ Recorded' /\ DoneMeansSold'
<1>1. /\ UNCHANGED <<paid, custody, sent, pool, receipts, done>> /\ chosen \subseteq chosen'
      /\ tx' = tx \/ tx' = [op \in Ops |-> Idle]
  BY DEF selectPunk, SelectAnswered, RefreshAnswered, resetSelection, FreshSelection, Simulated,
         RetryPreflight, PollAsks, ClaimRead, openReview, ReviewRead, closeReview,
         chain, market, txs, ui, selections, vars
<1>2. Forgets
  BY <1>1 DEF Forgets, Idle
<1> QED BY <1>1, <1>2, ForgetsKeeps

LEMMA SubmitForgets ==
    ASSUME Selling, confirmReview \/ submitAcceptTx \/ submitCancelTx \/ submitClaimTx
    PROVE  Hashes' /\ Recorded' /\ DoneMeansSold'
<1>1. UNCHANGED <<paid, custody, sent, pool, receipts, done, chosen>>
  BY DEF confirmReview, submitAcceptTx, submitCancelTx, submitClaimTx, Submit, chain, market,
         txs, selections
<1>2. PICK op : tx' = [tx EXCEPT ![op] = Status("wallet", 0)]
  BY DEF confirmReview, submitAcceptTx, submitCancelTx, submitClaimTx, Submit
<1>3. Forgets
  BY <1>1, <1>2 DEF Forgets, Status, Selling, Shapes, PageShapes
<1> QED BY <1>1, <1>3, ForgetsKeeps

\* Of the answers only Detected makes the page done.
LEMMA AnsweredForgets ==
    ASSUME Selling, NEW p \in Punks, Answered(p)
    PROVE  Hashes' /\ Recorded' /\ DoneMeansSold'
<1>1. UNCHANGED <<paid, custody, sent, pool, receipts, chosen>>
  BY DEF Answered, Detected, Missed, SignMissed, chain, market, txs, selections
<1>2. tx \in [Ops -> Statuses] /\ "accept" \in Ops
  BY DEF Selling, Shapes, PageShapes, Ops
<1>3. \A op \in Ops : tx'[op].hash \in {tx[op].hash, 0}
  <2>1. CASE Detected(p)
    BY <2>1 DEF Detected
  <2>2. ASSUME Missed(p) PROVE \A op \in Ops : tx'[op].hash \in {tx[op].hash, 0}
    <3>1. PICK served : tx' = [op \in Ops |-> IF op \in served THEN Idle ELSE tx[op]]
      BY <2>2 DEF Missed
    <3> QED BY <3>1 DEF Idle
  <2>3. CASE SignMissed(p)
    BY <1>2, <2>3 DEF SignMissed, Idle
  <2> QED BY <2>1, <2>2, <2>3 DEF Answered
<1>4. Forgets
  BY <1>1, <1>3 DEF Forgets
<1>5. done' => done \/ ChosenSold
  BY LookupIsRight DEF Answered, Missed, SignMissed
<1> QED BY <1>4, <1>5, ForgetsKeeps

\* The receipt that makes the page done is that of an accept that paid.
LEMMA WatchForgets ==
    ASSUME Selling, NEW op \in Ops, Watch(op)
    PROVE  Hashes' /\ Recorded' /\ DoneMeansSold'
<1>1. UNCHANGED <<paid, custody, sent, pool, chosen>> /\ receipts' \subseteq receipts
  BY DEF Watch, Receipt, NoReceipt, market, selections
<1>2. \A o \in Ops : tx'[o].hash \in {tx[o].hash, 0}
  <2>1. "cancel" \in Ops /\ "list" \in Ops /\ tx \in [Ops -> Statuses]
    BY DEF Ops, Selling, Shapes, PageShapes
  <2>2. CASE Receipt(op)
    BY <2>1, <2>2 DEF Receipt, Status, Idle
  <2>3. CASE NoReceipt(op)
    BY <2>1, <2>3 DEF NoReceipt, Status, Idle
  <2> QED BY <2>2, <2>3 DEF Watch
<1>3. Forgets
  BY <1>1, <1>2 DEF Forgets
<1>4. done' => done \/ ChosenSold
  <2>1. CASE Receipt(op)
    BY <2>1 DEF Receipt, SetDone, Selling, Hashes
  <2>2. CASE NoReceipt(op)
    BY <2>2 DEF NoReceipt
  <2> QED BY <2>1, <2>2 DEF Watch
<1> QED BY <1>3, <1>4, ForgetsKeeps

LEMMA RefuseForgets ==
    ASSUME Selling, Refuse
    PROVE  Hashes' /\ Recorded' /\ DoneMeansSold'
<1>1. UNCHANGED <<paid, custody, sent, pool, receipts, done, chosen>>
  BY DEF Refuse, chain, market, txs, selections
<1>2. tx' = tx \/ tx' = [tx EXCEPT ![prompt.op] = Idle]
  BY DEF Refuse
<1>3. Forgets
  BY <1>1, <1>2 DEF Forgets, Idle, Selling, Shapes, PageShapes
<1> QED BY <1>1, <1>3, ForgetsKeeps

\* The newest hash belongs to nothing else.
LEMMA ApproveHashes ==
    ASSUME Selling, Approve
    PROVE  Hashes' /\ Recorded' /\ DoneMeansSold'
<1>1. /\ UNCHANGED <<paid, custody, receipts, done, chosen>> /\ sent' = sent + 1 /\ sent \in Nat
      /\ prompt.op \in Ops
      /\ tx' = [tx EXCEPT ![prompt.op] = Status("confirming", sent')]
  BY DEF Approve, market, selections, Selling, Shapes, ChainShapes, PageShapes, Prompts
<1>2. /\ tx'[prompt.op].hash = sent + 1
      /\ \A op \in Ops : op # prompt.op => tx'[op].hash = tx[op].hash
  BY <1>1 DEF Status, Selling, Shapes, PageShapes
<1>3. \A op \in Ops : tx[op].hash \in Nat /\ tx[op].hash <= sent
  BY DEF Selling, Shapes, PageShapes, Statuses, Hashes
<1>4. \A t \in pool' : t.hash \in 1 .. sent'
  <2>1. \A t \in pool' : t \in pool \/ t.hash = sent + 1
    BY <1>1 DEF Approve
  <2> QED BY <1>1, <2>1 DEF Selling, Hashes
<1>5. \A r \in receipts : r[1] \in 1 .. sent
  BY DEF Selling, Hashes
<1>6. (ChosenSold => ChosenSold') /\ \A p : HasSold(p) => HasSold(p)'
  BY <1>1, Grows
<1>7. ASSUME NEW op \in {"accept", "batch"}, <<tx'[op].hash, TRUE>> \in receipts
      PROVE  ChosenSold'
  <2>1. op \in Ops
    BY DEF Ops
  <2>2. <<tx'[op].hash, TRUE>>[1] \in 1 .. sent
    BY <1>5, <1>7
  <2>3. op # prompt.op
    BY <1>1, <1>2, <2>2
  <2> QED BY <1>2, <1>6, <1>7, <2>1, <2>3 DEF Selling, Hashes
<1>8. \A op \in Ops : tx'[op].hash <= sent'
  BY <1>1, <1>2, <1>3
<1>9. \A op1, op2 \in Ops : tx'[op1].hash = tx'[op2].hash /\ tx'[op1].hash # 0 => op1 = op2
  BY <1>1, <1>2, <1>3 DEF Selling, Hashes
<1>10. \A r \in receipts' : r[1] \in 1 .. sent'
  BY <1>1, <1>5
<1>11. Hashes'
  BY <1>1, <1>4, <1>7, <1>8, <1>9, <1>10 DEF Hashes
<1>12. Recorded' /\ DoneMeansSold'
  BY <1>1, <1>6 DEF Selling, Recorded, AlreadyRecorded, DoneMeansSold, ChosenSold
<1> QED BY <1>11, <1>12

\* The page says that a Punk is sold only when the market has bought one that was
\* selected in this session, so the one it shows if no other was selected: whichever
\* of the receipt, the refusal, the lost receipt, the preflight and the poll tells it,
\* and however late.  Provided that no Punk of the wallet came back from an earlier
\* auction (with one it does not hold: live.ts:681 takes it for recorded).
THEOREM DoneIsSold ==
    ASSUME Returned = {}
    PROVE  Spec => []DoneMeansSold
<1>1. Init => Picked /\ Hashes /\ Recorded /\ DoneMeansSold
  BY DEF Init, Picked, Hashes, Recorded, AlreadyRecorded, DoneMeansSold, Idle
<1>2. Selling /\ [Next]_vars => Hashes' /\ Recorded' /\ DoneMeansSold'
  BY MarketSold, PageForgets, SubmitForgets, AnsweredForgets, WatchForgets, RefuseForgets,
     ApproveHashes DEF Next, AnswerPrompt, Actions
<1>3. Selling /\ [Next]_vars => Picked'
  BY NextPicks, PicksKeeps DEF Selling
<1> QED BY <1>1, <1>2, <1>3, Types, PTL DEF Spec, Selling

=============================================================================
