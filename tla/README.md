# A TLA+ specification of Permanent Collection

Permanent Collection buys CryptoPunks with a pooled *live bid*, offers each of
them back to the market in a 72-hour *return auction*, and locks for ever the
ones nobody takes, each of which collects one of 111 traits. This directory
specifies the contracts of `contracts/src` that hold this state and the three
programs around them that act on it: the indexer that mirrors it in tables, the
web flow in which a seller accepts the bid, and the keeper. TLC model-checks
them on small instances. TLAPS proves, for every value of the constants, the
safety properties of the contracts, one by one and composed: the records for
every dataset, the accounting of both auction houses to the wei and that they
implement one abstract auction house, that the composition keeps the contracts
in agreement; that the indexer's tables show what the contracts say, those of the
Title auction whatever its lag; and the safety of the seller's flow.

Definitions are translated from the sources and keep their names where they can.
On chain, one transaction is one action: a call that reverts changes nothing, so
it is an action that is not enabled, and calls between contracts in one
transaction are conjuncts of one action. Off chain, one action is what runs
between two awaits: an event handler, the answer of a lookup, a click.

## 1. Inventory

| Component | State | Operations | Hard behaviour | What makes it correct |
|---|---|---|---|---|
| Records core, `PermanentCollection.sol` | completion mask, pending and attempt counters, append-only log, index, custody, first vaulted Punk | `recordAcquisition`, `markCustody` | many Punks in flight; claims taken in one transaction and given back 72 h later; re-acquisition of a returned Punk | one vaulted Punk per trait; claims released exactly once; history never rewritten; scarce carriers not wasted |
| Return auctions, `ReturnAuctionModule.sol`, `ReturnAuctionEscrow.sol` | a reusable slot per Punk, queued refunds, referrers, one shared ETH balance | `startSale`, `placeBid(WithReferral)`, `settle`, `withdrawRefund` | late bids, failing pushes, concurrent auctions, reused slots | every wei accounted for; outbid bidders made whole; every auction ends |
| Vault and Proofs, `PunkVault.sol` | locked Punks, Proof metadata, Title token | `receivePunk`, `mintProofs`, `mintToAuction` | the mint is bound to the settlement that collects the trait | exactly one Proof per collected trait, to the seller |
| Acquisition hub, `Patron.sol` | accounted live bid, balance, allowlist with delay | `acceptBid`, `acceptListing`, `receive`, `skimSurplus`, allowlist edits | listings change between read and call; ETH forced in | bid backed by ETH; only valid targets; the hub's mirror of the core's checks agrees with it |
| Live-bid adapter, `LiveBidAdapter.sol` | buffer, threshold, cooldown, sync mark | `sweep`, `streamForward`, `contribute`, `poolReplenish`, setters | two paths, one cooldown; threshold follows the log lazily | metered growth; the bid never stalls |
| Burn pool, `VaultBurnPool.sol` | ETH and taxed tokens | `sweep` | best-effort forward inside `settle` | cannot block a settlement |
| Buyback burner, `BuybackBurner.sol` | queued ETH, pacing | `executeStep` | partial fills, failing rewards | queue covered by balance |
| Title auction, `PunkVaultTitleAuction.sol` | one auction, pull queues | `kickoff`, `bid`, `settle`, withdrawals | restart without bids, late bids | one Title, one winner, nobody loses a bid |
| Admin and gates, `ProtocolAdmin.sol`, `RendererRegistry.sol`, `TokenAdminPoker.sol`, `OneTimeSetup.sol` | admin, timer, one-shot wiring | `transferAdmin`, gated setters | lock after a year, burn, carve-outs | power only decreases |
| Referral payout, `ReferralPayout.sol` | balances | `notify`, `claim`, `claimFor` | claims that fail | credits are kept |
| Fee phase adapter, swap context, reentrancy guards | recipients, transient flags | `sweep`, `enterSwap`/`exitSwap` | reentrancy | an entry point is atomic |
| Renderers and SVG caches | baked fragments | views | none | pure |
| Indexer, `indexer/src/index.ts` | tables | one handler per event | events of one transaction replayed in order; rows overwritten by re-acquisitions and restarts | tables mirror the chain |
| Seller's flow, `app/components/AcceptBidFlow.tsx`, `app/lib/data/live.ts` | selection, eligibility, five transaction states, review, preflight, done | select, review, list, accept, batch, cancel, claim, poll | every lookup and receipt is asynchronous; anybody may finalize; the wallet may decline | nobody is paid a price he did not review; "done" means sold; a sale is noticed |
| Keeper, `app/lib/keeper/targets.ts` | one evaluation | reads, execute | stale and failed reads, competing keepers | permissionless work goes on |
| Rest of the web app, scripts | none of the protocol's | reads and transactions | none | - |

How they interact: the hook, referrers and return auctions pay into the adapter;
the adapter meters ETH into Patron; Patron buys a Punk from the CryptoPunks
market, transfers it to the auction module, calls `startSale` and then
`recordAcquisition`; `settle` calls the vault, the records core (`markCustody`),
the burn pool, the adapter (`poolReplenish`) and the burner; the adapter's
`sweep` reads the records core's log. The Title auction reads
`collectedCount()`. The burner's setters and Patron's allowlist ask
`ProtocolAdmin`. The indexer consumes the events of all of them; the web flow
reads the indexer and the chain and sends transactions to the market and to
Patron; the keeper reads the burner and calls `executeStep`.

## 2. Modules

| Module | Models | Notes |
|---|---|---|
| `TraitLedger` | nothing in particular: what the collection promises | each trait is open, pending or collected; pending and collected traits have a Punk behind them; collected is final |
| `PermanentCollection` | the records core | `RecordAcquisition`, `MarkCustody`; refines `TraitLedger` |
| `PermanentCollectionProofs` | - | its theorems |
| `ReturnAuction` | auction module, escrow, burn pool's ETH | time is relative: `left` is what is left until `endsAt`, `Tick` takes one unit off every sale |
| `ReturnAuctionProofs` | - | its theorems |
| `PunkVault` | vault locks and Proofs | operations only, driven by `Protocol` |
| `Patron` | live bid, allowlist, price checks | operations only, driven by `Protocol` and `LiveBid` |
| `Protocol` | the composition of the four modules above | each of its actions is one transaction |
| `ProtocolProofs` | - | its theorems and those of `Indexer`; cites those of the core and of the auctions through `INSTANCE` |
| `LiveBid` | the adapter and the bid it feeds | extends `Patron`; acquisitions appear as payments and log rows |
| `LiveBidProofs` | - | its theorems |
| `AuctionHouse` | nothing in particular: what an auction promises its bidders | lots go to the leader for the leading bid, a bid beats the last, nothing else costs anybody anything; refined by the next one and by `ReturnAuction` |
| `TitleAuction` | the Title auction and the Title token | restart and award are the two branches of `settle` |
| `TitleIndexer` | the indexer's Title tables | extends `TitleAuction` with an event queue |
| `TitleProofs` | - | the theorems of the two modules above |
| `Indexer` | the indexer's other tables | extends `Protocol` with an event queue; its theorems are in `ProtocolProofs` |
| `AcceptBidFlow` | the seller's flow in the web app | with the part of the market and of Patron it talks to |
| `AcceptBidFlowProofs` | - | its theorems |
| `ProtocolAdmin` | the admin role | operations only |
| `BuybackBurner` | the buy-and-burn queue | operations only |
| `Upkeep` | role, queue, allowlist and keeper composed | |
| `UpkeepProofs` | - | its theorems |
| `Lemmas` | - | what several of the proof modules use: sums over a function, queues handled one entry at a time |
| `MC...` | - | the instances TLC checks |

Correspondence of state, where it is not by name: `acquisitions` is
`_acquisitions`, a row without the trait mask and the block number, which
nothing reads back; `collectedMask` is the set of bits; `sales[p].phase` stands
for `(endsAt, settled)`; `punkOwner` is the market's `punkIndexToAddress`;
`eth`, `patronEth` and `buffer` are the contracts' balances; `activeIn` is
`allowedSellerActiveAt` relative to now; `age` is the number of blocks since
`lastSweepBlock`. `wallet` and `received` are balances outside the system, kept
so that ETH is conserved in the model.

The dataset (which Punk carries which trait) is the constant `Carries`, and
`CarrierCount` the packed rarity table. The contract's #8348 and bit 23 are
`SolePunk` and `SoleTrait`; `SoleCarrierAssumption` says that no other Punk
carries `SoleTrait`, as in the sealed dataset.

`TitleAuction` keeps `left` as above, and one variable `titleOwner` for the
minted flags of vault and auction and the token's owner; transfers of the Title
after its award are left out. In the two indexer modules a transaction puts its
events, in the order they are emitted, into `queue`, and `Handle` takes one out;
rows of the append-only refund tables are kept as what they add up to. The
auction's `extensions` column is part of the rows but of no property: both
contracts emit `Extended` before the bid's event, so the handlers' test whether
the bid has moved the deadline never holds and the column stays 0.

`AcceptBidFlow` is one browser session of one wallet. `tx[op]` are the five
transaction states; *rejected* and *failed* are merged with *idle*, which has
the same guards. `inflight` and `reads` are the lookups that have not answered;
a lookup answers with what the chain holds then, or fails. `prompt` is the
wallet's dialog (one at a time), `pool` and `receipts` what becomes of what it
signed. Left out: the consent box, the target trait (its shift is an arbitrary
revert in `Mine` and in `Simulated`), a failed lookup's error text, and the
component's picker list. `detectExternalFinalize` is a call in flight like the
others: it is made for the Punk that is selected then (`PollAsks`, `Simulated`,
`NoReceipt`, `Refuse`) and answered later, for that Punk, whichever is selected
by then: `Detected` sets `done`, after `Missed` and `SignMissed` those who still
wait (`Waiters`) show their errors. How many calls about one Punk are in flight
is left open. The loading of a page that finds listings of an earlier session is
the initial state. `reviewed`, `offered` and `chosen` are history, for the
properties.

In `ReturnAuction`, the burn pool's `sweep` always reaches the burner, whose
`receive` takes everything; the branch of `VaultBurnPool.sol:137-143` that keeps
the ETH for the next sweep is left out.

In `Upkeep`, `age` is the number of blocks since `lastStepBlock`, `since` the
keeper's block number in the same scale; `timer` is the time left of the admin's
year. `forced` is history. The burner's swap spends any of `Fills`; token
amounts and `minOut`, whose revert changes nothing, are left out.

The environment is free: whoever owns a Punk may list it at any modelled price,
privately or publicly; any account may bid, name a referrer, refuse an ETH push,
call `settle` or not; the market's trades between accounts do not change
anything the contracts read and are left out.

Definitions named `X_Something` beside an `X` are faulty versions of it, used to
see that the properties notice: for every property that a run checks there is one
whose use in place of `X` makes TLC find the property violated
(`PROJECT.json`, "mutants").

## 3. What the runs check

`tlc -config C.cfg M` with the module and configuration named.

| Run | Module, configuration | Bounds | Distinct states |
|---|---|---|---|
| records core | `MCPermanentCollection`, `PermanentCollection.cfg` | 4 Punks, 4 traits, 5 acquisitions | 76 thousand |
| stranded | `MCPermanentCollection`, `Stranded.cfg` | as above, 6 acquisitions | violation |
| auction | `MCReturnAuction`, `ReturnAuction.cfg` | 2 Punks, 2 accounts, 3 bid values | 127 thousand |
| protocol | `MCProtocol`, `Protocol.cfg` | 3 Punks, 3 traits, 2 accounts, 3 acquisitions, 2 bid values | 728 thousand |
| live bid | `MCLiveBid`, `LiveBid.cfg` | 1 acquisition, 500 units of ETH, 2 caps, 2 cooldowns | 1.1 million |
| latest bid | `MCLiveBid`, `LatestBid.cfg` | 2 acquisitions | violation |
| title auction | `MCTitle`, `Title.cfg` | 3 bidders, one of them the payee, 5 bid values, 4 events of lag, restarts counted to 2 | 118 thousand |
| indexer | `MCIndexer`, `Indexer.cfg` | 2 Punks, 2 acquisitions, 2 bid values | 234 thousand |
| stale target | `MCIndexer`, `StaleTarget.cfg` | 3 Punks, 3 acquisitions | violation |
| accept-bid flow | `MCAcceptBidFlow`, `AcceptBidFlow.cfg` | 2 Punks, 2 selections and transactions, bids up to 2 | 120 thousand |
| wrong Punk | `MCAcceptBidFlow`, `WrongPunk.cfg` | the same with 3, one Punk returned earlier | violation |
| upkeep | `MCUpkeep`, `Upkeep.cfg` | 650 wei, 2 cooldowns, steps of 300 and 600, partial fills, a timer of 2 | 707 thousand |

**Records core.** `PendingMatchesAuctions`, `OneVaultedPunkPerTrait` and
`LogMatchesCustody` tie together state that is written in different transactions
by different callers. `SoleCarrierNeverWasted` and `RarestPathPreserved` are the
two scarcity promises: the first is that the sole carrier of a trait is acquired
and vaulted for that trait only, the second about the traits that are the rarest
on all of their carriers. `HistoryIsKept` is what no step may do. `RefinesTraitLedger`
is the refinement. The dataset has the four shapes that matter: a sole carrier,
a rare trait, a scarce trait with a carrier of a rarer one, and a common trait.
Five acquisitions are enough for a Punk to be returned and acquired again while
three others are in flight.

**Auction.** `EveryWeiAccounted`: the module's ETH is the standing bids plus the
queued refunds, always, with two auctions sharing the balance.
`RefinesAuctionHouse`: seen by its bidders, the module is the abstract auction
house; what an account owns, is owed and has bid only falls when it wins, and
then by its bid. `BidsCoverCost` is why `premium` cannot underflow.
`TimeToAnswer` is about late bids, `OwnsExactlyOpenPunks` about custody,
`EveryAuctionSettles` about the uncapped extension. Bids are chosen around the
reserve and the 1% increment; the premium of the largest is big enough for the
referrer's share not to round to 0. Two Punks and two bidders make every bidder
outbid, refunded, queued and winning in two auctions at once, and slots reused.

**Protocol.** `ContractsAgree` relates custody, sale, owner and lock of every
Punk; `ProofPerCollectedTrait` the Proofs with the mask and the log;
`ReserveCountsAttempts` the reserve with the attempts at its target, which
holds because `startSale` runs before `recordAcquisition`. `RecordsCore` says
that the composition drives the records core by its own specification, so what
is proved of the core holds in the composition. Three Punks and three
acquisitions make room for a pending target, a shifted target and a
re-acquisition. The larger of the two bids can be afforded after two sales, so
that outbidding and refunds happen here too without all their variety, which the
auction run has. A newly allowed seller is active at once; the delay runs in the
indexer run.

**Live bid.** `BidIsBacked`, `MeteredGrowth`, `BufferFeedsBid`. The unit of ETH
is such that the keeper's reward, the finder's fee and the referrer's share are
at least one unit where they occur.

**Title auction.** `Solvent`: standing bid, queued refunds and queued proceeds
are the contract's ETH to the wei, and it holds the Title while a bid may still
win it (`settle` would revert for ever otherwise). `RefinesAuctionHouse` is the
abstract auction house again: a restart changes nothing a bidder relies on.
`NeverStranded`: an auction whose time is over takes bids again or awards.
`BidEndsInAward`: once there is a bid there is an end. `TablesMirrorTitle`: the
indexer's row and the sums of its refund and proceeds tables are the contract's
state whenever it has caught up, restart counter included. Bids are 1, and
around 5% of 100, where rounding matters.

**Indexer.** `TablesMirrorRecords`: history, latest row of each Punk, trials,
vaulted Punks, Proofs with their owners, allowlist and counters say what the
contracts say. `TablesMirrorAuctions`: so do clock, bid, bidder and outcome of
each auction slot, reused ones included, and the outstanding refunds.
`EveryAcquisitionSettles` is checked here, over the whole composition: no revert
in any of the contracts that `settle` calls can keep an acquisition in flight
for ever. Two acquisitions are two Punks in flight or one re-acquired.

**Accept-bid flow.** `PaidWhatWasReviewed`: whoever finalizes, and whichever
reads, selections and prompts overlapped, a Punk is sold at a price that its
review showed. `DoneMeansSold`: the flow says "sold" only when the market has
bought a Punk that the seller selected in this session, so a listing that
vanished, a failed transaction, or a sale of a Punk he never selected does not make it say
so. With one selection that is the Punk on screen; with several it need not be,
see *wrong Punk* below. `NoPrematureAccept`: the wallet is never asked to accept
a Punk that has not been on offer. `FinalizeIsNoticed`: a sale made by somebody
else is noticed while the Punk stays selected and its listing confirmed. Two
Punks let the answers of one selection arrive in the other. A session starts
with a wallet that batches and nothing listed, or with one that does not and a
listing left by an earlier session. Two selections and transactions are a listing
of this session that somebody else finalizes, one of an earlier session that he
finalizes while an accept is asked for, refused, reverted or lost, or a change of
Punk under lookups, reads and prompts. With three, a prompt of the earlier
selection can be approved too, and a listing accepted or replaced in one session:
with `Spec`, `MaxSteps = 3` and the invariants alone TLC finishes in three minutes
(3.8 million states, no error), but the liveness check does not end in a
reasonable time. The theorems of section 5 have no such bound. The passing run has no returned
Punk, see below.

**Upkeep.** `QueueIsBacked`: through partial fills, pro-rated and refused rewards
the queue is the balance but for forced ETH. `PowerOnlyShrinks`: a lapsed role
moves no parameter behind `checkAdmin` and can only be burned, a burned one opens
no carve-out. `maxStepWei` has one value in this run, so that no setter changes
it is left to the theorem.
`QueueKeepsBurning`: with a keeper whose reads are stale or fail and an admin who
keeps changing the cooldown, queued ETH goes on being burned. The reward of a
step of 300 is 1, that of 600 is the cap 2, and a fill of 300 pays half of it.

**Disagreements with the documentation** (the violation runs; quoted in
`PROJECT.json`, "findings"):

* *A trait can be stranded.* R1 and R3 of `docs/MISSION_PROPERTIES.md` promise
  every trait a reachable path. The canonical-target rule protects only the
  traits that are the rarest on some carrier that remains (`RarestPathPreserved`
  holds and is proved for the traits that are the rarest on all of theirs). A trait whose carriers are
  all spent on other traits while it is pending is lost. In the real dataset
  this takes many acquisitions, and it needs nobody to bid on the Punks in
  question.
* *The threshold does not follow the latest accepted bid*: only the last row of
  the log is read, so an accepted bid followed by a listing before the next
  sweep is never seen; and the listing's row passes for an accepted bid when the
  seller calls `acceptListing` on it himself. One run shows both.
* *An auction's row may name the wrong trait.* The indexer fills in the target
  of a new auction from the acquisition row, which at that moment is still that
  of the Punk's earlier acquisition, and patches it only if there was none. The
  web app computes the pending traits, and the target it offers, from these rows
  (`TablesMirrorAuctions` holds of everything else in the row).
* *A returned Punk is reported as sold.* `alreadyRecorded` is true of every Punk
  that has been acquired before, and the flow takes it for "somebody has just
  accepted".
* *The wrong Punk is reported as sold.* `detectExternalFinalize` does not look,
  when its answer arrives, whether the Punk it asked about is still selected. A
  prompt that is left open by *Change Punk* and approved afterwards does the same
  when its receipt arrives. After a real sale the ETH is there (`DoneMeansSold`),
  but the page names another Punk.

  One run shows both: `ReportsRealSale` asks only that something was sold, or else
  that the Punk named was acquired at some time. The preflight looks up a returned
  Punk, the seller picks another one that nobody has ever acquired, and the
  answer shows that one as "in its 72-hour return auction".

Observations without a run: *Change Punk* stays active after a sale and hides
the claim step, and because `done` is never taken back the picker stays hidden
too until the page is reloaded (`AcceptBidFlow.tsx:1197`); the market balance is read once when
the flow is done and not again when that read fails (`:930`); a batch that is
executed as two transactions can leave a listing the flow does not show
(`:866`); `ProtocolAdmin.sol:19-31` lists the carve-outs without
`LiveBidAdapter.setActivationThreshold` (`LiveBidAdapter.sol:259-267`).

## 4. Fairness

Safety properties need none; the runs that also check liveness assume:

* time passes (`Tick`, `Elapse`, `Block`, `Mined`);
* `settle` is called: it is open to everyone and worth its gas to the winner,
  who gets the Punk, or to the seller, who gets the Proof (`Settle`,
  `EmitSettle`), and so is `sweep`, which pays the keeper;
* an event that was emitted is handled (`Handle`);
* the keeper comes back, and among its rounds there are again and again some
  whose reads all succeed (strong fairness of `KeeperStarts(TRUE)`); its reads,
  evaluation and transaction end;
* the wallet answers its prompt one way or the other, transactions are mined,
  watchers return, and a submitter or a watcher that waits for a lookup gets its
  answer (`AnswerPrompt`, `Mine`, `Watch`, `AnswerWaiting`): a `fetch` answers or
  fails;
* the poll of the flow asks again and again while it is enabled, and its lookups
  do not fail for ever (strong fairness of `PollAsks`, because a prompt suspends
  the poll, and of `Detected`, because a lookup that fails is over and the Punk
  is looked up again 12 seconds later).

In `Indexer`, time and settlers do not wait for the indexer in reality, but the
model makes the next transaction wait for an empty queue; `Elapse` and
`EmitSettle` are strongly fair there to make up for it. In `TitleIndexer` only
the clock waits, and weak fairness is enough because events come from bids,
which are finite, and from settlements.

Nothing else is fair: nobody has to bid, list, withdraw, fund, sign or execute
a step but the keeper. Bids cannot postpone an end for ever because each raises
the last one and money is finite (in the model, `Bids` and `wallet` are).

## 5. What is proved

`PermanentCollectionProofs` proves, for any set of Punks, any number of traits,
any dataset that satisfies `DatasetAssumption` and `SoleCarrierAssumption` and
any number of acquisitions, that `Spec` implies `[]TypeOK`, `[]PendingMatchesAuctions`,
`[]OneVaultedPunkPerTrait`, `[]LogMatchesCustody`, `[]SoleCarrierNeverWasted`,
`[]RarestPathPreserved`, `HistoryIsKept` and `RefinesTraitLedger`. The bound
`MaxAcquisitions` is a parameter of the specification, so the theorems hold for
every value of it.

The properties are not inductive. `PendingMatchesAuctions` counts Punks, and
that the count drops by one when a claim is released needs to know that the
Punk's latest row names the trait it claimed, that this row is still the
latest, and that no other Punk claims the same trait. The invariant `IInv` says
so without cardinalities:

* `IndexInv`: the index of a Punk points to a row of that Punk, with its live
  custody and a target it carries;
* `OldRowsInv`: other rows are older and settled as returned;
* `ClaimInv`: a pending counter is 1 exactly when one Punk is in auction for the
  trait, the trait is not collected, and no two Punks claim the same one;
* `VaultInv`: the collected traits and the vaulted Punks correspond one to one.

Each part has a lemma per action (record, return to market, vault), the step
lemmas combine in `Invariance`, and the properties are read off `IInv`; the
scarcity properties add the step facts that a canonical target is the rarest
eligible one.

`LiveBidProofs` proves, for any inflows, prices, forced amounts, caps, cooldowns,
thresholds and accounts that satisfy `MeterAssumption` and any bounds on ETH and
acquisitions, that `LiveBidSpec` implies `[]LiveBidTypeOK`, `[]BidIsBacked` and
`MeteredGrowth`. The inductive invariant is the type invariant and `BidIsBacked`
together: a purchase needs the bid to be covered to leave the balance a natural
number, and the bid stays covered because forwards and purchases move both by
the same amount. `Fed(threshold)` is what the two forwards have in common; the
lemmas `ThrottledFed` and `FastFed` establish it for the two modes, `SweepFed`
and `StreamFed` for the entry points, with the threshold that each works with
(the one `sweep` has just synced, for `sweep`). Metered growth is then a fact
about each step.

`UpkeepProofs` proves `[]QueueIsBacked` and `PowerOnlyShrinks` for any accounts,
timer, cooldowns, step sizes, reward cap, deposits and fills that satisfy
`BurnerAssumption` and `AdminAssumption`. The invariant adds to `QueueIsBacked`
that the amounts are integers and that a burned role belongs to nobody: without
the first the arithmetic of `StepKeepsBacking` says nothing, without the second
a caller could still pass the carve-outs' raw check after the burn.
`StepKeepsBacking` is the accounting of one step for every fill and for a caller
who takes or refuses the reward; `StepShrinks` goes through the actions.

`ReturnAuctionProofs` proves `[]BidsCoverCost`, `[]OwnsExactlyOpenPunks`,
`TimeToAnswer`, `[]TypeOK`, `[]EveryWeiAccounted` and `RefinesAuctionHouse` for
any Punks, accounts, costs, bids and clocks that satisfy `AuctionAssumption` and
`AddressAssumption`, the last two for finitely many Punks and accounts
(`FiniteAssumption`: a sum over an infinite set is nothing). The invariant is
the two custody properties with the types of slots and owners. `ReserveExceedsCost`
is the arithmetic of the reserve, whatever the rounding; `LeastBid` says that the
minimum bid reaches the reserve and beats the standing bid; `ClockAfterBid` that
a bid leaves the others time. `MoneyTypes` completes the types, `Shares` says that the
parts of a hammer price are natural numbers that add up to it, and the
accounting has one lemma per action on top. For the refinement, an acquisition is an
`Offer`, a bid a `Raise`, the two settlements are the lot's two ways out, and a
withdrawal, the sale of a Punk and time are stutters, because what an account
owns, is owed and has bid is one number per account that they do not change.

Sums are those of the community modules, `SumFunction`. The library's induction
cannot be used, so `Lemmas` shows what it needs of them by a smallest
counterexample: among the subsets of a finite set that violate a claim there is
one that contains no other (`Least`). From this: the recursive definition has a
value (`FoldExists`), the elements may be added in any order (`AnyOrder`), and
changing one entry of a ledger changes its sum by the difference (`SumPut`,
`SumPlus`, `SumMinus`).

`ProtocolProofs` proves seven facts about the composition, for any dataset,
accounts, prices, bids and clocks that satisfy `ProtocolAssumption` and
`AddressAssumption`, and, where they are used, the assumptions of the components
(`CoreAssumption`, `AuctionAssumption`), that Punks and accounts are finite
(`FiniteAssumption`) and that the absence of a Proof is not a Proof
(`NoProofAssumption`). TLC evaluates all of them in the protocol run.

* `Spec => RecordsCore`: every purchase is a `Record` of the core, every
  settlement a `Mark`, everything else a stutter.
* `CoreHolds`: with it, and with the theorems of `PermanentCollectionProofs`
  taken through an instance of that module, the composition keeps the core's
  three state properties.
* `AuctionsHold`: the same for the auctions' two; their invariant is carried
  through the composition's steps by the lemmas of `ReturnAuctionProofs`, one
  per action.
* `[]ContractsAgree`: its invariant adds to the property the shapes of slots,
  rows, owners and custody, and that the latest row of a Punk in auction exists;
  without it an appended or marked row could be taken for another.
* `[]ReserveCountsAttempts`: the invariant adds `Claims`, that an open auction
  holds a claim on its target and no two auctions hold one on the same; without
  it an attempt at the target could raise the count under an open auction.
  `RoundsUp` is the arithmetic.
* `[]ProofPerCollectedTrait`: inductive with the core's own invariant and
  `ContractsAgree`. A settlement collects the target of an open auction,
  which is not collected yet, so the mint finds the token free, and the row it reads
  the seller from is the latest of that Punk; later purchases and marks do not
  rewrite the row of a vaulted Punk.
* `[]TypeOK`, which puts the components' types together.

The same module proves, under the same assumptions and `RowAssumption` (an absent
row is not a row), three facts about the cycle with an indexer beside it:

* `IndexedSpec => Spec`: every emitting action contains the action of the cycle
  that emits, and handlers touch no contract. So all the invariants above hold
  of what the indexer follows, and its own invariant leans on them.
* `[]TablesMirrorRecords` and `[]TablesMirrorAuctions`. They speak of an empty
  queue only and are far from inductive. The invariant `Ahead` says in nine parts
  what they mean while events wait: each table is the contracts' state but for
  the events of its kind in the queue. `LogAhead` and `RowsAgree` are the history
  and the latest rows, `AuctionAhead` the auction rows, `TrialsAhead`,
  `VaultedAhead`, `ProofsAhead`, `CountersAhead`, `SellersAhead` and `RefundsAhead`
  the others. `Queued` adds that a transaction emits at most one event of a kind,
  and an acquisition before the custody it begins, so that the event a handler
  takes is all that its tables lack. Each handler has a lemma for each part it
  writes (`RecordTaken`, `OutcomeTaken`, `StartTaken`, `BidTaken` ...), each
  transaction one for all its events together (`AcceptEmits`, `BidEmits`,
  `ClearedEmits`, `UnsoldEmits` ...); where neither touches what a part is about,
  `Frames` and `EmitFrames` say that it stands. What the handlers read in the
  tables rather than in the event is where the contracts' invariants are needed:
  the row that an outcome closes is the Punk's live row because of the core's
  index, and a settled slot's row is not the one that a second auction opens.

`TitleProofs` proves `[]TypeOK`, `[]Solvent` and `RefinesAuctionHouse` of the
Title auction for any finite set of accounts, any bids, wallets and clock that
satisfy `TitleAssumption`. `Consistent` adds to the types what relates the
bidder, the bid and the Title's holder; `Refunded` is what the three ways of a
bid have in common, and the rest is arithmetic on sums. For the indexer it
proves that `IndexedSpec` implements `Spec` and `[]TablesMirrorTitle`, for any
lag. The invariant `Mirrored` looks ahead: whatever is in the queue, handling it
leads from the tables as they are to tables that show the contract. A
transaction appends events that lead from tables that show the contract before
it to tables that show it after; a handler takes the first step of the path.
That a queue *leads* from one state of the tables to another (`Leads`) is
witnessed by the list of the states in between, so that appending and taking
away are facts about lists and no induction over the queue is needed.

`AcceptBidFlowProofs` proves the three safety properties of the seller's flow
for any Punks, prices and numbers of selections and transactions that satisfy
`FlowAssumption`. Most of the proof is the invariant, in parts that TLC checked
on the instance of the run before they were proved: `Shapes`, the types;
`Carried`, that every price on its way to the market, in the modal, in a prompt,
in the pool or on offer, was shown by a review; `Simulations`, that a Punk whose
accept is simulated, ready or asked for has been on offer; `Hashes`, that a hash
belongs to one transaction and the receipt of a successful accept to one that
paid for a Punk of the session; `Recorded`, that a Punk the flow takes for recorded was paid for; `Picked`, with `Calls`,
that every Punk on screen, in a prompt, in a transaction or in a lookup in
flight was selected at some time in the session. `DoneMeansSold` is proved under the
hypothesis that no Punk was acquired in an earlier session (`Returned = {}`),
and speaks of a selected Punk, not of the one on screen; the violation run *wrong
Punk* shows that both are needed.

Only model-checked: liveness, which is out of the provers' reach. Every
invariant and every action property of the passing runs is a theorem.

## 6. Not modelled

See "components" in `PROJECT.json`. The renderers build strings; the pages of the
web app other than the seller's flow read and render, or send one transaction;
`ReferralPayout` and the fee phase adapter have one balance or one branch each
and depend on the external hook and token; the gates of the renderer registry
and the token poker are one guarded assignment; the reentrancy guards are what
makes one entry point one action; the market, the Uniswap pool and hook and the
token are external and appear as the contracts use them. Casts to `uint128` and
`uint16` are not modelled: they would need more ETH, or more acquisitions in
flight, than exist. Of the indexer, the activity tables that nothing reads back
and the Homage, swap and referral events are left out; block reorganisations are
handled by the framework.

## 7. Plan

The order the modules were written in, and what is left:

1. `TraitLedger`, `PermanentCollection` and its proofs (done).
2. `ReturnAuction`, `PunkVault`, `Patron`, `Protocol` (done).
3. `LiveBid` and its proofs (done).
4. `AuctionHouse`, refined by `ReturnAuction` and `TitleAuction` (done).
5. `TitleAuction` with the Title token, `TitleIndexer` (done).
6. `Indexer` over `Protocol` (done).
7. `AcceptBidFlow` (done).
8. `ProtocolAdmin`, `BuybackBurner`, `Upkeep` and its proofs (done).
9. Proofs about `ReturnAuction`, `Protocol`, `Indexer`, `TitleAuction`,
   `TitleIndexer` and `AcceptBidFlow` (done).
10. `poolReplenish` from the settlements instead of free inflows in `LiveBid`;
    `ReferralPayout`; the other targets of the keeper.
