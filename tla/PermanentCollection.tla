------------------------ MODULE PermanentCollection ------------------------
(***************************************************************************)
(* The records core (contracts/src/PermanentCollection.sol).  It owns no    *)
(* Punk and no ETH: it keeps the completion mask, the pending and attempt   *)
(* counters of every trait, the custody of every Punk and the append-only   *)
(* log of acquisitions.  Two callers change it: Patron records an           *)
(* acquisition, ReturnAuctionModule marks how its auction ended.            *)
(*                                                                          *)
(* As a specification of its own, this module lets those two callers pass   *)
(* any argument in any order, which is all the core may rely on.  Protocol  *)
(* conjoins the two operations with the callers' own code.                  *)
(***************************************************************************)
EXTENDS Integers, Sequences, FiniteSets

CONSTANTS
    Punks,              \* the Punks of the sealed PunksData dataset
    TraitCount,         \* 111 in the code
    Carries,            \* Carries[p]: the trait mask of Punk p, as a set
    CarrierCount,       \* CarrierCount[t]: the pinned rarity table
    SolePunk,           \* #8348, the only carrier of SoleTrait
    SoleTrait,          \* bit 23, "7 Attributes"
    Accounts,           \* addresses that acquire and sell
    Prices,             \* the prices an acquisition may record
    NoPunk,             \* stands for "no Punk"
    MaxAcquisitions     \* bound on the length of the log (model checking only)

Traits == 0 .. TraitCount - 1

ASSUME DatasetAssumption ==
    /\ TraitCount \in Nat \ {0}
    /\ Carries \in [Punks -> SUBSET Traits]
    /\ CarrierCount \in [Traits -> Nat]
    /\ NoPunk \notin Punks

\* PunksData carries SoleTrait on exactly one Punk.
ASSUME SoleCarrierAssumption ==
    /\ SolePunk \in Punks
    /\ SoleTrait \in Traits
    /\ \A p \in Punks : SoleTrait \in Carries[p] <=> p = SolePunk

VARIABLES
    collectedMask,      \* the traits permanently in the collection
    pendingTraitCount,  \* pendingTraitCount[t]: Punks in auction for trait t
    attemptCount,       \* attemptCount[t]: acquisitions ever made for trait t
    acquisitions,       \* the log, one row per acquisition
    acquisitionIndexOf, \* the 1-based row of a Punk's latest acquisition, or 0
    custody,            \* where each Punk is in its lifecycle
    firstVaulted        \* firstVaulted[t]: the Punk that brought in trait t

vars == <<collectedMask, pendingTraitCount, attemptCount, acquisitions,
          acquisitionIndexOf, custody, firstVaulted>>

Custody == {"None", "InReturnAuction", "ReturnedToMarket", "Vaulted"}

Acquisition == [punk : Punks, target : Traits, acquirer : Accounts,
                seller : Accounts, price : Prices, custody : Custody]

TypeOK ==
    /\ collectedMask \subseteq Traits
    /\ pendingTraitCount \in [Traits -> Nat]
    /\ attemptCount \in [Traits -> Nat]
    /\ acquisitions \in Seq(Acquisition)
    /\ acquisitionIndexOf \in [Punks -> Nat]
    /\ custody \in [Punks -> Custody]
    /\ firstVaulted \in [Traits -> Punks \cup {NoPunk}]

Init ==
    /\ collectedMask = {}
    /\ pendingTraitCount = [t \in Traits |-> 0]
    /\ attemptCount = [t \in Traits |-> 0]
    /\ acquisitions = << >>
    /\ acquisitionIndexOf = [p \in Punks |-> 0]
    /\ custody = [p \in Punks |-> "None"]
    /\ firstVaulted = [t \in Traits |-> NoPunk]

-----------------------------------------------------------------------------
(***************************************************************************)
(* The canonical target of a Punk: the rarest trait it carries that is      *)
(* neither collected nor claimed by another auction, ties to the lowest bit. *)
(***************************************************************************)
EligibleTraits(p) ==
    {t \in Carries[p] : t \notin collectedMask /\ pendingTraitCount[t] = 0}

\* Trait t comes before trait u in the scan of canonicalTargetOf.
Rarer(t, u) ==
    \/ CarrierCount[t] < CarrierCount[u]
    \/ CarrierCount[t] = CarrierCount[u] /\ t < u

\* Mutant: any eligible trait may be targeted.
IsCanonicalTarget_AnyEligible(p, t) == t \in EligibleTraits(p)

IsCanonicalTarget(p, t) ==
    /\ t \in EligibleTraits(p)
    /\ \A u \in EligibleTraits(p) \ {t} : Rarer(t, u)

\* Mutants: the custody gate forgets one of the two states it must refuse.
Acquirable_Vaulted(p) == custody[p] # "InReturnAuction"
Acquirable_Live(p) == custody[p] # "Vaulted"

\* A Punk may be acquired when no auction of it is live and it is not vaulted.
Acquirable(p) == custody[p] \in {"None", "ReturnedToMarket"}

\* While SoleTrait is uncollected its only carrier may target nothing else.
SoleCarrierGuard(p, t) ==
    p = SolePunk /\ SoleTrait \notin collectedMask => t = SoleTrait

\* Mutants: the caller chooses its target freely; two auctions may race for the
\* same trait.
TargetGuard_FreeChoice(p, t) ==
    t \in Carries[p] /\ t \notin collectedMask /\ pendingTraitCount[t] = 0
TargetGuard_NoPendingCheck(p, t) ==
    /\ t \in Carries[p] /\ t \notin collectedMask
    /\ SoleCarrierGuard(p, t)
    /\ \A u \in Carries[p] \ (collectedMask \cup {t}) : Rarer(t, u)

\* The trait checks of recordAcquisition, in the order of the code.
TargetGuard(p, t) ==
    /\ t \in Carries[p]
    /\ t \notin collectedMask
    /\ SoleCarrierGuard(p, t)
    /\ pendingTraitCount[t] = 0
    /\ IsCanonicalTarget(p, t)

RecordAcquisition(p, t, acquirer, seller, price) ==
    /\ Acquirable(p)
    /\ TargetGuard(p, t)
    /\ pendingTraitCount' = [pendingTraitCount EXCEPT ![t] = @ + 1]
    /\ attemptCount' = [attemptCount EXCEPT ![t] = @ + 1]
    /\ acquisitions' = Append(acquisitions,
            [punk |-> p, target |-> t, acquirer |-> acquirer,
             seller |-> seller, price |-> price, custody |-> "InReturnAuction"])
    /\ acquisitionIndexOf' = [acquisitionIndexOf EXCEPT ![p] = Len(acquisitions')]
    /\ custody' = [custody EXCEPT ![p] = "InReturnAuction"]
    /\ UNCHANGED <<collectedMask, firstVaulted>>

-----------------------------------------------------------------------------
\* The latest row of a recorded Punk.
RowOf(p) == acquisitions[acquisitionIndexOf[p]]
TargetOf(p) == RowOf(p).target

\* Mutant: the finder is taken for the seller.
OriginalSellerOf_Finder(p) == RowOf(p).acquirer

OriginalSellerOf(p) == RowOf(p).seller

\* Mutant: the vault outcome collects every trait of the Punk's mask.
Collect_WholeMask(p, outcome) ==
    IF outcome = "Vaulted"
    THEN /\ collectedMask' = collectedMask \cup Carries[p]
         /\ firstVaulted' = [firstVaulted EXCEPT ![TargetOf(p)] = p]
    ELSE UNCHANGED <<collectedMask, firstVaulted>>

\* The vault outcome collects the recorded target, once.
Collect(p, outcome) ==
    IF outcome = "Vaulted" /\ TargetOf(p) \notin collectedMask
    THEN /\ collectedMask' = collectedMask \cup {TargetOf(p)}
         /\ firstVaulted' = [firstVaulted EXCEPT ![TargetOf(p)] = p]
    ELSE UNCHANGED <<collectedMask, firstVaulted>>

\* Mutants: the claim is given back twice, or never.
ReleaseClaim_Twice(t) == pendingTraitCount' = [pendingTraitCount EXCEPT ![t] = @ - 2]
ReleaseClaim_Never(t) == UNCHANGED pendingTraitCount

\* The one claim the acquisition made on its target is given back.
ReleaseClaim(t) ==
    pendingTraitCount' =
        [pendingTraitCount EXCEPT ![t] = IF @ > 0 THEN @ - 1 ELSE @]

MarkCustody(p, outcome) ==
    /\ acquisitionIndexOf[p] # 0
    /\ custody[p] = "InReturnAuction"
    /\ outcome \in {"ReturnedToMarket", "Vaulted"}
    /\ ReleaseClaim(TargetOf(p))
    /\ custody' = [custody EXCEPT ![p] = outcome]
    /\ acquisitions' =
            [acquisitions EXCEPT ![acquisitionIndexOf[p]].custody = outcome]
    /\ Collect(p, outcome)
    /\ UNCHANGED <<attemptCount, acquisitionIndexOf>>

Record ==
    /\ Len(acquisitions) < MaxAcquisitions
    /\ \E p \in Punks, t \in Traits, acquirer, seller \in Accounts, price \in Prices :
            RecordAcquisition(p, t, acquirer, seller, price)

Mark == \E p \in Punks, outcome \in Custody : MarkCustody(p, outcome)

Next == Record \/ Mark

Spec == Init /\ [][Next]_vars

-----------------------------------------------------------------------------
(***************************************************************************)
(* Properties.                                                              *)
(***************************************************************************)
InAuctionFor(t) ==
    {p \in Punks : custody[p] = "InReturnAuction" /\ TargetOf(p) = t}
VaultedFor(t) ==
    {p \in Punks : custody[p] = "Vaulted" /\ TargetOf(p) = t}

\* A trait's pending counter is exactly the number of Punks in auction for it,
\* which is at most one, and a collected trait is never pending (SYSTEM.md
\* invariant 16): the claim taken at recordAcquisition is given back exactly
\* once, whatever the order of acquisitions and settlements.
PendingMatchesAuctions ==
    \A t \in Traits :
        /\ pendingTraitCount[t] = Cardinality(InAuctionFor(t))
        /\ pendingTraitCount[t] <= 1
        /\ t \in collectedMask => pendingTraitCount[t] = 0

\* A collected trait was brought in by exactly one vaulted Punk, the one
\* firstVaultedPunk names, and an uncollected trait by none: a Punk is never
\* locked for ever without adding a trait to the collection.
OneVaultedPunkPerTrait ==
    \A t \in Traits :
        IF t \in collectedMask
        THEN VaultedFor(t) = {firstVaulted[t]}
        ELSE VaultedFor(t) = {} /\ firstVaulted[t] = NoPunk

\* The log agrees with the custody map: a Punk's latest row holds its live
\* custody, its older rows are frozen at ReturnedToMarket.
LogMatchesCustody ==
    /\ \A p \in Punks : acquisitionIndexOf[p] = 0 <=> custody[p] = "None"
    /\ \A i \in DOMAIN acquisitions :
          LET row == acquisitions[i]
          IN  IF acquisitionIndexOf[row.punk] = i
              THEN row.custody = custody[row.punk]
              ELSE /\ i < acquisitionIndexOf[row.punk]
                   /\ row.custody = "ReturnedToMarket"

\* The unique carrier of SoleTrait is in auction and vaulted for SoleTrait only,
\* and locking it collects SoleTrait (SYSTEM.md invariant 22): no settlement
\* strands the last trait of the set.
SoleCarrierNeverWasted ==
    /\ custody[SolePunk] \in {"InReturnAuction", "Vaulted"}
          => TargetOf(SolePunk) = SoleTrait
    /\ custody[SolePunk] = "Vaulted" => SoleTrait \in collectedMask

\* A trait that every one of its carriers holds as its rarest.
LocallyRarest(t) ==
    \A p \in Punks : t \in Carries[p] => \A u \in Carries[p] \ {t} : Rarer(t, u)

\* A carrier that is still able to collect trait t: it is outside, or its
\* live auction is for t.
OpenPath(p, t) ==
    /\ t \in Carries[p]
    /\ \/ Acquirable(p)
       \/ custody[p] = "InReturnAuction" /\ TargetOf(p) = t

\* MISSION_PROPERTIES.md R3 for the traits the rarity rule protects: while
\* such a trait is uncollected, some carrier of it can still collect it.
RarestPathPreserved ==
    \A t \in Traits :
        LocallyRarest(t) /\ t \notin collectedMask /\ (\E p \in Punks : t \in Carries[p])
            => \E p \in Punks : OpenPath(p, t)

\* MISSION_PROPERTIES.md R1 and R3 as they are written, for every trait: no
\* uncollected trait loses its last carrier to the vault (not so in the code).
NoTraitStranded ==
    \A t \in Traits :
        t \notin collectedMask /\ (\E p \in Punks : t \in Carries[p])
            => \E p \in Punks : t \in Carries[p] /\ custody[p] # "Vaulted"

\* Vaulted is terminal, the collection only grows, no attempt count falls, and
\* history is never rewritten: a row keeps its fields for ever, and its custody moves once, from
\* InReturnAuction to an outcome.
HistoryIsKept ==
    [][ /\ collectedMask \subseteq collectedMask'
        /\ \A t \in Traits : attemptCount[t] <= attemptCount'[t]
        /\ \A p \in Punks : custody[p] = "Vaulted" => custody'[p] = "Vaulted"
        /\ Len(acquisitions) <= Len(acquisitions')
        /\ \A i \in DOMAIN acquisitions :
              \/ acquisitions'[i] = acquisitions[i]
              \/ /\ acquisitions[i].custody = "InReturnAuction"
                 /\ \E c \in {"ReturnedToMarket", "Vaulted"} :
                       acquisitions'[i] = [acquisitions[i] EXCEPT !.custody = c]
      ]_vars

-----------------------------------------------------------------------------
(***************************************************************************)
(* The refinement of TraitLedger.                                           *)
(***************************************************************************)
PhaseOf(t) ==
    IF t \in collectedMask THEN "collected"
    ELSE IF pendingTraitCount[t] > 0 THEN "pending" ELSE "open"

\* The Punk behind a trait: the one in auction for it, or the one vaulted.
BehindTrait(t) ==
    IF InAuctionFor(t) # {} THEN CHOOSE p \in InAuctionFor(t) : TRUE
    ELSE firstVaulted[t]

Ledger == INSTANCE TraitLedger WITH
    phase <- [t \in Traits |-> PhaseOf(t)],
    by <- [t \in Traits |-> BehindTrait(t)]

\* The records core implements the abstract ledger of traits.
RefinesTraitLedger == Ledger!Spec
=============================================================================
