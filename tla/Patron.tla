------------------------------- MODULE Patron -------------------------------
(***************************************************************************)
(* The acquisition hub (contracts/src/Patron.sol): the live bid it holds,   *)
(* the allowlist of public sellers, and the checks its two entry points     *)
(* make before a Punk is bought.  What a purchase does to the other         *)
(* contracts is in Protocol.                                                *)
(*                                                                          *)
(* activeIn[a] is what is left of the allowlist delay of seller a           *)
(* (allowedSellerActiveAt relative to now).                                 *)
(***************************************************************************)
EXTENDS Integers

CONSTANTS
    Accounts,
    MinBidForListing,   \* MIN_BID_FOR_LISTING, 0.5 ETH
    FinderFeeFixedCap,  \* finderFeeFixedCap, 0.01 ETH
    AllowlistDelay      \* ALLOWLIST_DELAY, 24 hours

FinderFeeCapBps == 50
BpsDenom == 10000

VARIABLES
    accountedLiveBidWei,    \* the live bid: what the adapter delivered
    patronEth,              \* the ETH held, forced transfers included
    allowedSellers,
    activeIn

vars == <<accountedLiveBidWei, patronEth, allowedSellers, activeIn>>

TypeOK ==
    /\ accountedLiveBidWei \in Nat
    /\ patronEth \in Nat
    /\ allowedSellers \subseteq Accounts
    /\ activeIn \in [Accounts -> Nat]

Init ==
    /\ accountedLiveBidWei = 0
    /\ patronEth = 0
    /\ allowedSellers = {}
    /\ activeIn = [a \in Accounts |-> 0]

\* receive(): only the adapter, and only what it sends is part of the bid.
Receive(value) ==
    /\ accountedLiveBidWei' = accountedLiveBidWei + value
    /\ patronEth' = patronEth + value

\* An acquisition debits the bid and the balance alike.
PayOut(value) ==
    /\ accountedLiveBidWei >= value
    /\ accountedLiveBidWei' = accountedLiveBidWei - value
    /\ patronEth >= value
    /\ patronEth' = patronEth - value

\* ETH forced in bypasses receive() ...
ForceEth(value) ==
    /\ patronEth' = patronEth + value
    /\ UNCHANGED accountedLiveBidWei

\* ... and skimSurplus() takes it out again, to the adapter.
Surplus == patronEth - accountedLiveBidWei

\* Mutant: the whole balance is skimmed.
SkimSurplus_All ==
    /\ Surplus > 0
    /\ patronEth' = 0
    /\ UNCHANGED accountedLiveBidWei

SkimSurplus ==
    /\ Surplus > 0
    /\ patronEth' = accountedLiveBidWei
    /\ UNCHANGED accountedLiveBidWei

-----------------------------------------------------------------------------
\* acceptBid: the Punk is listed to this contract alone, at price.
BidChecks(price, expected) ==
    /\ price > 0
    /\ price <= accountedLiveBidWei
    /\ price <= expected

FinderFee ==
    LET share == (accountedLiveBidWei * FinderFeeCapBps) \div BpsDenom
    IN  IF share > FinderFeeFixedCap THEN FinderFeeFixedCap ELSE share

\* acceptListing: the Punk is listed publicly at price by an allowed seller.
ListingChecks(price, seller) ==
    /\ accountedLiveBidWei >= MinBidForListing
    /\ seller \in allowedSellers
    /\ activeIn[seller] = 0
    /\ price > 0
    /\ price + FinderFee <= accountedLiveBidWei

AddAllowedSeller(a) ==
    /\ a \notin allowedSellers
    /\ allowedSellers' = allowedSellers \cup {a}
    /\ activeIn' = [activeIn EXCEPT ![a] = AllowlistDelay]
    /\ UNCHANGED <<accountedLiveBidWei, patronEth>>

RemoveAllowedSeller(a) ==
    /\ a \in allowedSellers
    /\ allowedSellers' = allowedSellers \ {a}
    /\ activeIn' = [activeIn EXCEPT ![a] = 0]
    /\ UNCHANGED <<accountedLiveBidWei, patronEth>>

Elapse ==
    /\ activeIn' = [a \in Accounts |-> IF activeIn[a] > 0 THEN activeIn[a] - 1 ELSE 0]
    /\ UNCHANGED <<accountedLiveBidWei, patronEth, allowedSellers>>
=============================================================================
