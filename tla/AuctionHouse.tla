---------------------------- MODULE AuctionHouse ----------------------------
(***************************************************************************)
(* What an auction contract promises its bidders, whatever its clock, its   *)
(* refunds and its splits are: lots go to whoever leads when they close,    *)
(* for exactly the leading bid; a bid must beat the last one; and nothing   *)
(* else ever costs an account anything.                                     *)
(*                                                                          *)
(* claim[a] is all that account a owns, is owed and has standing as bids.   *)
(* ReturnAuction and TitleAuction implement this specification.             *)
(***************************************************************************)
EXTENDS Integers, Functions

CONSTANTS
    Lots,
    Accounts,
    NoAccount   \* stands for "nobody leads"

VARIABLES
    open,       \* the lots that take bids or wait to be closed
    leader,     \* leader[l]: who leads on an open lot
    high,       \* high[l]: the leading bid, 0 without one
    holder,     \* holder[l]: the owner of the lot, or who is to get it first
    claim

vars == <<open, leader, high, holder, claim>>

Init ==
    /\ open = {}
    /\ leader = [l \in Lots |-> NoAccount]
    /\ high = [l \in Lots |-> 0]

\* A lot is handed in and opened for bids.
Offer(l) ==
    /\ l \notin open
    /\ open' = open \cup {l}
    /\ \A m \in Lots \ {l} : holder'[m] = holder[m]
    /\ UNCHANGED <<leader, high, claim>>

\* The new leader can cover its bid; the old one has its own back.
Raise(l, a, value) ==
    /\ l \in open
    /\ value > high[l] /\ value <= claim[a]
    /\ leader' = [leader EXCEPT ![l] = a]
    /\ high' = [high EXCEPT ![l] = value]
    /\ UNCHANGED <<open, holder, claim>>

\* What a winner pays may come back to accounts (a referrer's cut, the payee's
\* proceeds), and no more than that.
Sell(l) ==
    /\ l \in open /\ leader[l] # NoAccount
    /\ open' = open \ {l}
    /\ holder' = [holder EXCEPT ![l] = leader[l]]
    /\ \A a \in Accounts :
          claim'[a] >= claim[a] - (IF a = leader[l] THEN high[l] ELSE 0)
    /\ SumFunction(claim') <= SumFunction(claim)
    /\ leader' = [leader EXCEPT ![l] = NoAccount]
    /\ high' = [high EXCEPT ![l] = 0]

\* A lot without a bid is taken away.
PassIn(l) ==
    /\ l \in open /\ leader[l] = NoAccount
    /\ open' = open \ {l}
    /\ \A m \in Lots \ {l} : holder'[m] = holder[m]
    /\ UNCHANGED <<leader, high, claim>>

Next ==
    \E l \in Lots :
        \/ Offer(l)
        \/ \E a \in Accounts : Raise(l, a, high'[l])
        \/ Sell(l)
        \/ PassIn(l)

Spec == Init /\ [][Next]_vars
=============================================================================
