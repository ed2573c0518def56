---------------------------- MODULE TraitLedger ----------------------------
(***************************************************************************)
(* What the records core of the protocol promises, without custody slots,  *)
(* logs or counters: every trait is open, claimed by one Punk that carries  *)
(* it, or collected for ever by the Punk that held the claim.  A Punk is    *)
(* never behind two traits.                                                 *)
(*                                                                          *)
(* PermanentCollection implements this specification.                       *)
(***************************************************************************)
CONSTANTS
    Punks,      \* the Punks of the sealed dataset
    Traits,     \* the traits of the dataset
    Carries,    \* Carries[p]: the traits on the mask of Punk p
    NoPunk      \* stands for "no Punk"

VARIABLES
    phase,      \* phase[t]: "open", "pending" or "collected"
    by          \* by[t]: the Punk that claims or has collected trait t

vars == <<phase, by>>

TypeOK ==
    /\ phase \in [Traits -> {"open", "pending", "collected"}]
    /\ by \in [Traits -> Punks \cup {NoPunk}]

Init ==
    /\ phase = [t \in Traits |-> "open"]
    /\ by = [t \in Traits |-> NoPunk]

\* An acquisition of Punk p takes the claim on a trait nobody holds.
Claim(p, t) ==
    /\ phase[t] = "open"
    /\ t \in Carries[p]
    /\ \A u \in Traits : by[u] # p
    /\ phase' = [phase EXCEPT ![t] = "pending"]
    /\ by' = [by EXCEPT ![t] = p]

\* The return auction of the claiming Punk finds a buyer.
Release(t) ==
    /\ phase[t] = "pending"
    /\ phase' = [phase EXCEPT ![t] = "open"]
    /\ by' = [by EXCEPT ![t] = NoPunk]

\* The return auction of the claiming Punk ends without a bid.
Collect(t) ==
    /\ phase[t] = "pending"
    /\ phase' = [phase EXCEPT ![t] = "collected"]
    /\ UNCHANGED by

Next ==
    \E t \in Traits :
        \/ \E p \in Punks : Claim(p, t)
        \/ Release(t)
        \/ Collect(t)

Spec == Init /\ [][Next]_vars
=============================================================================
