----------------------------- MODULE MCProtocol -----------------------------
(***************************************************************************)
(* Three Punks and three traits: a sole carrier (p1, bit 2), a rare trait   *)
(* with one more carrier than auctions can hold (bit 1) and a common one.   *)
(***************************************************************************)
EXTENDS Protocol

CONSTANTS p1, p2, p3, alice, bob

MCCarries ==
    [p \in {p1, p2, p3} |-> CASE p = p1 -> {0, 2}
                              [] p = p2 -> {0, 1}
                              [] p = p3 -> {0, 1}]

MCCarrierCount ==
    [t \in 0 .. 2 |-> Cardinality({p \in DOMAIN MCCarries : t \in MCCarries[p]})]
=============================================================================
