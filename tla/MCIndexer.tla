----------------------------- MODULE MCIndexer -----------------------------
(***************************************************************************)
(* The dataset of MCProtocol, for any of its Punks: a sole carrier (p1) and *)
(* two Punks with a rare and a common trait.                                *)
(***************************************************************************)
EXTENDS Indexer

CONSTANTS p1, p2, p3, alice, bob

MCCarries ==
    [p \in Punks |-> IF p = p1 THEN {0, 2} ELSE {0, 1}]

MCCarrierCount ==
    [t \in 0 .. 2 |-> CASE t = 0 -> 3 [] t = 1 -> 2 [] t = 2 -> 1]
=============================================================================
