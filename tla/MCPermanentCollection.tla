----------------------- MODULE MCPermanentCollection -----------------------
(***************************************************************************)
(* A dataset of four Punks and four traits in the shape of the real one:    *)
(* a trait with a single carrier (bit 2, like "7 Attributes"), a rare trait *)
(* whose carriers hold nothing rarer (bit 1, like "Alien"), a scarce trait  *)
(* one carrier of which also holds a rarer one (bit 3, like "Choker", whose *)
(* carrier #2202 also has "6 Attributes") and a common trait (bit 0).       *)
(***************************************************************************)
EXTENDS PermanentCollection

CONSTANTS p1, p2, p3, p4

MCCarries ==
    [p \in {p1, p2, p3, p4} |->
        CASE p = p1 -> {0, 2}
          [] p = p2 -> {0, 1}
          [] p = p3 -> {0, 1, 3}
          [] p = p4 -> {0, 3}]

MCCarrierCount ==
    [t \in 0 .. 3 |-> Cardinality({p \in DOMAIN MCCarries : t \in MCCarries[p]})]
=============================================================================
