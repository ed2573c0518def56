---------------------------- MODULE MCAcceptBidFlow ----------------------------
(* A wallet with two Punks.  Either it batches calls and nothing is listed *)
(* when the session starts, or it signs one call at a time and p2 is       *)
(* listed already, at price 1.                                             *)
EXTENDS AcceptBidFlow

CONSTANTS p1, p2

Unlisted == [p \in Punks |-> 0]

MCSessions ==
    {[atomic |-> TRUE, offer |-> Unlisted],
     [atomic |-> FALSE, offer |-> [Unlisted EXCEPT ![p2] = 1]]}

=============================================================================
