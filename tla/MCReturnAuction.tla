-------------------------- MODULE MCReturnAuction --------------------------
(***************************************************************************)
(* Two Punks and two accounts, each of which may own, bid and refer.        *)
(***************************************************************************)
EXTENDS ReturnAuction

CONSTANTS alice, bob, p1, p2
=============================================================================
