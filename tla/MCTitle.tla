------------------------------ MODULE MCTitle ------------------------------
(***************************************************************************)
(* Three bidders, one of them also the payout recipient.                      *)
(***************************************************************************)
EXTENDS TitleIndexer

CONSTANTS alice, bob, carol
=============================================================================
