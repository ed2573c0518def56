----------------------------- MODULE MCLiveBid -----------------------------
(***************************************************************************)
(* The unit of ETH stands for no particular number of wei: the amounts are  *)
(* large enough for the 0.5% reward and the finder's fee not to be zero.    *)
(***************************************************************************)
EXTENDS LiveBid

CONSTANTS seller, finder
=============================================================================
