------------------------------- MODULE MCUpkeep -------------------------------
(* Steps of 300 and 600 wei: the reward is 1, or the cap of 2, and a swap  *)
(* that stops at 300 of 598 pays half of it.                               *)
EXTENDS Upkeep

CONSTANTS a, b, s

=============================================================================
