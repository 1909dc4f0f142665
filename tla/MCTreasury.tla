----------------------------- MODULE MCTreasury -----------------------------
(* Treasury for TLC. *)
EXTENDS Treasury, TLC
=============================================================================
