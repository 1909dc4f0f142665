---------------------------- MODULE MCTickInputs ----------------------------
(* TickInputs for TLC. *)
EXTENDS TickInputs, TLC

CONSTANTS p, q, u, v
=============================================================================
