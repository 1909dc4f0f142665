----------------------------- MODULE MCPayouts -----------------------------
(* Payouts for TLC: three recipients, a tie, and one that weighs nothing. *)
EXTENDS Payouts, TLC

CONSTANTS a, b, c

WeightMaps == {a :> 2 @@ b :> 1 @@ c :> 1, a :> 1 @@ b :> 3 @@ c :> 0}
=============================================================================
