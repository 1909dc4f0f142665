----------------------------- MODULE MCLauncher -----------------------------
(* Launcher for TLC: the clocks, the stats, and one file that accumulates. *)
EXTENDS Launcher, TLC

CONSTANTS a, b

FileList == <<"loyalty_state.json", "stats.json", "sol_pool.json">>
=============================================================================
