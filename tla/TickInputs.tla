----------------------------- MODULE TickInputs -----------------------------
(***************************************************************************)
(* What a tick asks of other services besides balances: the posters of the *)
(* community (TaskFeeds) and the programs of the holders (PoolExclusion).  *)
(* tick() asks one after the other, and they share no variable: each moves *)
(* here while the other is in an initial state, which loses no state of    *)
(* either.                                                                 *)
(***************************************************************************)
EXTENDS PoolExclusion, TaskFeeds

InputsNext ==
    \/ FeedInit /\ Next /\ UNCHANGED feedVars
    \/ Init /\ Programs = Owners /\ FeedNext /\ UNCHANGED vars

InputsInit == Init /\ FeedInit

InputsSpec == InputsInit /\ [][InputsNext]_<<vars, feedVars>> /\ Fairness
=============================================================================
