-------------------------- MODULE MCLoyaltyHistory --------------------------
(* LoyaltyHistory for TLC. *)
EXTENDS LoyaltyHistory, TLC

\* Every wallet may be listed for either task.
EveryoneListed == [k \in Tasks |-> Wallets]

\* A tick is told of one task at a time, so level 3 takes two and the flag of
\* the first has to survive the second.
OneTaskAtATime ==
    {[k \in Tasks |-> IF k = told THEN Wallets ELSE {}] : told \in Tasks}
=============================================================================
