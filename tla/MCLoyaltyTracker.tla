-------------------------- MODULE MCLoyaltyTracker --------------------------
(* LoyaltyTracker for TLC: small sets of wallets. *)
EXTENDS LoyaltyTracker, TLC

NoAllowlist == [k \in Tasks |-> {}]
=============================================================================
