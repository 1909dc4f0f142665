---------------------------- MODULE AirdropBooks ----------------------------
(***************************************************************************)
(* What an airdrop promises the books: a window announces at most one      *)
(* payout per recipient, and each announced payout leaves the account once *)
(* or never.  Payouts, with its chunks, workers, retries, lost replies and *)
(* late landings, implements it.                                           *)
(***************************************************************************)
EXTENDS Integers

CONSTANT
    Refills     \* what the account may receive at once

VARIABLES
    funds,      \* tokens on the account
    window,     \* number of the window
    due         \* payouts announced and not settled: [to, amount, window]

Init == funds \in Nat /\ due = {}

\* A new window: what becomes due is its own, one payout per recipient.
Open ==
    /\ window' # window
    /\ \A x \in due' : x \in due \/ x.window = window'
    /\ \A x, y \in due' : x.window = window' /\ y.window = window' /\ x.to = y.to
          => x = y
    /\ UNCHANGED funds

Settle(x) ==
    /\ funds >= x.amount
    /\ funds' = funds - x.amount
    /\ due' = due \ {x}
    /\ UNCHANGED window

\* Payouts given up: never sent, expired, or not covered by the account.
Forfeit == due' \subseteq due /\ UNCHANGED <<funds, window>>

Refill == (\E r \in Refills : funds' = funds + r) /\ UNCHANGED <<window, due>>

Next == Open \/ (\E x \in due : Settle(x)) \/ Forfeit \/ Refill

Spec == Init /\ [][Next]_<<funds, window, due>>
=============================================================================
