------------------------------ MODULE HoldClock ------------------------------
(***************************************************************************)
(* What the loyalty clock promises, with nothing of how a tick gets there: *)
(* the file is a sequence of checks, each of all wallets at one instant.   *)
(* LoyaltyTracker, whose tick loads, marks, stamps and saves in separate   *)
(* steps and may die between any two of them, implements it.               *)
(***************************************************************************)
EXTENDS Integers

CONSTANTS
    Wallets,
    Tasks,          \* the flags that level 3 needs
    MinHolding,
    NoStamp,        \* not at level 3
    Unknown         \* no clock yet

VARIABLE
    clock           \* [wallet -> its clock]

Running(c) == {w \in Wallets : c[w] # Unknown}

Level3(e) == e.tasks = Tasks /\ e.held_seconds > 0

\* The holding goes on: in before, and no decrease since.
Unbroken(e, f) == e.last_balance >= MinHolding /\ f.last_balance >= e.last_balance

\* f, seen at f.last_check_ts, is what has become of e.
Continues(e, f) ==
    /\ e.tasks \subseteq f.tasks
    /\ IF Unbroken(e, f)
       THEN /\ f.first_seen_ts = e.first_seen_ts
            /\ f.held_seconds = e.held_seconds +
                  (IF f.last_check_ts > e.last_check_ts
                   THEN f.last_check_ts - e.last_check_ts ELSE 0)
       ELSE f.first_seen_ts = f.last_check_ts /\ f.held_seconds = 0
    /\ f.lvl3_since = IF ~Level3(f) THEN NoStamp
                      ELSE IF e.lvl3_since = NoStamp THEN f.last_check_ts
                      ELSE e.lvl3_since

Starts(f) ==
    /\ f.last_balance >= MinHolding
    /\ f.first_seen_ts = f.last_check_ts /\ f.held_seconds = 0
    /\ f.lvl3_since = NoStamp

Init == clock = [w \in Wallets |-> Unknown]

\* Every known wallet is checked, at the same instant; others may start.
Check ==
    /\ Running(clock) \subseteq Running(clock')
    /\ \A w \in Running(clock) : Continues(clock[w], clock'[w])
    /\ \A w \in Running(clock') \ Running(clock) : Starts(clock'[w])
    /\ \A v, w \in Running(clock') :
          clock'[v].last_check_ts = clock'[w].last_check_ts

Spec == Init /\ [][Check]_clock
=============================================================================
