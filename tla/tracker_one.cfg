\* One wallet, every balance around the minimum, the clock set back twice.
SPECIFICATION Spec
CONSTANTS
    Wallets = {w1}
    Absent = Absent
    MinHolding = 2
    CasinoMinLvl3 = 2
    TasksRefresh = 2
    Allowlist <- NoAllowlist
    Malformed = FALSE
    Amounts = {0, 1, 2, 3}
    MaxTime = 4
    MaxStepsBack = 2
INVARIANTS TypeOK CreditWithinHolding CreditNotLost Lvl3ClockContinuous MaturedCandidates
PROPERTIES TasksSticky OnlyDropsReset ImplementsHoldClock
