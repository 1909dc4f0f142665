\* A malformed token account is skipped, so the snapshot is partial.
SPECIFICATION Spec
CONSTANTS
    Wallets = {w1}
    Absent = Absent
    MinHolding = 2
    CasinoMinLvl3 = 2
    TasksRefresh = 2
    Allowlist <- NoAllowlist
    Malformed = TRUE
    Amounts = {0, 1, 2, 3}
    MaxTime = 4
    MaxStepsBack = 0
PROPERTIES OnlyDropsReset
