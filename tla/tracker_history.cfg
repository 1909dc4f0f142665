\* The file against the history of snapshots it was folded from.
SPECIFICATION HistorySpec
CONSTANTS
    Wallets = {w1}
    Absent = Absent
    MinHolding = 2
    CasinoMinLvl3 = 2
    TasksRefresh = 2
    Allowlist <- EveryoneListed
    Malformed = FALSE
    Amounts = {1, 2, 3}
    MaxTime = 3
    MaxStepsBack = 0
    MaxSaves = 4
    Reports <- OneTaskAtATime
INVARIANTS FileMatchesHistory StampMatchesHistory
