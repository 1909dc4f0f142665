\* Two windows; calls fail, replies are lost, statuses lag, transfers land late, the process dies.
SPECIFICATION Spec
CONSTANTS
    a = a
    b = b
    c = c
    Wallets = {a, b, c}
    MinPayout = 1
    ChunkSize = 2
    Concurrency = 2
    SendTries = 2
    Rounds = 2
    DryRun = FALSE
    LostReplies = TRUE
    Crashes = TRUE
    Weights <- WeightMaps
    Refills = {4}
    MaxPool = 4
    Windows = 2
INVARIANTS TypeOK PaidOnce ConfirmExact FundsSuffice
PROPERTIES ImplementsBooks WindowEnds
