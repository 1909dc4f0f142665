\* Everything may fail, but not for ever; the process does not die.
SPECIFICATION FairSpec
CONSTANTS
    GasFloor = 1
    MinSwap = 1
    MaxBuyback = 1
    MaxBasket = 2
    MaxSolAirdrop = 1
    MinSolPayout = 1
    MinCasinoDraw = 1
    MaxCasinoPayout = 1
    OperatorPct = 20
    AdPct = 0
    CasinoPct = 20
    SolPct = 20
    SupplyPct = 20
    StockCount = 1
    DryRun = FALSE
    Vaults = {"bonding"}
    Fee = 0
    ClaimPolls = 2
    InitialGas = 1
    Incomes = {5}
    Deposits = {}
    MaxIncome = 5
    MaxFlight = 1
    Crashes = FALSE
    LostReplies = TRUE
    LateLanding = TRUE
PROPERTIES TickEnds FeesCollected
