\* Everything may go wrong: crashes, lost replies, late landing; every cap but the buyback's bites.
SPECIFICATION Spec
CONSTANTS
    GasFloor = 1
    MinSwap = 1
    MaxBuyback = 1
    MaxBasket = 2
    MaxSolAirdrop = 1
    MinSolPayout = 1
    MinCasinoDraw = 1
    MaxCasinoPayout = 1
    OperatorPct = 10
    AdPct = 10
    CasinoPct = 20
    SolPct = 20
    SupplyPct = 10
    StockCount = 2
    DryRun = FALSE
    Vaults = {"bonding"}
    Fee = 0
    ClaimPolls = 1
    InitialGas = 2
    Incomes = {10}
    Deposits = {}
    MaxIncome = 10
    MaxFlight = 1
    Crashes = TRUE
    LostReplies = TRUE
    LateLanding = TRUE
INVARIANTS TypeOK BooksWithinClaims CapsHold
PROPERTIES OperatorFirst OnlyMishapsCost
