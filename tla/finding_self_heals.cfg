\* The second balance read fails after the claim has landed.
SPECIFICATION Spec
CONSTANTS
    GasFloor = 1
    MinSwap = 1
    MaxBuyback = 1
    MaxBasket = 2
    MaxSolAirdrop = 1
    MinSolPayout = 1
    MinCasinoDraw = 1
    MaxCasinoPayout = 1
    OperatorPct = 20
    AdPct = 20
    CasinoPct = 15
    SolPct = 15
    SupplyPct = 15
    StockCount = 1
    DryRun = FALSE
    Vaults = {"bonding"}
    Fee = 0
    ClaimPolls = 1
    InitialGas = 2
    Incomes = {10}
    Deposits = {}
    MaxIncome = 20
    MaxFlight = 1
    Crashes = FALSE
    LostReplies = FALSE
    LateLanding = FALSE
PROPERTIES SelfHeals
