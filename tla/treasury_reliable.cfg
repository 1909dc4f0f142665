\* No crash, lost reply or late landing; two vaults, fees, and a deposit instead of a claim.
SPECIFICATION Spec
CONSTANTS
    GasFloor = 1
    MinSwap = 1
    MaxBuyback = 1
    MaxBasket = 2
    MaxSolAirdrop = 2
    MinSolPayout = 1
    MinCasinoDraw = 1
    MaxCasinoPayout = 1
    OperatorPct = 20
    AdPct = 20
    CasinoPct = 15
    SolPct = 15
    SupplyPct = 15
    StockCount = 1
    DryRun = FALSE
    Vaults = {"bonding","amm"}
    Fee = 1
    ClaimPolls = 1
    InitialGas = 2
    Incomes = {7}
    Deposits = {14}
    MaxIncome = 14
    MaxFlight = 2
    Crashes = FALSE
    LostReplies = FALSE
    LateLanding = FALSE
INVARIANTS Backed AirdropOnlyPaysPool BuybackWithinCap
