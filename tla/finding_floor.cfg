\* The gas is below its floor, and the airdrop reads a balance that payments in flight still leave.
SPECIFICATION Spec
CONSTANTS
    GasFloor = 4
    MinSwap = 1
    MaxBuyback = 1
    MaxBasket = 2
    MaxSolAirdrop = 1
    MinSolPayout = 1
    MinCasinoDraw = 1
    MaxCasinoPayout = 1
    OperatorPct = 20
    AdPct = 20
    CasinoPct = 15
    SolPct = 15
    SupplyPct = 15
    StockCount = 1
    DryRun = FALSE
    Vaults = {"bonding"}
    Fee = 0
    ClaimPolls = 1
    InitialGas = 1
    Incomes = {10}
    Deposits = {}
    MaxIncome = 20
    MaxFlight = 3
    Crashes = FALSE
    LostReplies = FALSE
    LateLanding = FALSE
INVARIANTS AirdropKeepsFloor
