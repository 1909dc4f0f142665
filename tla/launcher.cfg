\* Two coins, three files; any fault, any stop, any redeploy.
SPECIFICATION FairSpec
CONSTANTS
    a = a
    b = b
    Coins = {a, b}
    NoCoin = NoCoin
    StateFiles <- FileList
    MaxBackoff = 5
    DiskFaults = TRUE
    MaxDeaths = 4
INVARIANTS TypeOK CleanBooks BackoffCountsDeaths
PROPERTIES UnchangedLaunchKeepsBooks SaveExtendsFile BothComeBack
