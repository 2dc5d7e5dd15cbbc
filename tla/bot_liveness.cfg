SPECIFICATION FairSpec
CONSTANTS
    Grain = 2
    TierSRatio = 110
    TierQRatio = 50
    TierSPct = 0
    TierQPct = 25
    TierAllPct = 100
    BuySol = 20
    Mints = {m1}
    Evals = {e1, e2}
    NoMint = NoMint
    CreateMcaps = {10}
    TradeMcaps = {3, 8, 12}
    MaxSells = 1
    ShortSignatures = FALSE
PROPERTIES
    DrainCompletes
    StopLossCloses
CHECK_DEADLOCK FALSE
