SPECIFICATION Spec
CONSTANTS
    Grain = 2
    TierSRatio = 110
    TierQRatio = 50
    TierSPct = 5
    TierQPct = 25
    TierAllPct = 100
    BuySol = 20
    Mints = {m1}
    Evals = {e1, e2}
    NoMint = NoMint
    CreateMcaps = {10}
    TradeMcaps = {3, 12}
    MaxSells = 1
    ShortSignatures = FALSE
INVARIANT ExitOnlyWhenAllClosed
CHECK_DEADLOCK FALSE
