SPECIFICATION Spec
CONSTANTS
    Grain = 2
    TierSRatio = 110
    TierQRatio = 50
    TierSPct = 5
    TierQPct = 25
    TierAllPct = 100
    BuySol = 20
    Mints = {m1}
    Evals = {e1, e2, e3}
    NoMint = NoMint
    CreateMcaps = {0, 10}
    TradeMcaps = {3, 11, 12}
    MaxSells = 2
    ShortSignatures = TRUE
SYMMETRY EvalSymmetry
INVARIANTS
    TypeOK
    OneSellInFlight
    SellsFollowTiers
    ClosedAfterAllSold
    DrainedPositionsClosed
    LedgerNeverOverstatesOpen
PROPERTIES
    OnlyLateSellersAfterClose
    ImplementsLifecycle
CHECK_DEADLOCK FALSE
