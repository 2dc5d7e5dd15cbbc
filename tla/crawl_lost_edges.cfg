SPECIFICATION Spec
CONSTANTS
    Wallets = {w1}
    Crawlers = {c1}
    NoWallet = NoWallet
    MaxTx = 5
    Kind <- MCKind
    PageLimit = 3
    MaxPagesPerRun = 1
    StopAfterSeen = 2
INVARIANT SeenMeansProcessed
