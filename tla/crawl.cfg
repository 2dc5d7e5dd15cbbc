SPECIFICATION Spec
CONSTANTS
    Wallets = {w1}
    Crawlers = {c1, c2}
    NoWallet = NoWallet
    MaxTx = 5
    Kind <- MCKind
    PageLimit = 2
    MaxPagesPerRun = 2
    StopAfterSeen = 2
SYMMETRY CrawlerSymmetry
INVARIANTS
    TypeOK
    BackfillCovers
    BackfillStoresEdges
    NoGaps
