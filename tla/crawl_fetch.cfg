SPECIFICATION FetchFairSpec
CONSTANTS
    Wallets = {w1, w2}
    Crawlers = {c1}
    NoWallet = NoWallet
    MaxTx = 2
    Kind <- MCKind
    PageLimit = 1
    MaxPagesPerRun = 1
    StopAfterSeen = 1
    MaxRetries = 1
    Missing = Missing
PROPERTIES
    ImplementsWalletCrawl
    BackfillSurvivesFailures
