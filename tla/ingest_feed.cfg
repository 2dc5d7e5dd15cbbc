SPECIFICATION FairSpec
CONSTANTS
    QueueCap = 1
    FlushSize = 2
    MaxConns = 2
    OutCap = 1
    WireCap = 1
    InCap = 1
    MaxEvents = 4
INVARIANTS
    TypeOK
    StoredOnce
    BotBehindStore
PROPERTIES
    ImplementsChannel
    NothingWaitsForever
