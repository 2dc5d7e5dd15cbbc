SPECIFICATION FairSpec
CONSTANTS
    Mints = {m1, m2}
    NoMint = NoMint
    ChunkSize = 1
INVARIANTS
    TypeOK
    ActiveSubscribed
    MigratedUnwatched
    FreshWatched
PROPERTIES
    Resubscribes
