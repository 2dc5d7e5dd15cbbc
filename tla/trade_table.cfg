SPECIFICATION FairSpec
CONSTANTS
    a = a
    b = b
    m1 = m1
    m2 = m2
    Daemons = {ingest, crawl}
    Ingest = ingest
    NoDaemon = NoDaemon
    TicksPerDay = 2
    AheadDays = 1
    SweepDays = 1
    RetainDays = 1
    Traders = {a, b}
    Mints = {m1, m2}
    Histories <- MCHistories
    MaxTime = 7
    MaxFaults = 1
    Windows = {1}
    BoardLimit = 1
    TokenLimit = 1
    HourTicks = 0
INVARIANTS
    TypeOK
    PartitionsFollowTime
    PagesAgree
    PnLIsGain
PROPERTIES
    AnswersSurvivePruning
    StartsUp
CHECK_DEADLOCK FALSE
