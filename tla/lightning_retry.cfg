SPECIFICATION FairSpec
CONSTANTS
    Calls = {buy}
    Cancellable = {buy}
    MaxRetries = 3
INVARIANTS
    TypeOK
    RepeatedOnlyInDoubt
PROPERTIES
    ImplementsTradeCall
    CallReturns
CHECK_DEADLOCK FALSE
