SPECIFICATION Spec
CONSTANTS
    a = a
    b = b
    d = d
    System = System
    Pump = Pump
    Inline = Inline
    SystemProgram <- System
    PumpPrograms <- MCPumpPrograms
    MinTransferLamps = 2
    Sigs = {s1, s2}
    Wallets <- MCWallets
    Addresses <- MCAddresses
    ChainTxs <- MCChainTxs
INVARIANTS
    TypeOK
    EdgesAreTransfers
    WrittenIsComplete
    OutboundTotals
CHECK_DEADLOCK FALSE
