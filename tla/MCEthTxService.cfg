CONSTANTS
    Addrs = {"a", "b", "c"}
    Seed <- MCSeed
    InitialBalances = {0}
    Values = {1, 2}
    Calls = {"c1", "c2"}
    Streams = {"s"}
    Limit = 1
    MaxTransfers = 3
    MaxRestarts = 1
SPECIFICATION EthTxSpec
INVARIANTS AccountsReconcile OnlyOvertakenIsMissed
PROPERTY TransfersReturn
CHECK_DEADLOCK FALSE
