CONSTANTS
    Users = {"alice", "bob"}
    NewUsers = {}
    Opening <- MCOpening
    Deposits = {}
    depUser <- MCNoDeposits
    depAmount <- MCNoDeposits
    Blocks = {}
    Workers = {}
    Merchants = {}
    Bindings <- MCNoBindings
    MaxBindings = 0
    Amounts = {1}
    Keys = {"k1"}
    NoKey = "-"
    AutoApprove = FALSE
    ReadUncommitted = TRUE
    Broadcasters = {b1}
    Handlers = {h1}
    MaxWithdraws = 2
    MaxFreezes = 2
    Orders = {}
    PayAmounts = {}
    ClientKeys = {}
    Clients = {}
    MaxPayments = 0
SPECIFICATION ExchangeSpec
INVARIANT FailedIsUnfrozen
CHECK_DEADLOCK FALSE
