CONSTANTS
    Users = {"alice", "shop"}
    NewUsers = {}
    Opening <- MCOpening
    Deposits = {1}
    depUser <- MCDepUser
    depAmount <- MCDepAmount
    Blocks = {1}
    Workers = {w1}
    Merchants = {"m1"}
    Bindings <- MCBindings
    MaxBindings = 0
    Amounts = {1}
    Keys = {"k1"}
    NoKey = "-"
    AutoApprove = FALSE
    ReadUncommitted = TRUE
    Broadcasters = {b1}
    Handlers = {h1}
    MaxWithdraws = 1
    MaxFreezes = 1
    Orders = {"o1"}
    PayAmounts = {1}
    ClientKeys = {}
    Clients = {c1}
    MaxPayments = 1
SPECIFICATION ExchangeSpec
INVARIANTS JournalReplays BooksBalance NoOverdraft
