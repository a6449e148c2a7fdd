CONSTANTS
    Users = {"alice", "bob"}
    NewUsers = {"bob"}
    Opening <- MCOpening
    Deposits = {1, 2, 3}
    ClientKeys <- MCClientKeys
    depUser <- MCDepUser
    depAmount <- MCDepAmount
    Blocks = {1, 2}
    Workers = {w1, w2}
    Merchants = {m1, m2}
    Bindings <- MCBindings
    MaxBindings = 1
SPECIFICATION DepositSpec
SYMMETRY DepositSymmetry
INVARIANTS CreditedOnce RowCreditEventAgree AccountWithinJournal
