CONSTANTS
    Users = {"alice", "shop"}
    NewUsers = {}
    Opening <- MCOpening
    Merchants = {"m1", "m2"}
    Orders = {"o1"}
    PayAmounts = {1}
    Deposits = {1}
    ClientKeys <- MCClientKeys
    Clients = {c1, c2}
    MaxPayments = 2
SPECIFICATION PaymentSpec
SYMMETRY PaymentSymmetry
INVARIANTS PaidOnce EventPerPayment
