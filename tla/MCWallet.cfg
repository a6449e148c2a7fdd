CONSTANTS
    Addrs = {1}
    Users = {"u1", "u2"}
    NoUser = "-"
    WalletTypes = {"deposit", "hot"}
    Registered <- MCRegistered
    Instances = {"i1"}
    Handlers = {"h1", "h2"}
    Home <- MCHome
    Refreshers = {"r1"}
    BackfillWorker = "b"
    MaxRequests = 3
    MaxMoves = 1
SPECIFICATION WalletSpec
INVARIANTS RegistryNamesOwner
PROPERTIES OwnerIsFixed RegistryConverges SnapshotsConverge
CHECK_DEADLOCK FALSE
