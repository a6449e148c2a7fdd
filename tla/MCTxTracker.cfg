CONSTANTS
    Trackers = {"poll", "refresh"}
    Keys = {}
    MaxCalls = 2
    BroadcastMaxRetries = 1
SPECIFICATION TxTrackerSpec
INVARIANT StatusIsTrue
PROPERTY FinalIsReported
CHECK_DEADLOCK FALSE
