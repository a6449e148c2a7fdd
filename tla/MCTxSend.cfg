CONSTANTS
    Keys = {"k"}
    MaxCalls = 2
    BroadcastMaxRetries = 1
    DevSendEnabled = TRUE
    RequireIdempotencyKey = FALSE
    KindsOf <- MCKindsOf
SPECIFICATION TxSendSpec
INVARIANT NonceUnique
INVARIANT UnkeyedIsTracked
INVARIANT PaidInFull
PROPERTY BroadcastSettles
CHECK_DEADLOCK FALSE
