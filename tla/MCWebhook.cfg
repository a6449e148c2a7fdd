CONSTANTS
    Items = {1, 2}
    Workers = {w1, w2}
    BatchSize = 1
    Concurrency = 1
    MaxRetries = 2
    MaxRequeues = 1
SPECIFICATION WebhookSpec
INVARIANTS InOneHand DoneIsAnswered RetryBudget
PROPERTY EventuallySettled
CHECK_DEADLOCK FALSE
