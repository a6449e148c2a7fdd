CONSTANTS
    HeaderWorkers = {w1, w2}
    TransferWorkers = {t1}
    ChannelBuffer = 1
    MaxLasts = 2
    MaxEvents <- MCMaxEvents
    MaxCalls = 1
SPECIFICATION PipelineSpec
CHECK_DEADLOCK FALSE
INVARIANTS ExitIsDrained PassedIsKept PanicsOnlyWhenStopping
PROPERTY ShutdownEnds
