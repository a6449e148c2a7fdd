CONSTANTS
    Workers = {"w1", "w2"}
    ConfirmDepth = 2
    BatchSize = 2
    Window = 2
    JobsCap = 1
    MaxHeight = 2
    MaxReorgs = 1
    MaxFaults = 2
SPECIFICATION IndexerSpec
INVARIANT AnnouncedIsKept
INVARIANT OrphanIsNotCredited
CHECK_DEADLOCK FALSE
 
PROPERTY StoredConverges
