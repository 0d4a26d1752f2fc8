SPECIFICATION FairSpec
CONSTANTS
    Blocks = {b1, b2}
    b1 = b1
    b2 = b2
    NoBlock = NoBlock
    MaxReports = 2
    MaxReorgs = 1
    MaxStops = 1
    FaultKinds <- Faults
INVARIANTS
    SettledOnce
    NoLostWakeup
PROPERTIES
    PendingBlocksSettle
CHECK_DEADLOCK FALSE
