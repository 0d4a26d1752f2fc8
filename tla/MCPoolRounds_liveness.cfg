SPECIFICATION FairSpec
CONSTANTS
    Blocks = {b1, b2}
    b1 = b1
    b2 = b2
    NoBlock = NoBlock
    MaxRounds = 3
    MaxReorgs = 1
    MaxStops = 1
    FaultKinds = {"rpc", "confirm"}
PROPERTIES
    PendingBlocksSettle
    LeaderboardCatchesUp
    ImplementsLedger
