SPECIFICATION Spec
CONSTANTS
    Blocks = {b1, b2, b3}
    b1 = b1
    b2 = b2
    b3 = b3
    NoBlock = NoBlock
    MaxRounds = 4
    MaxReorgs = 1
    MaxStops = 1
    FaultKinds <- ToleratedFaults
SYMMETRY Symmetry
INVARIANTS
    IInv
    OneOpenRound
    RoundsClosedByTheirBlocks
    SettledOnce
    NoLostWakeup
    RoundIDAgesOnlyByLateBlocks
