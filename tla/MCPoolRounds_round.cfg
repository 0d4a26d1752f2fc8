SPECIFICATION Spec
CONSTANTS
    Blocks = {b1, b2}
    b1 = b1
    b2 = b2
    NoBlock = NoBlock
    MaxRounds = 3
    MaxReorgs = 0
    MaxStops = 0
    FaultKinds = {}
INVARIANTS
    ServiceRoundIsOpen
