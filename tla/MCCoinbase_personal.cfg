SPECIFICATION FairCoinbaseSpec
CONSTANTS
    MaxRankedSlots = 21
    FinderPerMille = 21
    PoolFeePerMille = 21
    SoloFeePerMille = 10
    PoolFeeAddress = 0
    SizeLimit = 4000000
    WeightLimit = 4000000
    Calls <- CallsMade
    kindOf <- KindOf
    BadNames <- StrangeNames
    MaxStops = 1
    Requests <- RequestsMade
    ScriptLen <- ScriptLength
INVARIANTS
    PersonalIsTransaction
