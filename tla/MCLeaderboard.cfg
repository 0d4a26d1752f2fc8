SPECIFICATION Spec
CONSTANTS
    a1 = a1
    a2 = a2
    a3 = a3
    a4 = a4
    Addresses = {a1, a2, a3, a4}
    Submitted = {125, 100650}
    KeepsFractions = TRUE
    Week = 2
    Slots = 2
    PageRows = 3
    Steps = {10, 10000, 10000000}
    MaxTime = 5
    MaxShares = 4
    MaxRounds = 2
SYMMETRY AnyAddress
INVARIANTS
    PaidAreShown
    ThresholdNeverTooHigh
PROPERTIES
    ImplementsLiveBoard
    SlotHolds
