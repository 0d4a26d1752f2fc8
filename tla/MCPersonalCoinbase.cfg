SPECIFICATION Spec
CONSTANTS
    Addresses = {a1, a2}
    a1 = a1
    a2 = a2
    Pool = Pool
    Nobody = Nobody
    RingSize = 3
    MaxLag = 2
    MaxJobs = 4
    MaxSessions = 2
INVARIANTS
    RecentSharesAreRebuilt
SYMMETRY Symmetry
