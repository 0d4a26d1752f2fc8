SPECIFICATION WebSpec
CONSTANTS
    v1 = v1
    v2 = v2
    v3 = v3
    Callers = {v1, v2, v3}
    NoOne = NoOne
    TTL = 1
    MaxVersion = 2
    MaxConnections = 2
    PageSize = 1
    BlocksRows = 2
    Worlds <- SmallWorlds
INVARIANTS
    NoBlockIsMissed
    CacheInv
PROPERTIES
    NoStepBack
    FailuresExpire
    AnsweredUnlessHung
