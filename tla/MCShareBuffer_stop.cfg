SPECIFICATION Spec
CONSTANTS
    s1 = s1
    s2 = s2
    s3 = s3
    s4 = s4
    w1 = w1
    w2 = w2
    Shares = {s1}
    Malformed = {}
    Workers = {w1, w2}
    workerOf <- WorkerOf
    MaxRounds = 1
    MaxStops = 1
    FaultKinds = {}
    Kills = FALSE
INVARIANTS
    GracefulStopKeepsShares
