SPECIFICATION FairSpec
CONSTANTS
    s1 = s1
    s2 = s2
    s3 = s3
    s4 = s4
    w1 = w1
    w2 = w2
    Shares = {s1, s2, s3, s4}
    Malformed = {s4}
    Workers = {w1, w2}
    workerOf <- WorkerOf
    MaxRounds = 2
    MaxStops = 2
    FaultKinds = {"flush", "flushAck"}
    Kills = TRUE
INVARIANTS
    NoShareTwice
    AcceptedSharesAccountedFor
PROPERTIES
    BufferedSharesLeaveMemory
