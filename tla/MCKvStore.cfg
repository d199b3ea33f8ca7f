CONSTANTS
    MaxU64 = 7
    MaxI64 = 3
    NoEntry = NoEntry
    Keys = {k1, k2}
    Writes <- MCWrites
    Ttls <- MCTtls
    Deltas <- MCDeltas
    SampleLimit = 1
    MaxClock = 3
SPECIFICATION ShardFairSpec
INVARIANT ShardTypeOK
PROPERTIES ImplementsTtlMap ExpiredIsReclaimed
