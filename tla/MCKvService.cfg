CONSTANTS
    MaxU64 = 15
    MaxI64 = 7
    NoEntry = NoEntry
    NoLine = NoLine
    Idle = Idle
    k0 = k0
    k1 = k1
    Workers = {w1, w2}
    Keys = {k0, k1}
    EmptyKeys = {k0}
    Lists <- MCLists
    Writes <- MCWrites
    Ttls = {0, 2}
    Deltas = {1}
    MsPerSecond = 2
    MaxClock = 2
    MaxRequests = 3
    MaxKills = 1
SPECIFICATION Spec
SYMMETRY Symmetry
CHECK_DEADLOCK FALSE
INVARIANTS TypeOK LiveKeysSurvive AnswersFit
