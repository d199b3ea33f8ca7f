CONSTANTS
    MaxU64 = 7
    MaxI64 = 3
    NoEntry = NoEntry
    NoRecord = NoRecord
    NoLine = NoLine
    Nobody = Nobody
    Refused = Refused
    Workers = {w1, w2}
    k0 = k0
    k1 = k1
    Keys = {k0, k1}
    EmptyKeys = {}
    OddKeys = {k0}
    OddTokens = {}
    Misreadings <- MCMisreadings
    Hashes = {"plain", "empty"}
    Writes <- MCPools
    Conditions = {"IfPresent"}
    Deltas <- MCDeltas
    Amounts = {1}
    Actuals = {2}
    Policies = {"always"}
    MaxCommands = 3
    MaxLines = 2
    MaxWriteErrors = 1
    MaxCrashes = 1
SPECIFICATION Spec
SYMMETRY Symmetry
CHECK_DEADLOCK FALSE
INVARIANTS TypeOK LogReproducesStore AckedIsDurable
