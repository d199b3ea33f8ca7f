CONSTANTS
    MaxU64 = 7
    MaxI64 = 3
    NoEntry = NoEntry
    NoRecord = NoRecord
    NoLine = NoLine
    Nobody = Nobody
    Refused = Refused
    Workers = {w1}
    k0 = k0
    k1 = k1
    Keys = {k1}
    EmptyKeys = {}
    OddKeys = {}
    OddTokens = {}
    Misreadings <- MCMisreadings
    Hashes = {"plain"}
    Writes <- MCPools
    Conditions = {"Always"}
    Deltas <- MCDeltas
    Amounts = {1}
    Actuals = {2}
    Policies = {"always"}
    MaxCommands = 3
    MaxLines = 3
    MaxWriteErrors = 0
    MaxCrashes = 2
SPECIFICATION Spec
CHECK_DEADLOCK FALSE
INVARIANT AckedSurvives
