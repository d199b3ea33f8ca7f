CONSTANTS
    MaxU64 = 31
    MaxI64 = 15
    NoRecord = NoRecord
    Limits = {3, 5}
    Windows = {2, 5, 20}
    Costs = {0, 3}
    Product <- MCProduct
    MsPerSecond = 3
    MaxClock = 10
SPECIFICATION Spec
INVARIANTS TypeOK CountsAreTrue FormulaBoundsAdmission SecondRetrySucceeds
