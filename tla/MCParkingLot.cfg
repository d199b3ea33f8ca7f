CONSTANTS
    Keys = {k1, k2}
    Ids = {1, 2}
    Callers = {t1, t2}
    Timeouts = {0, 1, 2}
    MaxClock = 2
    MaxParks = 3
SPECIFICATION LotSpec
CHECK_DEADLOCK FALSE
INVARIANTS OneFate
PROPERTIES TakenAreCalled
