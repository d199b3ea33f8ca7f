CONSTANTS
    MaxU64 = 7
    MaxI64 = 3
    NoEntry = NoEntry
    NoReservation = NoReservation
    Keys = {k1}
    Writes <- MCWrites
    Ttls = {0, 1}
    Deltas <- MCDeltas
    Amounts = {1, 2}
    Actuals = {0, 1, 3}
    ReserveTtls = {1, 2}
    MaxReservations = 2
    SampleLimit = 1
    MaxClock = 3
SPECIFICATION FairSpec
INVARIANTS TypeOK NoOverGrant Conservation SweepTakesOnlyExpired HeldIsSum
PROPERTY AutoRollback
