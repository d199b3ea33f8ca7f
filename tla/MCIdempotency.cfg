CONSTANTS
    MaxU64 = 7
    MaxI64 = 3
    NoRecord = NoRecord
    NoBody = NoBody
    Keys = {k1}
    Hashes = {h1, h2}
    Middleware = {m1}
    Direct = {d1, d2}
    Ttls = {1}
    SampleLimit = 1
    MaxClaims = 3
    MaxClock = 2
SPECIFICATION FairSpec
INVARIANTS TypeOK ReplayMatchesRequest OnlyParkBreaksSingleFlight
PROPERTIES OnlySharedClaimRevokes ClaimsEnd
