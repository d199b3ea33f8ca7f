CONSTANTS
    NumWorkers = 2
    Clients = {c1}
    MaxSignals = 1
    MaxFaults = 1
    NoHandler = NoHandler
    NoClient = NoClient
SPECIFICATION Spec
CHECK_DEADLOCK FALSE
INVARIANTS TypeOK NobodyAfterClose
PROPERTIES StopEndsLoops NothingStarves
