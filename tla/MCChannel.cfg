CONSTANTS
    Protocols = {"gkwp2", "http"}
    Requests <- MCRequests
    MaxRequests = 3
    ReadSize = 3
    HeaderSize = 2
    MaxPayload = 6
    MaxDecoder = 6
    CompactAbove = 1
    MaxHead = 2
    MaxStreams = 1
    MaxWrite = 3
    AnswerSize = 2
    SocketSize = 2
SPECIFICATION FairSpec
CHECK_DEADLOCK FALSE
INVARIANTS TypeOK InOrder ArmedIffUnsent ClosesAfterFlush LimitLeavesRoom
PROPERTY Answered
