SPECIFICATION FairSpec
CONSTANTS
    BufSize = 4
    LastInterface = 1
    ChildSentinel = 3
    LogCapacity = 1
    Layouts <- MCLayouts
    Packet <- MCPacket
    ShortLength = {7}
    OutLength = {0, 1}
INVARIANTS
    TypeOK
    PendingMatchesState
    EndpointMatchesState
    AnswersLastSetup
PROPERTIES
    StallHolds
    ImplementsRequests
    HandlerReturns
