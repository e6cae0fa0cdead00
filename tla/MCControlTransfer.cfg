SPECIFICATION FairHostSpec
CONSTANTS
    BufSize = 4
    LastInterface = 1
    ChildSentinel = 3
    LogCapacity = 0
    MaxFaults = 2
    Layouts <- MCLayouts
    Packet <- MCPacket
    ShortLength = {}
    OutLength = {0}
INVARIANTS
    HostTypeOK
    DataIsDescriptors
    SupportedNeverFails
    DoneAgrees
PROPERTIES
    TransferEnds
