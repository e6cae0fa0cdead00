SPECIFICATION FairHostSpec
CONSTANTS
    BufSize = 64
    LastInterface = 7
    ChildSentinel = 31
    LogCapacity = 0
    MaxFaults = 1
    Layouts <- MCLayouts
    Packet <- MCPacket
    ShortLength = {}
    OutLength = {0}
INVARIANTS
    DataIsDescriptors
PROPERTIES
    TransferEnds
