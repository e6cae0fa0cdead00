SPECIFICATION HostSpec
CONSTANTS
    BufSize = 64
    LastInterface = 7
    ChildSentinel = 31
    LogCapacity = 0
    MaxFaults = 0
    Layouts <- MCLayouts
    Packet <- MCPacket
    ShortLength = {}
    OutLength = {0}
INVARIANTS
    SentinelMeansConfig
