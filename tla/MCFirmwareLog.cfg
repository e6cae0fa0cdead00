SPECIFICATION FairSpec
CONSTANTS
    FifoSize = 2
    TxSize = 2
    RxSize = 2
    Field = {"bRequest", "wValue"}
    Value = {"v1", "v2"}
    Packet <- MCPacket
    Garbage <- MCGarbage
    NoByte = none
PROPERTIES
    LogIsTranscript
    EveryPacketLogged
