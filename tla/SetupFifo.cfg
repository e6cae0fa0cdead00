SPECIFICATION FairSpec
CONSTANTS
    Size = 4
    Field = {wValue, wLength}
    Value = {v1, v2}
INVARIANTS
    TypeOK
    NoTornPacket
PROPERTIES
    ImplementsQueue
    EveryPacketPopped
