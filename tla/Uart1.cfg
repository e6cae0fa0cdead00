SPECIFICATION FairSpec
CONSTANTS
    TxSize = 4
    RxSize = 2
    Byte = {b1, b2}
    Arriving = {b1}
    NoByte = none
    HoldOff = FALSE
INVARIANTS
    TypeOK
    NoLostWakeup
PROPERTIES
    SendsInOrder
    EveryByteSent
    WriteReturns
