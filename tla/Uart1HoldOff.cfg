SPECIFICATION FairSpec
CONSTANTS
    TxSize = 4
    RxSize = 2
    Byte = {b1, b2}
    Arriving = {b1, b2}
    NoByte = none
    HoldOff = TRUE
PROPERTIES
    SendsInOrder
