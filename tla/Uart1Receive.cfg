SPECIFICATION Spec
CONSTANTS
    TxSize = 2
    RxSize = 4
    Byte = {b1, b2}
    Arriving = {b1, b2}
    NoByte = none
    HoldOff = FALSE
PROPERTIES
    ReadsInOrder
