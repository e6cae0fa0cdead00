SPECIFICATION Spec
CONSTANTS
    FifoSizes = {8}
    RxSizes = {2, 4, 8, 16, 32, 64, 128}
    TxSizes = {2, 4, 8, 16, 32, 64, 128}
    DeviceLengths = {18}
INVARIANTS
    NoWriteAstray
