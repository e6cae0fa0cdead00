SPECIFICATION Spec
CONSTANTS
    FifoSizes = {1, 2, 4, 8, 16}
    RxSizes = {2, 4, 8, 16, 32}
    TxSizes = {2, 4, 8, 16, 32, 64, 128}
    DeviceLengths = {18, 64}
INVARIANTS
    NoWriteAstray
