SPECIFICATION Spec
CONSTANTS
    BufferSize = 3
    Byte <- MCByte
    MaxBytes = 6
INVARIANTS
    TypeOK
    CellsHoldTheQueue
PROPERTY
    FifoSpec
