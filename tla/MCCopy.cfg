SPECIFICATION FairSpec
CONSTANTS
    BufferSize = 2
    Byte <- MCByte
    Payload <- MCPayload
    MaxEarly = 1
    Blank = 0
INVARIANTS
    TypeOK
    NothingLostInside
    WriteInterestMeansData
    OnlyEarlyBytesParked
    NoSilentStop
PROPERTIES
    CloseAtOnceMeansEnd
    RelaySpec
    EveryByteDelivered
    ClosingEnds
