SPECIFICATION Spec
CONSTANTS
    BufferSize = 2
    Byte <- MCByte
    Payload <- MCPayload
    MaxEarly = 0
    Blank = 0
PROPERTY
    StopsReadingWhenAllRead
