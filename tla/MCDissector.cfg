SPECIFICATION Spec
CONSTANTS
    Streams <- MCStreams
    MaxField = 3
    MaxEarly = 2
    MaxChunks = 4
INVARIANTS
    TypeOK
    LogsOnlyWhatWasSent
    LoginLogged
CHECK_DEADLOCK FALSE
