SPECIFICATION Spec
CONSTANTS
    Values = 32
    Streams <- MCStreams
    Chunks <- MCChunks
    Accounts <- MCAccounts
    None = None
    Unset = Unset
INVARIANT
    TypeOK
PROPERTIES
    AnsweredAsAsked
    TargetAsAsked
CHECK_DEADLOCK FALSE
