SPECIFICATION Spec
CONSTANTS
    c1 = c1
    c2 = c2
    c3 = c3
    FdSetSize = 5
    Passive <- MCPassive
    Conn <- MCConn
    Listener = Listener
    None = None
    Interests <- MCInterests
    MaxReady = 4
SYMMETRY Symmetry
INVARIANTS
    TypeOK
    TableAgrees
    StaleOnlyAtOrigins
PROPERTY
    EventSourceSpec
CHECK_DEADLOCK FALSE
