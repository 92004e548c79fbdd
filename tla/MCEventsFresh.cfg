SPECIFICATION Spec
CONSTANTS
    c1 = c1
    c2 = c2
    c3 = c3
    FdSetSize = 5
    Passive <- MCPassive
    Conn <- MCConn
    Listener = Listener
    None = None
    Interests <- MCReadOnly
    MaxReady = 4
SYMMETRY Symmetry
INVARIANT
    EventsFresh
CHECK_DEADLOCK FALSE
