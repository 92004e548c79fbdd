SPECIFICATION Spec
CONSTANTS
    c1 = c1
    c2 = c2
    f1 = f1
    f2 = f2
    f3 = f3
    c3 = c3
    Conn <- OneConn
    Fd <- Fds
    Address <- NoInstant
    None = None
    MaxPool = 2
    MaxAddrs = 1
CHECK_DEADLOCK FALSE
INVARIANT NeverAborted
