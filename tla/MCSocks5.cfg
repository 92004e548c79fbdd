SPECIFICATION Spec
CONSTANTS
    c1 = c1
    c2 = c2
    f1 = f1
    f2 = f2
    f3 = f3
    c3 = c3
    Conn <- Conns
    Fd <- Fds
    Address <- Addresses
    None = None
    MaxPool = 2
    MaxAddrs = 1
SYMMETRY Alike
CHECK_DEADLOCK FALSE
INVARIANTS
    TypeOK
    RegistrationsOwned
    FdsOwned
    CountIsPool
    StatusMatchesOrigin
    ResolutionFindsOwner
    NobodyForgotten
PROPERTIES
    RepliesInOrder
    AbortCauses
    ExitCauses
