SPECIFICATION FairSpec
CONSTANTS
    s1 = s1
    s2 = s2
    n1 = n1
    n2 = n2
    n3 = n3
    long = long
    short = short
    Session <- Sessions
    Name <- NameSet
    Pass <- PassSet
    TooLong <- LongSet
    None = None
    MaxUsers = 2
CHECK_DEADLOCK FALSE
INVARIANTS
    TypeOK
    TableSound
    RepliesPaired
PROPERTIES
    AccountsSpec
    MessagesInOrder
    StopCauses
    CommandAnswered
