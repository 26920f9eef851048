SPECIFICATION FairSpec
CONSTANTS
    Conn = {"c1", "c2"}
    User = {"u1", "u2"}
    UserOf <- MCUserOf
    NoUser = "all"
    Addressee = {"u1", "all"}
    Caller = {"s1"}
    SendCap = 1
    MaxSent = 3
INVARIANTS
    TypeOK
    NoPanic
    NoGaps
PROPERTIES
    MessageReturns
    PumpsEnd
CHECK_DEADLOCK FALSE
