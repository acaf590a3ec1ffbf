SPECIFICATION FairSpec
CONSTANTS
    Threads = {t1, t2}
    Proxies = {p1, p2, p3}
    Conns = {c1, c2, c3}
    Size = 2
    Workers = 2
    MaxFailures = 2
    NoConn = NoConn
    NoThread = NoThread
    Dead = Dead
    Empty = Empty
INVARIANTS
    TypeOK
    Exclusive
    HeldConnectionUsable
    SlotAccounting
    AvailableConnectionUsable
PROPERTIES
    ImplementsOwnership
    ConstructorEnds
    SomeCallEnds
CHECK_DEADLOCK FALSE
