SPECIFICATION NoSelfMoveSpec
CONSTANTS
    Threads = {t1, t2}
    Proxies = {p1, p2}
    Conns = {c1, c2, c3}
    Size = 2
    Workers = 2
    MaxFailures = 0
    NoConn = NoConn
    NoThread = NoThread
    Dead = Dead
    Empty = Empty
INVARIANT EveryConnectionReturned
CHECK_DEADLOCK FALSE
