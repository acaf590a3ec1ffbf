SPECIFICATION FairSpec
CONSTANTS
    Conns = {c1, c2, c3}
    First = c1
    Fds = {1, 2, 3, 4, 5, 6}
    NoFd = NoFd
    MaxConnRetryCnt = 2
INVARIANTS
    TransportAgreed
    SocketsAccountedFor
    SetupInv
PROPERTY SetupEnds
CHECK_DEADLOCK FALSE
