SPECIFICATION FairSpec
CONSTANTS
    Socks = {s1, s2, s3, s4}
    NoSock = NoSock
    SockError = SockError
    Ops = {"api", "branch", "collStat", "disconnect"}
    HostMayFail = TRUE
INVARIANTS
    ExchangeOnCurrentSocket
    ReplyFromRequestSocket
    NoSocketLeft
    StateInv
PROPERTIES
    SwitchOnlyWhenQuiet
    WaiterResumesWithHost
    ManagerResumes
CHECK_DEADLOCK FALSE
