SPECIFICATION FairSpec
CONSTANTS
    Socks = {s1, s2, s3, s4}
    NoSock = NoSock
    SockError = SockError
    Ops = {"api"}
    HostMayFail = TRUE
PROPERTY WaiterResumes
CHECK_DEADLOCK FALSE
