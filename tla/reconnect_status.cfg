SPECIFICATION Spec
CONSTANTS
    Socks = {s1, s2, s3, s4}
    NoSock = NoSock
    SockError = SockError
    Ops = {"api"}
    HostMayFail = FALSE
INVARIANT SuccessHasReply
CHECK_DEADLOCK FALSE
