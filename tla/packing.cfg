SPECIFICATION Spec
CONSTANTS
    NULL = NULL
    Lengths <- MCLengths
    Values <- MCValues
INVARIANTS
    ReceivedAsSent
    SendInv
    LayoutAgrees
CHECK_DEADLOCK FALSE
