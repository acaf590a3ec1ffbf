SPECIFICATION Spec
CONSTANTS
    NULL = NULL
    Callers <- MCCallers
    MaxCalls = 3
    MaxReports = 2
    Statuses <- MCStatuses
INVARIANTS
    ArgumentsReachHandler
    ReplyInv
    StatusNamed
PROPERTY CallsReturn
CHECK_DEADLOCK FALSE
