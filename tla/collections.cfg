SPECIFICATION Spec
CONSTANTS
    Worlds <- MCWorlds
    Openings <- MCOpenings
    MAX_SQL_ROWS = 2
    PTR_ARRAY_MALLOC_LEN = 3
    LongName = "long"
INVARIANTS
    ReadsEverything
    Released
CHECK_DEADLOCK FALSE
