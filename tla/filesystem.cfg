SPECIFICATION FairSpec
CONSTANTS
    c1 = c1
    c2 = c2
    Clients = {c1, c2}
    Catalogs <- MCCatalogs
    Programs <- MCPrograms
    BeginsWith <- MCBeginsWith
    MaxDepth = 4
INVARIANTS
    CopyIsImage
    RemoveAllCounts
    WalkInv
    HandlesAccounted
PROPERTIES CatalogKept OperationsEnd
CHECK_DEADLOCK FALSE
