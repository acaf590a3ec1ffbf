SPECIFICATION Spec
CONSTANTS
    Iterators = {i1, i2}
    MaxRows = 5
    PageSize = 2
    Handles = {1, 2, 3}
    Faults = TRUE
    Word = 8
    Limits = {0, 1, 2, 3, 4, 5, 6, 8, 10}
    PTR_ARRAY_MALLOC_LEN = 10
    Texts <- MCTexts
    UsualText <- UsualQuery
INVARIANTS
    QueryInv
    IteratorDenotesRow
    EndExact
    SelectionAsWritten
CHECK_DEADLOCK FALSE
