SPECIFICATION Spec
CONSTANTS
    a = a
    b = b
    c = c
    Chars = {a}
    Nul = Nul
    Objects <- SomeObjects
    Modes <- SomeModes
    BufferSize = 2
    MaxLen = 3
    MaxCount = 2
VIEW AllButCall
INVARIANT TypeOK
PROPERTY FileSteps
CHECK_DEADLOCK FALSE
