SPECIFICATION Spec
CONSTANTS
    Parts = {"tree"}
    x = x
    y = y
    Null = Null
    Pair <- OneScore
    Member <- Seven
    Option = {""}
VIEW View
CHECK_DEADLOCK FALSE
INVARIANT NoNilPointer
