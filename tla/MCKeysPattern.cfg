SPECIFICATION Spec
CONSTANTS
    Parts = {"pattern"}
    x = x
    y = y
    Null = Null
    Pair <- OwnScores
    Member <- Six
    Option = {"", "gt", "lt", "nx", "xx"}
VIEW View
CHECK_DEADLOCK FALSE
INVARIANT AlwaysAnswers
