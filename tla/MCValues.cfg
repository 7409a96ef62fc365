SPECIFICATION Spec
CONSTANTS
    Parts = {"list", "stream", "tree", "pattern", "parser"}
    x = x
    y = y
    Null = Null
    Pair <- OwnScores
    Member <- Six
    Option = {"", "gt", "lt", "nx", "xx"}
VIEW View
CHECK_DEADLOCK FALSE
INVARIANT   AnswersMatch ExecutesWhatWasSent
PROPERTY ListIsSequence
