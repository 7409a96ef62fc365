SPECIFICATION Spec
CONSTANTS
    Parts = {"sets", "stores", "map", "pubsub", "server", "cluster", "members"}
    a = a
    b = b
    x = x
    y = y
    p1 = p1
    p2 = p2
    c1 = c1
    c2 = c2
    c3 = c3
    n1 = n1
    n2 = n2
    Null = Null
    Other = Other
    Existing = {a}
    SnapCount = 9
    Lossy = TRUE
SYMMETRY Symmetry
CHECK_DEADLOCK FALSE
INVARIANTS KeyValsComplete Delivers AnswersProposer DatabaseIsLog 
PROPERTIES  ImplementsMap
