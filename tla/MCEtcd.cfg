SPECIFICATION EtcdSpec
CONSTANTS
    Node = {n1, n2, n3}
    Starts <- Situations
    CatchUp = 1
    Capacity = 1
    MaxInflight = 2
    MaxIndex = 99
    Null = Null
VIEW View
SYMMETRY Symmetry
CHECK_DEADLOCK FALSE
INVARIANTS OneLeaderPerTerm CommittedForever   LogIntact ConfigurationsSound
    ReadyHandled NothingForgotten Durable
PROPERTIES QuorumsOverlap RingIsWindow
