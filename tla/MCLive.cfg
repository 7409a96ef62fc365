SPECIFICATION LiveSpec
CONSTANTS
    Proc = {p1, p2}
    NumLocks = 3
    Key = {"a", "b", "c", "d"}
    HashKey <- FourKeys
    MaxKeys = 3
    NoProc = NoProc
    c1 = c1
    c2 = c2
    c3 = c3
    n1 = n1
    n2 = n2
    Null = Null
CHECK_DEADLOCK FALSE
INVARIANTS CriticalSections NoCircularWait WaitsForClients
PROPERTIES ImplementsLockTable EveryLockGranted ShutsDownUnlessBlocked  NodeServes
    ReceivedProcessed PeerStops
