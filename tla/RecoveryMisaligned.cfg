\* A backup recovers after the primary crashed in the middle of a broadcast.
CONSTANTS
    n1 = n1
    n2 = n2
    n3 = n3
    Node = {n1, n2, n3}
    Customer = {c1, c2}
    Peers <- ThreePeers
    LBOrder <- ThreeNodes
    None = None
    CommitOnly = CommitOnly
    Garbage = Garbage
    Bad = Bad
    Batch = 2
    FFlush = FALSE
    Mortal = {n1, n2, n3}
    MidBroadcast = TRUE
    PromptRestart = FALSE
    SlowReaders = FALSE
    MaxOrders = 2
    MaxCrash = 1
    MaxRestart = 0
SPECIFICATION Spec
CHECK_DEADLOCK FALSE
INVARIANTS
    AckMeansSameLog
