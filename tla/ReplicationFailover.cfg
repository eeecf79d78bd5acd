\* Two servers, two crashes at any moment and one restart; threads are fair.
CONSTANTS
    n1 = n1
    n2 = n2
    n3 = n3
    Node = {n1, n2}
    Customer = {c1, c2}
    Peers <- TwoPeers
    LBOrder <- TwoNodes
    None = None
    CommitOnly = CommitOnly
    Garbage = Garbage
    Bad = Bad
    Batch = 2
    FFlush = FALSE
    Mortal = {n1, n2}
    MidBroadcast = TRUE
    PromptRestart = FALSE
    SlowReaders = FALSE
    MaxOrders = 2
    MaxCrash = 2
    MaxRestart = 1
SPECIFICATION FairSpec
CHECK_DEADLOCK FALSE
INVARIANTS
    TypeOK
    LagAtMostOne
    ReadsLagByOne
PROPERTIES
    CommittedIsStable
    OrderLedgerSpec
    EveryBarrierIsSet
