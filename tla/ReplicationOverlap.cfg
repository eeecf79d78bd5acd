\* Three servers; one may crash at any moment and be running again before its death
\* is noticed, so that there can be two primaries.  Threads are fair.
CONSTANTS
    n1 = n1
    n2 = n2
    n3 = n3
    Node = {n1, n2, n3}
    Customer = {c1, c2}
    Peers <- ThreePeers
    LBOrder <- ThreeNodes
    None = None
    CommitOnly = CommitOnly
    Garbage = Garbage
    Bad = Bad
    Batch = 2
    FFlush = FALSE
    Mortal = {n1, n2, n3}
    MidBroadcast = TRUE
    PromptRestart = TRUE
    SlowReaders = FALSE
    MaxOrders = 2
    MaxCrash = 1
    MaxRestart = 1
SPECIFICATION FairSpec
CHECK_DEADLOCK FALSE
INVARIANTS
    BarrierDiscipline
    AckedAtMaster
PROPERTIES
    OnlyMutualWaitBlocks
