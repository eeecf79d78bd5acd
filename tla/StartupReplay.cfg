\* A backup crashes and starts again.
CONSTANTS
    n1 = n1
    n2 = n2
    n3 = n3
    Node = {n1, n2}
    Customer = {c1, c2}
    Peers <- TwoPeers
    LBOrder <- TwoNodes
    None = None
    CommitOnly = CommitOnly
    Garbage = Garbage
    Bad = Bad
    Batch = 2
    FFlush = FALSE
    Mortal = {n2}
    MidBroadcast = TRUE
    PromptRestart = FALSE
    SlowReaders = FALSE
    MaxOrders = 2
    MaxCrash = 1
    MaxRestart = 1
SPECIFICATION Spec
CHECK_DEADLOCK FALSE
INVARIANTS
    StartupReplayInRange
