\* Three servers, two crashes and a restart, none in the middle of a broadcast.
CONSTANTS
    n1 = n1
    n2 = n2
    n3 = n3
    Node = {n1, n2, n3}
    Customer = {c1, c2}
    Peers <- ThreePeers
    LBOrder <- ThreeNodes
    None = None
    CommitOnly = CommitOnly
    Garbage = Garbage
    Bad = Bad
    Batch = 2
    FFlush = FALSE
    Mortal = {n1, n2, n3}
    MidBroadcast = FALSE
    PromptRestart = FALSE
    SlowReaders = FALSE
    MaxOrders = 2
    MaxCrash = 2
    MaxRestart = 1
SPECIFICATION Spec
CHECK_DEADLOCK FALSE
SYMMETRY CustomerSymmetry
INVARIANTS
    AckedSurvive
    LogAgreement
    AckMeansSameLog
    RecordMatchesLog
    OrdersInSequence
    CommittedIsKnown
    FileMatchesLog
    LastIndexIsLast
    ShippedLossIsBounded
