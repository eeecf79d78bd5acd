\* Three servers, two crashes at any moment and a customer for each of the three
\* masters; the load balancer prefers the server that the first master sends its
\* requests to last.
CONSTANTS
    n1 = n1
    n2 = n2
    n3 = n3
    Node = {n1, n2, n3}
    Customer = {c1, c2, c3}
    Peers <- ThreePeers
    LBOrder <- LastFirst
    None = None
    CommitOnly = CommitOnly
    Garbage = Garbage
    Bad = Bad
    Batch = 2
    FFlush = FALSE
    Mortal = {n1, n2, n3}
    MidBroadcast = TRUE
    PromptRestart = FALSE
    SlowReaders = FALSE
    MaxOrders = 1
    MaxCrash = 2
    MaxRestart = 0
SPECIFICATION Spec
CHECK_DEADLOCK FALSE
SYMMETRY CustomerSymmetry
INVARIANTS
    RecordMatchesLog
    AckedSurvive
    LogAgreement
