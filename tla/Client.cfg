\* Two servers and a restart; a client program with two customers.
CONSTANTS
    Size = 2
    Session = {0, 1}
    Null = Null
    MaxRestart = 1
    Customers = 2
    Orders = 2
    Elapsed <- Times
SPECIFICATION ClientSpec
INVARIANTS
    TypeOK
    OneMaster
    NegativeIsHonest
    ClientTypeOK
    AnswersInStep
    FailedForGood
    MetricsAreComplete
PROPERTIES
    MasterNeverReturns
    DeathIsNoticed
    OnlyRefusedHang
CHECK_DEADLOCK FALSE
