\* An order, a read and an order over one connection.
CONSTANTS
    Calls <- TwoKinds
    Engineer = 16909060
    Expert = 5
    LastOrder = 258
SPECIFICATION Spec
INVARIANTS
    TypeOK
    WholeAnswers
    WholeRequests
PROPERTY BothEnd
CHECK_DEADLOCK FALSE
