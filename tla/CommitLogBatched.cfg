\* Batches of three, as BATCH_SIZE > 1, on a disk that can damage records.
CONSTANTS
    Batch = 3
    FFlush = FALSE
    Bad = Bad
    Entry = {e1, e2}
    MaxLog = 7
    Damageable = TRUE
SPECIFICATION Spec
CHECK_DEADLOCK FALSE
INVARIANTS
    TypeOK
    RecoverableIsPrefix
    LossIsBounded
PROPERTY DurableLogSpec
