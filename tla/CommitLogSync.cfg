\* The claim of Server.cpp:82 about sync, with BATCH_SIZE > 1 as shipped.
CONSTANTS
    Batch = 3
    FFlush = FALSE
    Bad = Bad
    Entry = {e1, e2}
    MaxLog = 5
    Damageable = FALSE
SPECIFICATION Spec
CHECK_DEADLOCK FALSE
INVARIANT SyncIsDurable
