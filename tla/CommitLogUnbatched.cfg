\* One entry per write and no fflush: stdio decides what reaches the file.
CONSTANTS
    Batch = 1
    FFlush = FALSE
    Bad = Bad
    Entry = {e1, e2}
    MaxLog = 5
    Damageable = TRUE
SPECIFICATION Spec
CHECK_DEADLOCK FALSE
INVARIANTS
    SyncIsDurable
