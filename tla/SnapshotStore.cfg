CONSTANTS
    Capacity = 2
    Retention = 3
    MaxCounter = 3
    MaxTime = 5
SPECIFICATION Spec
CHECK_DEADLOCK FALSE
INVARIANTS TypeOK IdsNeverReused LatestIsNewest
PROPERTIES ImplementsRetainedLog
