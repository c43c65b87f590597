CONSTANTS
    q1 = q1
    q2 = q2
    q3 = q3
    Capacity = 1
    Retention = 2
    MaxCounter = 2
    MaxTime = 3
    MaxAges = {0, 1}
    Requests = {q1, q2, q3}
    None = None
SPECIFICATION ServiceSpec
CHECK_DEADLOCK FALSE
SYMMETRY Symmetry
INVARIANTS ServiceTypeOK PinnedExact LatestFresh CollectionsInOrder OneCollectionWorker
