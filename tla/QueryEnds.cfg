CONSTANTS
    q1 = q1
    q2 = q2
    Capacity = 1
    Retention = 2
    MaxCounter = 2
    MaxTime = 2
    MaxAges = {0, 1}
    Requests = {q1, q2}
    None = None
SPECIFICATION FairServiceSpec
CHECK_DEADLOCK FALSE
PROPERTIES PinnedAnswered EveryRequestEnds
