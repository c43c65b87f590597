CONSTANTS
    n1 = n1
    n2 = n2
    Pids = {1, 2}
    Names = {n1, n2}
    MaxLife = 2
    MaxStart = 3
    MaxRequests = 2
    Deadline = 1
    Timeout = 2
    Skew = 1
    Nothing = Nothing
    Keys = {"k", "y", "n", "q", "esc", "s", "t", "i", "w", "r", "?", "x", "up", "down", "pageup", "pagedown"}
    Hides <- MCHides
    OtherRows <- MCOtherRows
    Heights = {2, 3}
    Page = 2
    MaxInbox = 1
    Heading = Heading
    Calls = {"a", "b"}
    Limit = 1
SPECIFICATION ActionsSpec
CHECK_DEADLOCK FALSE
INVARIANTS TypeOK DisplayTrue EveryAnswerTrue OutcomeTrue
PROPERTIES SelectionFollowsInstance HelperBounded ImplementsTargetedSignal ActionsEnd
