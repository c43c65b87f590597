CONSTANTS
    c1 = c1
    c2 = c2
    d1 = d1
    d2 = d2
    k1 = k1
    k2 = k2
    Counts = {c1, c2}
    Fallback = c1
    Distros = {}
    Containers = {}
    Runtimes = {"Docker"}
    WslOnly = TRUE
    None = None
    Unmeasured = Unmeasured
    PlanWarned = FALSE
    MaxQueue = 1
    MaxFaults = 1
SPECIFICATION WholeSpec
CHECK_DEADLOCK FALSE
PROPERTIES LoadingEnds ShutsDown
