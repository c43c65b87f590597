CONSTANTS
    c1 = c1
    c2 = c2
    d1 = d1
    d2 = d2
    k1 = k1
    k2 = k2
    Counts = {c1, c2}
    Fallback = c1
    Distros = {d1, d2}
    Containers = {k1}
    Runtimes = {"Docker"}
    WslOnly = FALSE
    None = None
    Unmeasured = Unmeasured
    PlanWarned = FALSE
    MaxQueue = 2
    MaxFaults = 2
SPECIFICATION ScenarioSpec
CHECK_DEADLOCK FALSE
SYMMETRY Symmetry
INVARIANTS
    TypeOK SingleScale KernelWindowStable LinuxReadyComplete WindowsRowsCatchUp
    DetailsOnCurrentContainers RetainedDetailsWarned
PROPERTIES FailedDetailKeepsList
