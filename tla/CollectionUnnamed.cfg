CONSTANTS
    Scale = 12
    Absent = Absent
    Plan9 = 3
    Vmmem = {8, 9}
    VmmemWslc = {10}
    WebView = 21
    NoMetadata = NoMetadata
    SameStem <- MCSameStem
    Bad = Bad
    PsName = 2
    NoCase = NoCase
    Distros = {1, 2}
    Here <- MCHere
    BlankName = BlankName
    Blank = Blank
    Unknown = Unknown
    MaxChanges = 1
    MaxFaults = 1
    CpuCounts = {1, 2}
    Outputs <- MCOutputs
    Printed <- MCPrinted
    WindowsNames = {5}
    Metadata <- MCMetadata
    ScanPids = {1, 2}
    Executors = {9}
    LastStart = 2
    LastCpu = 1
    ScanDistro <- NoSource
    NoProcess = NoProcess
    Targets <- MCTargets
    AliasOf <- MCAliasOf
    Rate <- MCRate
    Outside <- MCOutside
    Window = 2
    SeriesLen = 3
    Steps = {2}
    LastTick = 6
    LastBoot = 2
    LastGroup = 2
    HistoryLen = 2
    Slots = {0, 1, 2, 3}
    Levels = {1, 2, 101}
    InRange = {1, 2}
    Unavailable = Unavailable
    MaxArrivals = 4
    Loads = {1, 2}
    ViewIds = {1}
    ViewDistro = 2
SPECIFICATION SpecUnnamed
CHECK_DEADLOCK FALSE
INVARIANT EachDistributionOnce
