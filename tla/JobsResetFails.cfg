SPECIFICATION Spec
CONSTANTS
    j1 = j1
    j2 = j2
    j3 = j3
    g1 = g1
    g2 = g2
    known = known
    unknown = unknown
    Jobs = {j1, j2}
    Managers = {g1, g2}
    NoManager = NoManager
    Profiles = {known, unknown}
    MemoryTotal <- Hosts
    Requests = {2}
    FallbackMax = 2
    MaxCrashes = 0
    MaxFaults = 0
INVARIANTS
    FailedMeansStopped
CHECK_DEADLOCK FALSE
