SPECIFICATION FairSpec
CONSTANTS
    j1 = j1
    j2 = j2
    j3 = j3
    g1 = g1
    g2 = g2
    known = known
    unknown = unknown
    Jobs = {j1, j2}
    Managers = {g1}
    NoManager = NoManager
    Profiles = {known, unknown}
    MemoryTotal <- Hosts
    Requests = {1, 2}
    FallbackMax = 2
    MaxCrashes = 2
    MaxFaults = 1
INVARIANTS
    RunningHasRunner
    FailedMeansStopped
    CancelReachesRunner
PROPERTIES
    ContractSpec
    TaskEnds
CHECK_DEADLOCK FALSE
