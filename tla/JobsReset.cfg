SPECIFICATION Spec
CONSTANTS
    j1 = j1
    j2 = j2
    j3 = j3
    g1 = g1
    g2 = g2
    known = known
    unknown = unknown
    Jobs = {j1, j2, j3}
    Managers = {g1, g2}
    NoManager = NoManager
    Profiles = {known, unknown}
    MemoryTotal <- Hosts
    Requests = {2}
    FallbackMax = 2
    MaxCrashes = 1
    MaxFaults = 0
INVARIANTS
    AdmissionRespected
PROPERTIES
    CanceledIsFinal
SYMMETRY JobSymmetry
CHECK_DEADLOCK FALSE
