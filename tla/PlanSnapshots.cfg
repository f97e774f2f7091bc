SPECIFICATION Spec
CONSTANTS
    LayerOf <- MCLayerOf
    Packages <- MCPackages
    NpmKeys <- MCNpmKeys
    Versions <- MCVersions
    Lockfiles <- MCLockfiles
    Canonical <- MCCanonical
    Rules <- MCRules
    RootTuples <- MCRootTuples
    Requests <- HintedRequests
    NextRequests <- HintedRequests
    MaxRequests = 1
    BuiltinTuples <- MCBuiltinTuples
    RoleMatches <- MCRoleMatches
    TagMatches <- MCTagMatches
    NameRank <- MCNameRank
    Within <- MCWithin
    KnownFixes <- MCKnownFixes
    NgcHint = "nvcr.io/nvidia/pytorch"
    FamilyOf <- MCFamilyOf
    PipRules <- MCPipRules
    OnDisk <- MCOnDisk
    Escaping <- MCEscaping
    MaxLines = 0
    Hosts <- MCHosts
    Hardware <- MCHardware
    InName <- MCInName
    Alike <- MCAlike
    Answers <- MCAnswers
    GroupOf <- MCGroupOf
INVARIANTS
    SnapshotsAreExact
CHECK_DEADLOCK FALSE
