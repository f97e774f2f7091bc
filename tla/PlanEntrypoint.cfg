SPECIFICATION Spec
CONSTANTS
    LayerOf <- MCLayerOf
    Packages <- MCPackages
    NpmKeys <- MCNpmKeys
    Versions <- MCVersions
    Lockfiles <- MCLockfiles
    Canonical <- MCCanonical
    Rules <- MCRules
    RootTuples <- MCRootTuples
    Requests <- EntrypointRequests
    NextRequests <- EntrypointRequests
    MaxRequests = 2
    BuiltinTuples <- MCBuiltinTuples
    RoleMatches <- MCRoleMatches
    TagMatches <- MCTagMatches
    NameRank <- MCNameRank
    Within <- MCWithin
    KnownFixes <- MCKnownFixes
    NgcHint = "nvcr.io/nvidia/pytorch"
    FamilyOf <- MCFamilyOf
    PipRules <- MCPipRules
    OnDisk <- MCOnDisk
    Escaping <- MCEscaping
    MaxLines = 0
    Hosts <- MCHosts
    Hardware <- MCHardware
    InName <- MCInName
    Alike <- MCAlike
    Answers <- MCAnswers
    GroupOf <- MCGroupOf
INVARIANTS
    ImageRunsEntrypoint
CHECK_DEADLOCK FALSE
