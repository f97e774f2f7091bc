SPECIFICATION DataRootSpec
CONSTANTS
    Procs = {"server", "cli"}
    Profiles = {"p", "q"}
    Stacks = {"s"}
    Layers = {"l"}
    Shipped <- MCShipped
    TargetOf <- MCTargetOf
    LayersOf <- MCLayersOf
    MaxOps = 3
    Retries = {"job1", "job2", "ensure"}
    InServer = {"job1", "job2"}
    Failures <- MCFailures
    FirstRules <- MCRules
    NoRules <- MCNoRules
    Within <- MCWithin
    KnownFixes <- MCFixes
    NgcHint = "ngc"
    FamilyOf <- MCFamilyOf
    Clients = {"alice", "bob"}
    ItemIds = {"ampere", "ada", "hopper"}
    FirstIds <- MCFirstIds
    MaxEdits = 3
INVARIANTS
    WholeDocuments
    DeletedStaysDeleted
    WrittenIsFound
    FixesAccumulate
    FixTakesEffect
    NoEditLost
    RevisionNamesContent
PROPERTIES
    CreateReplacesNothing
CHECK_DEADLOCK FALSE
