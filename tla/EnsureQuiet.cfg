SPECIFICATION FairSpec
CONSTANTS
    b1 = b1
    b2 = b2
    v1 = v1
    v2 = v2
    w = w
    plain = plain
    other = other
    NoBuild = NoBuild
    Builds = {b1, b2}
    Plans = {v1, w}
    VariantOf <- TwoVariants
    FlagSets <- NoFlags
    Operators = {"markStale", "delete", "verify"}
INVARIANTS
    BuildingHasBuilder
    BuiltHasImage
    CanceledLeavesNoBuilt
PROPERTIES
    EnsureEnds
CHECK_DEADLOCK FALSE
