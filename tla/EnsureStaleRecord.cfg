SPECIFICATION Spec
CONSTANTS
    b1 = b1
    b2 = b2
    v1 = v1
    v2 = v2
    w = w
    plain = plain
    other = other
    NoBuild = NoBuild
    Builds = {b1, b2}
    Plans = {v1, v2, w}
    VariantOf <- TwoVariants
    FlagSets <- NoFlags
    Operators = {}
INVARIANTS
    ExistingIsUsable
SYMMETRY BuildSymmetry
CHECK_DEADLOCK FALSE
