SPECIFICATION Spec
CONSTANTS
    b1 = b1
    b2 = b2
    v1 = v1
    v2 = v2
    w = w
    plain = plain
    other = other
    NoBuild = NoBuild
    Builds = {b1, b2}
    Plans = {v1, v2}
    VariantOf <- OneVariant
    FlagSets <- OneFlag
    Operators = {"docker", "busy", "prune"}
INVARIANTS
    
    OneLiveRowPerVariant
SYMMETRY BuildAndPlanSymmetry
CHECK_DEADLOCK FALSE
