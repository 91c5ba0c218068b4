SPECIFICATION Spec
CONSTANTS
    Keys = {k1, k2, k3, k4}
    Values = {v1, v2}
    max_capacity = 3
    EmptySlot = EmptySlot
    NoValue = NoValue
    MaxSteps = 8
SYMMETRY Symmetry
INVARIANTS
    TypeOK
    StructureMatchesMap
    SizeBounded
PROPERTIES
    EvictionFollowsPolicy
    RefinesBoundedCache
