SPECIFICATION Spec
CONSTANTS
    Keys = {k1, k2, k3}
    Clients = {c1, c2}
    NoValue = NoValue
    Values = {0, 2, 3, 5}
    ByteSize <- SizeOfValue
    PAGE_SIZE = 2
    TOTAL_PAGES = 3
SYMMETRY Symmetry
INVARIANTS
    TypeOK
    PageOwnership
    AllocationCoversValue
    LruMatchesMap
    NoSpaceMeansExhausted
PROPERTIES
    RecencyKept
    EvictionIsLru
    EvictionIsMinimal
    RefinesKVCache
