SPECIFICATION Spec
CONSTANTS
    TOTAL_PAGES = 6
    MaxRequest = 5
INVARIANTS
    FreeListCanonical
    FreeListMatchesBitmap
    StatsDescribeBitmap
PROPERTIES
    CallsReturn
    ImplementsPageAllocator
