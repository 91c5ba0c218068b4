SPECIFICATION Spec
CONSTANTS
    Trace <- MixedTrace
    Sources <- AllSources
    NumPolicies = 2
    SampleLimit = 2
    Faults = {"wget", "curl", "page", "gunzip", "kill"}
    MaxRuns = 3
    EmptyText = ""
    Absent = Absent
    Page = Page
CHECK_DEADLOCK FALSE
INVARIANTS
    TraceIsRead
    PassesComparable
PROPERTIES
    CompleteFilesKept
