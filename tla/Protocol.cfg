SPECIFICATION Spec
CONSTANTS
    Methods <- MethodNames
    toupper <- UpperCase
    Keys <- KeyTexts
    Values <- LongTexts
    Layouts <- AllLayouts
    Probes <- ProbeRequests
    MaxMessages = 2
CHECK_DEADLOCK FALSE
INVARIANTS
    ParsedAsSent
    AnswersAreOneLine
