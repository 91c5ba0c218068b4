SPECIFICATION Spec
CONSTANTS
    k1 = k1
    v1 = v1
    Keys = {k1}
    Values = {v1}
    NoValue = NoValue
    Listen = Listen
    NoClient = NoClient
    NoFd = NoFd
    Clients = {c1, c2}
    Descriptors = {5, 6}
    Commands <- AddAndGet
    MaxRequests = 2
    BUFFER_SIZE = 3
    RecvBuffer = 3
    SendBuffer = 3
    AnswerUnits = 1
    MAX_EVENTS = 3
    Faults = {}
    Readers = {c1, c2}
SYMMETRY Symmetry
CHECK_DEADLOCK FALSE
PROPERTY ClientIsolation
