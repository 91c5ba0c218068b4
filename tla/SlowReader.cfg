SPECIFICATION FairSpec
CONSTANTS
    k1 = k1
    v1 = v1
    Keys = {k1}
    Values = {v1}
    NoValue = NoValue
    Listen = Listen
    NoClient = NoClient
    NoFd = NoFd
    Clients = {c1, c2}
    Descriptors = {5, 6}
    Commands <- GetOnly
    MaxRequests = 3
    BUFFER_SIZE = 4
    RecvBuffer = 6
    SendBuffer = 3
    AnswerUnits = 2
    MAX_EVENTS = 3
    Faults = {}
    Readers = {c1}
CHECK_DEADLOCK FALSE
PROPERTY EveryRequestAnswered
