SPECIFICATION Spec
CONSTANTS
    k1 = k1
    v1 = v1
    Keys = {k1}
    Values = {v1}
    NoValue = NoValue
    Listen = Listen
    NoClient = NoClient
    NoFd = NoFd
    Clients = {c1, c2}
    Descriptors = {5, 6}
    Commands <- AllCommands
    MaxRequests = 2
    BUFFER_SIZE = 4
    RecvBuffer = 6
    SendBuffer = 3
    AnswerUnits = 2
    MAX_EVENTS = 1
    Faults = {"start", "epoll_add_listen", "epoll_add", "accept", "epoll_wait", "signal"}
    Readers = {c1, c2}
SYMMETRY Symmetry
CHECK_DEADLOCK FALSE
INVARIANTS
    NoUseAfterClose
    NoForgottenData
    NoForgottenMessage
    AnswersMatchRequests
    AppliedInOrder
PROPERTIES
    IsolatedWhileOpen
