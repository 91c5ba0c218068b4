SPECIFICATION Spec
CONSTANTS
    k1 = k1
    k2 = k2
    Keys = {k1, k2}
    Trace <- LongTrace
    Workers = {w1, w2, w3}
    max_capacity = 2
    NoThread = NoThread
    NoRequest = NoRequest
INVARIANTS
    EachRequestOnce
    CountersMatchRequests
    MissesBoundedByWorkers
    AllProcessedAtStop
    StatisticsLackOnlyRequestsInHand
PROPERTIES
    EveryRequestProcessed
    StopMissesOnlyBlockingWorkers
