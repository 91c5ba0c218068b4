SPECIFICATION Spec
CONSTANTS
    k1 = k1
    k2 = k2
    Keys = {k1, k2}
    Trace <- ShortTrace
    Workers = {w1, w2}
    max_capacity = 1
    NoThread = NoThread
    NoRequest = NoRequest
PROPERTY StopReturns
