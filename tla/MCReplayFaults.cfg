SPECIFICATION ReplaySpec
CONSTANTS
    r1 = r1
    r2 = r2
    dA = dA
    t1 = t1
    b1 = b1
    b2 = b2
    f1 = f1
    NoKey = NoKey
    NoEvent = NoEvent
    Requests = {r1, r2}
    Fanouts <- AllFanouts
    RequestOf <- Calls
    Destinations = {dA}
    DestinationOf <- Subscriptions
    Env = {"dbError", "queueError", "crash"}
    Batches = {b1, b2}
    Failures = {f1}
    ReplayLimit = 2
    ReplayWorkers = 2
CHECK_DEADLOCK FALSE
INVARIANT ReplayedMeansRequeued
