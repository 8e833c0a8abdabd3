SPECIFICATION Spec
CONSTANTS
    r1 = r1
    r2 = r2
    r3 = r3
    dA = dA
    dB = dB
    t1 = t1
    t2 = t2
    key = key
    NoKey = NoKey
    NoEvent = NoEvent
    Requests = {r1, r2, r3}
    Fanouts = {r1, r2, r3}
    RequestOf <- CrossTenantCalls
    Destinations = {dA, dB}
    DestinationOf <- Subscriptions
    Env = {"dbError", "queueError", "crash"}
CHECK_DEADLOCK FALSE
INVARIANTS TypeOK OneEventPerKey CompletedFanoutQueued JobsAreLoadable OneDeliveryPerDestination
