SPECIFICATION PipeSpec
CONSTANTS
    r1 = r1
    dA = dA
    t1 = t1
    b1 = b1
    b2 = b2
    w1 = w1
    NoKey = NoKey
    NoEvent = NoEvent
    None = None
    Requests = {r1}
    Fanouts <- AllFanouts
    RequestOf <- Calls
    Destinations = {dA}
    DestinationOf <- Subscriptions
    Env = {}
    Batches = {b1, b2}
    Failures = {1, 2, 3}
    Slots = {1, 2, 3}
    ReplayLimit = 1
    ReplayWorkers = 1
    RetriesOf <- RaisedBeforeThird
    Workers = {w1}
CHECK_DEADLOCK FALSE
INVARIANT RecordedIfUnretried
PROPERTIES ImplementsEventPromise PickedUpIsReplayed EventsFanOut
