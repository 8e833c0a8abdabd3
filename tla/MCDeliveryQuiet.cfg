SPECIFICATION FairSpec
CONSTANTS
    d1 = d1
    d2 = d2
    w1 = w1
    w2 = w2
    a1 = a1
    None = None
    Deliveries = {d1, d2}
    Workers = {w1, w2}
    Admins = {}
    Administered = {}
    Env = {}
    MaxRetries <- DefaultAndZero
    MaxStalledCount = 1
CHECK_DEADLOCK FALSE
INVARIANTS TypeOK RowMirrorsJob
PROPERTY ImplementsFairLifecycle
