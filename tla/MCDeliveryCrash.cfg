SPECIFICATION ProcessorSpec
CONSTANTS
    d1 = d1
    d2 = d2
    w1 = w1
    w2 = w2
    a1 = a1
    None = None
    Deliveries = {d1, d2}
    Workers = {w1, w2}
    Processors = {w2}
    Admins = {a1}
    Administered = {d2}
    Env = {"dbError", "dbAckLost", "crash"}
    MaxRetries <- TwoBudgets
    MaxStalledCount = 1
CHECK_DEADLOCK FALSE
INVARIANTS PostBudget CompletedMeansDelivered EventFailureBeyondBudget
PROPERTIES AttemptCountNeverDrops ProcessorHonoursSuccess
