CONSTANTS
    t1 = t1
    t2 = t2
    a1 = a1
    MailJobs <- MCMailJobs
    QueueOf <- MCQueueOf
    Addressed <- MCAddressed
    MailEnv <- MCMailEnv
    MaxStalledCount = 1
SPECIFICATION FairMailSpec
CHECK_DEADLOCK FALSE
INVARIANTS
    MailBudget
    CompletedMeansMailed
PROPERTIES
    MailJobsEnd
