\* QUEUE_BACKEND=Memory, which build_queue accepts.
CONSTANTS
    Web = Web
    Workers = {w1}
    Settings <- MCMixedCase
    LowerCase <- MCLowerCase
    NumTables = 2
    MaxJobs = 1
    MaxKills = 0
SPECIFICATION Spec
CHECK_DEADLOCK FALSE
INVARIANTS
    InMemoryQueueIsRead
