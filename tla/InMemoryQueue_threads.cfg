\* Three threads, two messages delivered up to twice, one restart; fair threads
\* without fair timeouts.
CONSTANTS
    Ids = {m1, m2}
    Consumers = {c1, c2, c3}
    None = None
    MaxDeliveries = 2
    MaxRestarts = 1
SPECIFICATION FairSpec
INVARIANTS
    TypeOK
    SleepersAreNotNeeded
    AtMostOncePerLife
    NoLossWhileUp
    NoneIsOvertaken
PROPERTIES
    RefinesMessageQueue
    JobsNeedNoTimeout
