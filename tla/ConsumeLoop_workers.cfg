\* Two workers, two messages delivered up to twice, two faults; no symmetry,
\* which liveness checking excludes.
CONSTANTS
    Ids = {m1, m2}
    Workers = {w1, w2}
    None = None
    MaxDeliveries = 2
    MaxFaults = 2
    MaxStops = 1
    MaxExpiries = 1
SPECIFICATION FairSpec
INVARIANTS
    TypeOK
    AtMostOncePerMark
    NoConcurrentDuplicate
    NoLossWithoutFault
    NoneIsOvertaken
PROPERTIES
    RefinesAtMostOnce
    RefinesMessageQueue
    SignalStopsWorker
    QueueDrains
