\* What the docstring of MessageQueue.seen says of a skipped message.
CONSTANTS
    Ids = {m1}
    Workers = {w1}
    None = None
    MaxDeliveries = 2
    MaxFaults = 0
    MaxStops = 0
    MaxExpiries = 0
SPECIFICATION Spec
INVARIANTS
    SkippedWasProcessed
