SPECIFICATION FairSpec
CONSTANTS
    a1 = a1
    h1 = h1
    h2 = h2
    None = None
    Adaptations = {a1}
    Manual = {}
    Unsupported = {}
    Handlers = {h1, h2}
    RetryLimit = 1
    MaxLateness = 0
    MaxTime = 2
    MaxSlot = 1
    MaxDecisions = 1
CHECK_DEADLOCK FALSE
PROPERTIES
    EventuallyDecided
