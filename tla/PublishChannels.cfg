SPECIFICATION Spec
CONSTANTS
    a1 = a1
    a2 = a2
    a3 = a3
    h1 = h1
    None = None
    Adaptations = {a1, a2, a3}
    Manual = {a2}
    Unsupported = {a3}
    Handlers = {h1}
    RetryLimit = 0
    MaxLateness = 0
    MaxTime = 0
    MaxSlot = 0
    MaxDecisions = 2
CHECK_DEADLOCK FALSE
INVARIANTS
    PublishedOnce
    ItemTellsFanOut
PROPERTIES
    ImplementsContract
