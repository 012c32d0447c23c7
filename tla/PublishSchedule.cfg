SPECIFICATION Spec
CONSTANTS
    a1 = a1
    h1 = h1
    None = None
    Adaptations = {a1}
    Manual = {}
    Unsupported = {}
    Handlers = {h1}
    RetryLimit = 0
    MaxLateness = 0
    MaxTime = 3
    MaxSlot = 2
    MaxDecisions = 3
CHECK_DEADLOCK FALSE
INVARIANTS
    IInv
    LiveClaimAuthorised
    JobIdsBehind
PROPERTIES
    HumanDecisionStands
